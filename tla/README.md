# cf-mssql-broker in TLA+

A verification project for the Cloud Foundry service broker in `src/`: a small
HTTP server that makes SQL Server databases (service instances) and contained
database users (bindings) on request.  It keeps no state of its own (README.md:12:
"The broker service does not need to save any state, thus it can be farmed"):
everything it knows is in SQL Server, which several broker processes, and the
applications that were given credentials, use at the same time.  What can go
wrong is therefore between its statements.

## The system

| component | state | operations | interacts with |
|---|---|---|---|
| service broker (`mssql_service_broker.go`) | none; globals `brokerConfig`, `mssqlProv` set at start-up | `Services`, `Provision`, `Deprovision`, `Bind`, `Unbind` | called by brokerapi, one goroutine per request; calls the provisioner; `logger.Fatal` on any error of it |
| provisioner (`provisioner/provisioner.go`) | `dbClient`, a `database/sql` pool without idle connections | `Init`, `Close`, `CreateDatabase`, `DeleteDatabase`, `CreateUser`, `DeleteUser`, `IsDatabaseCreated`, `IsUserCreated` | executes SQL templates line by line, user templates in a transaction |
| SQL Server (external) | databases, access modes, users, sessions, transactions, locks | the statements of the templates | shared by all broker processes and all applications |
| brokerapi (vendored, `api.go`, `service_broker.go`) | none | routes, decodes, maps errors to statuses | calls the `ServiceBroker` interface |
| panic wrapper and process (`main.go`) | the process | `exitOnPanicWrapper.ServeHTTP`, `runMain` | a panic of a request ends the process, the service manager restarts it |
| Windows service (`main_windows.go`, vendored `svc/service.go`) | the status of the run loop, the controls on their way | `Execute`: interrogate, pause, continue, stop; `service.run`, `ctlHandler`, the service main thread | called by the service control manager (SCM), reports to it; starts `runMain`, whose failure ends the process |
| go-mssqldb (vendored) | a connection: TCP stream, `sess.buf`, `tranid`, channel of tokens | connect, `Exec`, `Query`, `Begin`, `Commit`, `Rollback`, `Close`; `processResponse` in a goroutine of its own | called by database/sql, which sends again on `driver.ErrBadConn` |
| odbc (vendored) | a connection: `c.tx`, autocommit, statement handles | the same, through the ODBC API | as above; never asks for a repetition |
| statement templates (`compileTemplate`) | none | text of a statement from a line and its arguments | called by the provisioner's loops |
| configuration, log level, listening address (`config/config.go`, `main.go`) | `brokerConfig` | read once | |
| binding credentials, log file writer, logging, routing, authentication, installer | none that matters here | | |

What is hard here, and makes the properties:

* `Provision` and `Bind` check and then create, with no exclusion between
  requests or processes.  The loser's statement is refused, and an error is fatal:
  it ends the process and every request in it.
* `Deprovision` is two statements on two connections.  The first closes the
  database to everybody else *and kills the transactions that are in it*; a crash
  after it leaves the database closed, and whoever comes first gets its only place.
* `Bind` and `Unbind` are transactions; their statements wait for the locks of
  others, and others may be dead.
* A process may end at any moment, with statements on the wire that the server
  still executes; a reply may be lost; `database/sql` may send a statement again
  while the first copy of it is still to be executed, perhaps after the answer.
* `defer close(done)` in the panic wrapper runs before the process ends.
* go-mssqldb reads the answer to a request in a goroutine of its own, into the buffer
  that the next request writes, and hands tokens over in a channel of five places.
  Each read has a deadline, which may pass in the middle of a packet, and after which
  a transaction goes on *on the same connection*, with a rollback.
* odbc has neither deadlines nor goroutines, but a connection has a transaction, an
  autocommit attribute and a handle with two owners, and any call of the API may fail.
* A control of the SCM crosses three threads and two channels before it is a status,
  while the run loop may end at any of its steps, and Running is reported before the
  broker has read its configuration.

`PROJECT.json` lists each hazard with its line and the properties aimed at it.

## The modules

| module | what it is |
|---|---|
| `SqlServer` | the server: access mode, users and outside sessions of each database; transaction, context and arguments of each handler's session; `Waits`, `Accepts`, `Effect` say what a statement does |
| `MssqlProvisioner` | the templates as sequences of statements, the two loops (`Begin`, `ExecLine`, `Commit`, `Rollback`), their failures (`StatementRefused`, `CallFails`, `ReplyLost`) and when a driver sends again (`Resends`) |
| `MssqlServiceBroker` | the four operations, the handlers they run in, the end and the restart of processes, connections that are given up (`GiveUp`), late statements; `Spec` |
| `BrokerApi` | the statuses of the responses |
| `BrokerSafety` | type and consistency invariants, safety properties |
| `ServiceBrokerContract` | the abstract specification: the `ServiceBroker` interface as an atomic object |
| `BrokerRefinement` | the refinement mapping, `ImplementsContract` |
| `BrokerLiveness` | fairness, `RequestsEnd`, `DeprovisionConverges` |
| `BrokerExpectations` | what comments and tests say and the code does not do |
| `MCBroker` | small instances for TLC |
| `BrokerSafetyProofs`, `BrokerRefinementProofs`, `BrokerCalmProofs` | the theorems |
| `SqlTemplates` | the templates as sequences of pieces, `Sprintf`, `compileTemplate`, and which texts the server understands |
| `SqlCall` | one call of the provisioner on either driver: its requests, lines and effects |
| `MssqlConn` | that call on go-mssqldb: the two goroutines, the stream, the session at the server, what closed connections leave behind |
| `OdbcConn` | that call on odbc: connection, transaction, autocommit, statement handle |
| `SqlDelivery` | the abstract specification of both: which lines of a call take effect, how often, and what its result says of that |
| `SqlDrivers` | either driver; the properties |
| `MCDrivers` | the instance for TLC |
| `SqlDriversProofs`, `SqlTextProofs`, `SqlProgressProofs` | the theorems: safety and refinement; the text of statements; the progress of calls |
| `Descent` | the order in which what is left of a request or of a call goes down |
| `WindowsService` | the SCM, the service main thread, the control handler, the run loop, `Execute` and `runMain`, in several processes one after the other |
| `ServiceControl` | the abstract specification: what the SCM may rely on |
| `ServiceSafety` | the properties and the refinement mapping |
| `MCService`, `ServiceProofs` | the instance for TLC; the theorems |

There are three specifications.  The broker's: `SqlServer` is extended by
`MssqlProvisioner`, that by `MssqlServiceBroker`, and so on down the table;
`BrokerRefinement` instantiates `ServiceBrokerContract`.  The drivers': `SqlTemplates`
by `SqlCall`, that by `MssqlConn` and `OdbcConn`, both by `SqlDrivers`; `SqlCall`
instantiates `SqlDelivery`.  The service's: `WindowsService` by `ServiceSafety`, which
instantiates `ServiceControl`.

They are not composed formally; the first is written to allow what the second shows.
Both drivers implement `SqlDelivery`: a transaction takes effect as a whole and at
most once, perhaps after its call has failed; a line without one may take effect
again while it is repeated, and at any time after the call is over.  In the first
model these are: a failure before any effect (`CallFails`), an effect whose reply is
lost (`ReplyLost`, which with `DriverResends`, that is go-mssqldb, may go on with the
same statement), and a call that is given up while its statement is on the way
(`GiveUp`).  `GiveUp` leaves the connection, with that statement, in a slot of its own
(an element of `Handlers` that no process hosts); the request goes on to its error, or
with `DriverResends` sends the statement again, and the server executes the copy in the
slot (`LateEffect`) or drops it (`Reap`) at any later time, whatever has happened to the
request, its process and the database since.  A commit and a line without a
transaction can be left so.  A line of a transaction, a `begin`, a `rollback` or a query
needs no copy: without a commit to follow it has no effect that remains.
The life of a process in the first (`down`, connecting, listening, a failure that
ends it) is `runMain` in the third.

### State and code

| variable | code |
|---|---|
| `mode`, `users`, `guest` | a database of SQL Server: absent, open, or in single_user mode; its contained users with password and db_owner membership; whether an application is connected |
| `txn`, `at` | the `sql.Tx` of a request (provisioner.go:153), what it has done so far, and its current database (`use`) |
| `args` | `databaseName`, `username`, `password` of the request |
| `Host[h]` | the process of the goroutine `h`, or `None` for a slot that holds a connection that was given up |
| `op`, `pc`, `line` | the operation, the provisioner call it is in or the value it returned, the index in the template |
| `proc` | the broker process: down, connecting (`Init`), listening |
| `orphan` | the requests whose process has ended, and the slots of connections that were given up, whose session the server still has |
| `faults` | counts failures from outside, for the bound |

Of the drivers:

| variable | code |
|---|---|
| `driver`, `call`, `pc`, `req`, `line` | `goSqlDriver`; the template, its arguments and how it is executed; how far the goroutine of the request is, the request and the line it makes |
| `applied` | the lines that have taken effect at the server, in this order |
| `tries` | the loop over `maxBadConnRetries` of database/sql |
| `link`, `sent`, `tranid` | the TCP connection, the requests written to it, whether `sess.tranid` is set |
| `wire`, `inbound`, `torn` | requests under way; packets under way, each a sequence of tokens; whether a packet was read in part |
| `parser`, `buf`, `chan` | `processResponse`, what is left of the packet in `sess.buf`, `tokchan` |
| `tran`, `late` | the transaction of the session; what connections that are closed or lost have left at the server |
| `live`, `inTx`, `auto`, `work`, `limbo` | `c.h` and its session, `c.tx`, `SQL_ATTR_AUTOCOMMIT`, the open transaction, what the server still does when the connection is lost |
| `stmt`, `err` | an `ODBCStmt` with its handle and its two owners; the error so far |

The pool of database/sql keeps no idle connections (provisioner.go:76): it never hands
the connection of one call to another, so one call on one driver at a time is the
whole of it; what it leaves at the server is there in every later state.  The ODBC
driver manager has a pool of its own (odbc/driver.go:40-48): `SQLDisconnect` may park
the session, and the next `SQLDriverConnect` may be given it.  The driver manager
resets a session before that, and it cannot be parked in a transaction, which
`SQLDisconnect` refuses; a parked session therefore counts as ended here, and its
reset is assumed.  Statements are sequences of pieces (verbs, brackets,
quotes, words), and an argument is one too: enough to tell whether a bracket or a
quote is closed and where the text that `fmt` adds for an argument without a verb
begins.

Of the service:

| variable | code |
|---|---|
| `reported`, `current` | what the SCM knows, and the process it started last |
| `phase` | the thread of `servicemain` and the dispatcher |
| `handling` | the control with which `ctlHandler` blocks on `s.c` |
| `run`, `cmd`, `status` | the goroutine of `service.run`, its `cmd` and its copy of the status |
| `exec`, `acting`, `sending` | the goroutine of `Execute`, the control it acts upon, the status it sends |
| `broker`, `port` | the goroutine of `runMain`; who listens on the address |

In the broker's model names are identifiers: the database is `prefix + instanceID`, the
user `database + "-" + bindingID`, so arguments stand for the IDs themselves.  Passwords are 256
random bits: `Fresh` picks one that nobody has.  A failure of the random generator
is a panic before the first query and is the same as a failure of that query.
One step of a handler is a statement *and* the local reaction to its reply, as
nothing in between can be seen.  A failed template line goes to `Rollback` in a
transaction and to `panic` otherwise; a failed query, begin, commit or rollback
goes to `panic` (`logger.Fatal` of lager logs and panics).  The wrapper's goroutine
then ends the process (`Exit`), possibly after an implicit 200 (`ImplicitReply`).
Between the panic and the exit other requests of the process go on.

### What is assumed of SQL Server

* CREATE DATABASE is refused for an existing name; DROP DATABASE while another
  session is in the database; USE, the query of its users and ALTER DATABASE while
  it is in single_user mode and another session has the place.
* SET SINGLE_USER WITH ROLLBACK IMMEDIATE ends all other sessions in the database,
  and those that hold locks in it, and rolls them back.
* CREATE USER and DROP USER wait while another transaction has an uncommitted change
  of that user.  The query of the users sees committed users and does not wait:
  that includes the outcomes of a query that does.
* A transaction that is not committed leaves nothing.  Statements of a client that
  is gone may still be executed if they end their work on their own (a commit, or
  a line without a transaction); then the session ends.
* A statement on a connection that was given up is one of those, whether or not
  its request is over.

Without idle connections (provisioner.go:76) only a transaction keeps a session
between two statements.

The driver model assumes less: the server executes a request or refuses it, which
may or may not end a transaction that is open, in the order of the requests of a
session, at any time or never, and answers in one packet or in two.  A connection
that is lost leaves requests that the server may still execute or drop.

### What is assumed of the SCM

It sends one control at a time, and only such as the reported state accepts.  It
does not kill the process.  It starts a new process once the service is reported
to be stopped, which the old one need not have noticed.  `SetServiceStatus` and the
registration of the handler may fail (`ApiFails`).

### Client

Requests arrive in any order and number, for any instance and binding.
`Serialized = TRUE` restricts the client to one request per instance at a time, as
Cloud Controller does; only runs about what holds then use it.

## The runs

| run | question | size |
|---|---|---|
| `farm` | do any two requests, in two processes with two failures, keep the server consistent and each call atomic, its error values included? | 2 handlers in 2 processes, 1 connection given up, 1 instance, 1 binding, 2 passwords; about 800,000 states |
| `resend` | when a driver resends statements whose first copies may be executed later, are answers still true, do bindings last until their removal, and does every step of a request bring it nearer its end? | 2 handlers in 1 process, 1 connection given up, 2 bindings, 1 failure; about 510,000 states |
| `calm` | with no failure and one request per instance, is there never a crash, and does every success hold? | 2 instances, 2 bindings |
| `requests_end` | does every request end? | 2 processes, 1 failure, no client restriction |
| `deprovision_converges` | does repeating Deprovision remove what a crash left? | 2 processes, 2 failures, one request per instance at a time |
| `service` | are controls obeyed in their order, does a Stop stop, does a Running service serve, is the port given back, and what can stop a process for ever? | 2 processes, Interrogate and Stop, every call of the service API may fail |
| `drivers` | does a call on either driver do what `SqlDelivery` says, get on with every step, and return? | 11 calls: each template, the mark of `fmt` in each kind of name, and a bracket in one; about 73,000 states |
| `unbind_missing`, `failure_answered_ok`, `delete_in_two_steps`, `duplicate_provision` | where comments and tests disagree with the code (below) | 1 process |
| `service_hangs` | the same, of the service | 2 processes, no failures of the API |

Bounds.  `MaxFaults` bounds crashes, failed calls, lost replies, failed starts and
connections of applications together; restarts and requests are unbounded.  Two
failures suffice for a crash in the middle of a Deprovision with an application or
a second crash after it.  Two handlers give every pair of operations on one
database; three passwords allow a committed user and two binds in progress (`farm` has
two, so that there a bind waits while two passwords are in use).  `farm` and `resend`
have one slot (`c1`) for a connection that was given up: one late copy at a
time, and as many as `MaxFaults` in all, around any number of requests; the theorems hold
for any number of slots, passwords and failures.  The runs of liveness have no slot, to
stay small: to others a connection that was given up is what the session of a dead
process is, and those they have.  `calm` has no failures.
Passwords and bindings are symmetric (they are only compared for equality), and so are
the two handlers of one process and, in `farm`, the two processes with their handlers; runs of
liveness properties use no symmetry.  No run of
the broker turns the deadlock check off: a process can always be started, killed
within the bound or sent a request.

`drivers`: `ChanCap` is 1 where the code has 5, so that the parser blocks on answers
as short as those of these statements, and `MaxTries` is 3 where database/sql has 10;
the theorems hold for all values of both, and for all calls.  Failures are not
bounded.  `service`: two processes are one that ends and one that is started
meanwhile; each is used once.  Interrogate and Stop are the control that must not
bring an old status back and the one that ends the loop; Pause and Continue differ
from Interrogate in `Answer` only, and the theorems hold for them.  Both turn the
deadlock check off: a call ends, and so does the last process.

Fairness (`BrokerLiveness`).  A request that can go on does; *strong* fairness, since
a statement that waits is enabled only while the lock is free, and the lock queue
of SQL Server is first come, first served.  A panicking process ends (the Go
runtime), is restarted (the service manager; main.go:26-31 relies on it) and then
connects and listens unless that fails, which is a bounded fault.  The server
notices that a client is gone.  Applications disconnect in the end: without this an
application that holds the only place in a single_user database blocks
Deprovision for ever.  Nothing is assumed to be requested, except in
`PersistentSpec`, where the client repeats Deprovision as long as the broker listens.

Of the drivers (`FairSpec` of `SqlDrivers`) only the two goroutines of go-mssqldb are
fair.  The server may keep a request for ever, since the deadlines of `timeoutConn`
end each wait; odbc has none, so a call on it need not return and nothing is claimed.
Of the service each goroutine and thread that can run does; each case of the select
that is ready stays ready until it is taken, so weak fairness of each is enough.
Nothing is assumed of the SCM or of callers.

### What the properties say

* `Consistent`: the session of a request is exactly as far as its loop over the
  template; nobody is in a database that is not there; uncommitted changes do not
  conflict; committed users are owners.
* `CommittedUsersAreOwners`: a user without its role is never seen, whatever fails.
* `BindingsEndOnRequest`: no failed or resent statement, no duplicate bind, no request for
  another binding and no end of a process rewrites or drops the user of a binding; only
  the last statement that was sent for the removal of that binding, or of its
  instance, does.  It does not say that the request still waits: a copy of
  `DROP DATABASE` on a connection that was given up can be executed after the
  Deprovision was answered, and ends what was provisioned and bound since.  That is what
  the code does with go-mssqldb when a deadline passes outside of a transaction, and
  `resend` reaches it.
* `ImplementsContract`: a call that returns nil took effect entirely; one that returns
  an error value had no effect, and at an instant of the call the state was the one the
  value names (`Truthful`): `ErrInstanceAlreadyExists` only for an instance that is there,
  and so on; it takes effect only at an instant at which none of them is true.  The
  value for an Unbind without a binding is a parameter, `UnbindMissing`:
  service_broker.go:22-28 has `ErrBindingDoesNotExist`, the code returns
  `ErrBindingAlreadyExists`, and the refinement gives it the code's; which of them it should be
  is 1 below.  With `DriverResends` a call may take effect again before it is answered
  (`Repeats`), and whatever the driver a copy of a call that was accepted may take
  effect once more, entirely or not at all, after the call is over (`Leave`, phase
  `late`).  The contract promises no answer: any call may be lost.  That requests end
  is `RequestsEnd`; that one which meets a concurrent request may end in `logger.Fatal`
  is 4 below, and nothing says that it may not.
* `RequestsAdvance`: every step of a request lowers what it has left (`LeftToDo`: calls,
  lines of the template, failures that may make it repeat a statement), and no step
  of anybody else raises it.  An error path that went back to a call that was already
  made would break it.
* `CalmRequestsNeverCrash`, `CalmAnswersHold`, `RequestsEnd`, `DeprovisionConverges`: as
  in the table.

Of the drivers:

* `ImplementsDelivery`: the lines of a transaction take effect together, once or not
  at all, though its commit may be executed late and its rollback may read somebody
  else's answer; a line without a transaction only after the one before it; a call
  that succeeds has had all its effects.  A transaction that fails before its commit
  was written never takes effect.
* `OneReader`: the goroutine of the request writes or closes the session only when no
  `processResponse` reads it.  `sess.buf` has no lock.
* `AnswersAreOwn`: what is read for a request is its answer.  The rollback is excepted:
  after a deadline it may take the late answer for its own, and does (net.go:51);
  `ImplementsDelivery` says that this does no harm.
* `TransactionsEnd`: an ODBC transaction does not outlive its call, with its locks,
  except when its rollback fails, which ends the process, or its commit does.  In
  the second case the connection cannot be closed and the transaction keeps its
  locks until the process ends: a risk the code takes.
* `StatementsClosedFirst`: the handle with two owners is given to `SQLFreeHandle` by the
  last of them, before the connection is used for anything else, whichever call has
  failed.  Whether the driver manager then frees it is not modelled: `ODBCStmt` has
  forgotten it either way (odbcstmt.go:86-90).
* `StatementsAsMeant`: a line says something else than its template only if an argument
  holds the mark `%!(EXTRA` at which `compileTemplate` cuts it, and such a line takes
  effect only if an argument holds a bracket or quote too; otherwise what is left has an
  open quote or bracket and is refused.  Passwords are base64 and hold neither.  The
  IDs come from the URL unchecked (mssql_service_broker.go:44, 92-93), and the broker relies on
  its client, Cloud Controller, for names without delimiters: of others
  the property promises nothing, and the model says nothing of what the server makes
  of them beyond counting delimiters.
* `CallsAdvance`: every step of either goroutine, of the connection and of the server
  lowers `Remaining` (requests, tries, steps of the request, then what is on the
  stream, in the buffer and in the channel), except what the server still does for
  connections that are closed.
* `CallsReturn`: no call on go-mssqldb hangs, so neither goroutine waits for the other
  for ever.

Of the service:

* `ImplementsServiceControl`: accepted controls are obeyed in their order and none is
  skipped; a service that has stopped listening reports nothing but Stopped.
* `EchoIsCurrent`: an interrogation does not bring an old status back.
* `OneReporter`: a process that is on its way out reports nothing while another runs.
* `BlockedOnlyByControls`: when every thread of a live process waits for another one
  (`Blocked`), the service is serving and has nothing to do, or a control was left in
  its handler after the run loop had ended.  It is the converse of 5 below: that
  hang is the only one, and needs such a control.
* `StopIsObeyed`, `RunningMeansServing`, `StoppedProcessEnds`: a Stop is not lost; Running
  is reported before anything was read, but then the broker listens or the process
  ends; the port is given back, unless a control was left in the handler (5 below).

### Where documents and code differ

1. `Unbind` returns `ErrBindingAlreadyExists` for a missing binding
   (mssql_service_broker.go:154); brokerapi answers 500, its test (api_test.go:565-569)
   says 410.
2. A failed operation may be answered with an implicit 200 (main.go:24), not 500.
3. "Sql templates are executed as a trascation" (provisioner.go:10): the database
   templates are not.
4. The second of two concurrent provision requests ends the process; it is not
   answered 409.
5. "the service will exit once Execute completes" (svc/service.go:72-73): a control
   accepted while the service still was Running, whose handler reaches `s.c <- e`
   (290) after the run loop has ended, blocks the dispatcher thread for ever.  Stopped
   is reported, but the process stays, and with it the listener of `runMain`; the next
   process cannot take the address.

### Mutants

A definition whose comment begins with "Mutant" is the definition that follows it,
with a mistake one could make in that code; no specification uses it.  For every
property `PROJECT.json` names one with which the property fails.

## What is proved

For all constants that satisfy the named assumptions (`NoneAssumption`,
`DriverResendsAssumption`, `MaxFaultsAssumption`, `HostAssumption`,
`SerializedAssumption`), whatever the sets of instances, bindings, passwords,
handlers and processes:

* `TypeCorrect`: `Spec => []TypeOK`
* `ConsistentAlways`: `Spec => []Consistent`
* `OwnersAlways`: `Spec => []CommittedUsersAreOwners`
* `BindingsLast`: `Spec => BindingsEndOnRequest`
* `RequestsGoOn`: `Spec => RequestsAdvance`
* `Refinement`: `Spec => ImplementsContract`
* `CalmNeverCrashes`: `Spec => []CalmRequestsNeverCrash`
* `CalmAnswersAreTrue`: `Spec => []CalmAnswersHold`

The inductive invariant is `IInv == TypeOK /\ Consistent`.  `CommittedUsersAreOwners` is
not inductive alone: that a commit creates an owner needs that the session has
executed all lines of the template (`SessionOK`), or is gone; that it overwrites
nobody needs that two sessions never hold changes of one user and that the user is
still as it was when the lock was taken (`LockOK`), which needs that a database with
a session in it is not dropped and that an absent one has no users (`AbsentOK`);
and `RequestOK` ties the arguments to the operation.  Each action is a lemma; the
effects of the statements on the locks of the other sessions are lemmas of their
own.  `BindingsLast` and `Refinement` use the invariant: a step that changes users
is a commit or a drop, of a request or of a connection that was given up, and under
`LockOK` a commit is exactly the contract's `Perform` in an admissible state.  A session
that is given up takes its locks and its place in the loop along (`DetachedSession`,
`DetachedLocks`), so the invariant says of it what it said of the request.  `RequestsGoOn` needs the types alone: each action of a
request goes to a later call, to the next line, or uses up a failure.

The `Calm` theorems need more than that, and only while nothing has failed:
`CalmInv` says that no two requests have one instance, that neither dead clients nor
applications are at the server, and that what a request has found out about its
instance is still so (`Current`).  Then no statement is refused (`NeverRefused`), and
no request touches what another has seen (`OthersUntouched`).

For the drivers, for all sets of calls, channel capacities and numbers of tries
(`CallsType`, `CallsTemplated`, `ChanCapType`, `MaxTriesType`): `DriversTypeCorrect`, `DriversOneReader`,
`DriversAnswersAreOwn`, `DriversTransactionsEnd`, `DriversStatementsClosedFirst`, and
`DriversDeliver`: `Spec => ImplementsDelivery`.  None of these properties is inductive:
that a call succeeds only when it has had its effects is known to the client from a
"done" token that may be in the channel, in the buffer or on the way.  The invariant
of go-mssqldb therefore says, for each place a token may be in, what it stands for
(`AnswerOK`): a "done" is the last token of its answer, and the server has executed
the request (`Answered`), and a request that is not executed finds the transaction
that the requests before it have made (`Before`).  It excepts the rollback, whose
answers mean nothing; instead `TxOK` says that once it is on the way no commit is on
that connection, and `TxLateOK` that a commit which a closed connection has left is
the only one, with all lines before it.  The invariant of odbc ties the position of
the call to the transaction (`WorkOK`, `EndOK`), to the attribute (`AutoOK`) and to the
handle (`StmtOK`).  Each action has a lemma for each part.  A step of the refinement is
`TakeEffect` when `applied` changes, and otherwise a change of `Stage` or nothing.

`DriversStatementsAsMeant`: `Spec => []StatementsAsMeant`, for all arguments, not only those
that TLC tries.  Without the mark in an argument nothing but the text that `fmt` adds is
ever cut (`FilledMarked`), brackets or not.  With it, a text that `compileTemplate` has cut short
ends inside the piece that an argument was put into; in front of the cut are an opening
bracket or quote and the beginning of the argument, which, if no argument holds a
delimiter, does not close it, so the server refuses the line (`FilledQuoted`, `TrimmedQuoted`).
`SqlTextProofs` proves this by counting the delimiters of a text up to each position,
an induction over the length of the line.  (The induction theorems of the library take
an operator; `NatSetInduction` states induction for a set instead and follows from the
well-foundedness of the naturals.)  The one assumption is `CallsTemplated`, about the
templates alone (provisioner.go:13-43): in each line every verb stands between brackets or
between quotes and has an argument, a line without a verb is closed, and none holds the
mark itself.  TLC evaluates it on the six templates.

`DriversAdvance`: `Spec => CallsAdvance`, and `NoEndlessDescent`: the order of `Lower` on tuples
of naturals has no infinite descent.  Together, with `DriversRanked` (`Remaining` consists of
naturals), they say that no call takes infinitely many steps, however often
connections, statements and replies fail.  The same theorem applies to `LeftToDo`
(`RequestRanked`) in the model of the broker.  What is left of `CallsReturn` and
`RequestsEnd` for TLC is that nobody waits for ever.

For the service, for all sets of processes and with an API that may fail
(`ControlsType`, `NoneIsNothing`, `ApiFailsType`): `ServiceTypeCorrect`, `EchoesAreCurrent`,
`ReportersAreAlone`, `BlockedByControls`, `ServiceRefinement`: `Spec => ImplementsServiceControl`.  The
inductive invariant `ServiceInv` says of each process that its copy of the status is
what it reported (`Remembers`), that what `Execute` sends is the answer to what it acts
upon (`Answers`), and that it is the service until its loop has ended (`SpeaksAlone`).  `BlockedByControls`
adds `SettledInv`: before the run loop begins nobody handles a control, while it runs
`Execute` does not fall out of step with it, and a main thread that has returned has
left a loop that ended or never began.  The guards in `Blocked` are those of the actions of a
process; TLC, on a live process, finds them equivalent to none of them being enabled.

Every safety property that a run checks is proved.  Only model-checked are the six
liveness properties, `RequestsEnd`, `DeprovisionConverges`, `CallsReturn`, `StopIsObeyed`,
`RunningMeansServing` and `StoppedProcessEnds`: reasoning from fairness needs ENABLED,
which is outside the prover.  What of them is safety is proved beside them: that
requests and calls cannot go on for ever, and where a process of the service can stop.

## Not modelled

* The ODBC driver manager: its pool of sessions, and a `SQLFreeHandle` that fails.
* go-mssqldb and odbc: the login, TLS, parameters, column types and values, code
  pages, results of other statements.  The broker executes statements without
  parameters and reads one number.
* Connection strings, the formatting of names and credentials, the random password.
* Start-up in detail: reading and checking the configuration, the log level and the
  address is one step that succeeds or ends the process.  `provisioner.go:76` uses
  the result of `sql.Open` before its error: either way the process ends.
* Authentication, routing and decoding of requests (no state; what they reject does
  not reach the broker), logging, the installer, test tools.

Of the lines of the repository the models cover few, because most are data or
declarations: the tables of the code pages 932, 936, 949 and 950 in go-mssqldb are
61,000 of 89,600, the Windows system calls and types another 4,000, and much of the
rest is vendored code that the broker does not call.  Of the code that decides what
the broker does (`mssql_service_broker.go`, `provisioner.go`, `main*.go`, the run loop of
`svc`, and the paths of both drivers that these calls take) nothing that changes
state is left out but what is listed here.  `PROJECT.json` has the reason for each
component.

## Plan

1. *Done*: server, provisioner, broker, contract, refinement, liveness; safety and
   refinement proved.
2. *Done*: the Windows service with `runMain`, its contract with the SCM; safety and
   refinement proved.  (Planned as two modules; the life of `runMain` turned out to be
   two steps of the service.)
3. *Done*: both drivers, their common abstract specification, the templates at token
   level; safety and refinement proved.
4. *Done*: the `Calm` properties proved, so that every safety property of the broker and
   of the service is.
5. *Done*: the text of statements (`SqlTextProofs`), the descent of calls and of requests,
   the states in which the service waits.
6. That a call on go-mssqldb which is not over can always go on: the guards of both
   goroutines, as `Blocked` has those of the service, so that of `CallsReturn` only the
   fairness is left to TLC.
7. The connection set-up of go-mssqldb (`connect`: prelogin, the TLS handshake wrapped
   in prelogin packets, login), with the promise that a connection handed to
   database/sql has no reader and nothing unread, which `MssqlConn` takes for granted.
8. The configuration cases of `runMain`, should they come to differ in more than what
   is logged.

A model of Cloud Controller, with retries and orphan mitigation, was planned and
dropped: it is not in this repository, and `PersistentSpec` and `Serialized` say what
the broker needs of it.
