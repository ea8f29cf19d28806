--------------------------- MODULE SqlTextProofs ---------------------------
(***************************************************************************)
(* What compileTemplate makes of a line, by induction over the line, and   *)
(* that no line takes effect that says something else.                     *)
(***************************************************************************)
EXTENDS SqlDriversProofs, FiniteSetTheorems, SequenceTheorems, WellFoundedInduction

(* Induction over the natural numbers, as a property of sets.              *)
LEMMA NatSetInduction ==
    ASSUME NEW T, 0 \in T, \A n \in Nat : n \in T => n + 1 \in T
    PROVE  \A n \in Nat : n \in T
<1> SUFFICES ASSUME NEW n \in Nat, n \notin T PROVE FALSE
  OBVIOUS
<1> DEFINE Bad == {m \in Nat : m \notin T}
           Less == {ss \in Nat \X Nat : ss[1] < ss[2]}
<1>1. IsWellFoundedOn(Less, Nat)
  BY NatLessThanWellFounded DEF OpToRel
<1>2. PICK x \in Bad : \A y \in Bad : ~ (<<y, x>> \in Less)
  <2>1. Bad \subseteq Nat /\ Bad # {}
    OBVIOUS
  <2> HIDE DEF Bad, Less
  <2> QED
    BY <1>1, <2>1, WFMin
<1>3. x \in Nat /\ x # 0 /\ x - 1 \in Nat /\ x = (x - 1) + 1 /\ x - 1 < x
  OBVIOUS
<1>4. x - 1 \in T
  <2>1. <<x - 1, x>> \in Less
    BY <1>3
  <2> QED
    BY <1>2, <1>3, <2>1
<1> QED
  BY <1>3, <1>4

-----------------------------------------------------------------------------
(* FlattenSeq, part by part.                                               *)
Concats(h, seqs, n) ==
    /\ h[0] = <<>>
    /\ \A i \in 1..n : h[i] = h[i - 1] \o seqs[i]

LEMMA ConcatsExist ==
    ASSUME NEW S, NEW seqs \in Seq(Seq(S))
    PROVE  \A n \in Nat : n <= Len(seqs) => \E h : Concats(h, seqs, n)
<1> DEFINE T == {n \in Nat : n <= Len(seqs) => \E h : Concats(h, seqs, n)}
<1>1. 0 \in T
  <2>1. Concats([i \in {0} |-> <<>>], seqs, 0)
    BY DEF Concats
  <2> QED
    BY <2>1
<1>2. ASSUME NEW n \in Nat, n \in T, n + 1 <= Len(seqs)
      PROVE  \E h : Concats(h, seqs, n + 1)
  <2>1. PICK h : Concats(h, seqs, n)
    BY <1>2
  <2> DEFINE g == [i \in 0..(n + 1) |-> IF i <= n THEN h[i] ELSE h[n] \o seqs[n + 1]]
  <2>2. g[0] = <<>>
    BY <2>1 DEF Concats
  <2>3. ASSUME NEW i \in 1..(n + 1) PROVE g[i] = g[i - 1] \o seqs[i]
    <3>1. CASE i = n + 1
      <4>1. i \in 0..(n + 1) /\ ~(i <= n) /\ i - 1 \in 0..(n + 1) /\ i - 1 <= n /\ i - 1 = n
        BY <3>1
      <4>2. g[i] = h[n] \o seqs[n + 1] /\ g[i - 1] = h[n]
        BY <4>1
      <4> QED
        BY <3>1, <4>2
    <3>2. CASE i # n + 1
      <4>1. i \in 0..(n + 1) /\ i <= n /\ i - 1 \in 0..(n + 1) /\ i - 1 <= n /\ i \in 1..n
        BY <3>2
      <4>2. g[i] = h[i] /\ g[i - 1] = h[i - 1]
        BY <4>1
      <4> QED
        BY <2>1, <4>1, <4>2 DEF Concats
    <3> QED
      BY <3>1, <3>2
  <2> HIDE DEF g
  <2>4. Concats(g, seqs, n + 1)
    BY <2>2, <2>3 DEF Concats
  <2> QED
    BY <2>4
<1>3. ASSUME NEW n \in Nat, n \in T PROVE n + 1 \in T
  <2>1. n + 1 <= Len(seqs) => \E h : Concats(h, seqs, n + 1)
    <3> HIDE DEF T
    <3> QED
      BY <1>2, <1>3
  <2> QED
    BY <2>1
<1> HIDE DEF T
<1>4. \A n \in Nat : n \in T
  BY <1>1, <1>3, NatSetInduction
<1> QED
  BY <1>4 DEF T

LEMMA FlattenSeqConcats ==
    ASSUME NEW S, NEW seqs \in Seq(Seq(S))
    PROVE  \E h : Concats(h, seqs, Len(seqs)) /\ FlattenSeq(seqs) = h[Len(seqs)]
<1>1. CASE seqs = <<>>
  <2>1. Concats([i \in {0} |-> <<>>], seqs, Len(seqs)) /\ FlattenSeq(seqs) = <<>>
    BY <1>1 DEF Concats, FlattenSeq
  <2> QED
    BY <1>1, <2>1
<1>2. CASE seqs # <<>>
  <2> DEFINE n == Len(seqs)
             IsFlatten(f) == f = [i \in 1..n |-> IF i = 1 THEN seqs[i] ELSE f[i - 1] \o seqs[i]]
  <2>1. n \in Nat /\ n >= 1
    BY <1>2
  <2>2. PICK h : Concats(h, seqs, n)
    BY <2>1, ConcatsExist
  <2>3. seqs[1] = <<>> \o seqs[1]
    <3>1. seqs[1] \in Seq(S)
      BY <2>1
    <3> QED
      BY <3>1
  <2>4. IsFlatten([i \in 1..n |-> h[i]])
    <3> DEFINE e == [i \in 1..n |-> h[i]]
    <3>1. h[1] = seqs[1]
      <4>1. 1 \in 1..n /\ 1 - 1 = 0
        BY <2>1
      <4>2. h[1] = h[0] \o seqs[1] /\ h[0] = <<>>
        BY <2>2, <4>1 DEF Concats
      <4> QED
        BY <2>3, <4>2
    <3>2. ASSUME NEW i \in 1..n, i # 1 PROVE e[i] = e[i - 1] \o seqs[i]
      <4>1. i - 1 \in 1..n
        BY <2>1, <3>2
      <4> QED
        BY <2>2, <4>1 DEF Concats
    <3>3. e = [i \in 1..n |-> IF i = 1 THEN seqs[i] ELSE e[i - 1] \o seqs[i]]
      BY <3>1, <3>2
    <3> QED
      BY <3>3
  <2>5. FlattenSeq(seqs) = (CHOOSE f : IsFlatten(f))[n]
    BY <1>2, <2>1 DEF FlattenSeq
  <2>6. PICK f : IsFlatten(f) /\ FlattenSeq(seqs) = f[n]
    <3> HIDE DEF IsFlatten
    <3> QED
      BY <2>4, <2>5
  <2> DEFINE g == [i \in 0..n |-> IF i = 0 THEN <<>> ELSE f[i]]
  <2>7. g[0] = <<>> /\ g[n] = f[n]
    BY <2>1
  <2>8. ASSUME NEW i \in 1..n PROVE g[i] = g[i - 1] \o seqs[i]
    <3>1. f[i] = IF i = 1 THEN seqs[i] ELSE f[i - 1] \o seqs[i]
      BY <2>6
    <3>2. CASE i = 1
      <4>1. g[1] = f[1] /\ g[1 - 1] = <<>>
        BY <2>1
      <4> QED
        BY <2>3, <3>1, <3>2, <4>1
    <3>3. CASE i # 1
      <4>1. i \in 0..n /\ i # 0 /\ i - 1 \in 0..n /\ i - 1 # 0
        BY <3>3
      <4>2. g[i] = f[i] /\ g[i - 1] = f[i - 1]
        BY <4>1
      <4> QED
        BY <3>1, <3>3, <4>2
    <3> QED
      BY <3>2, <3>3
  <2> HIDE DEF g, IsFlatten
  <2>9. Concats(g, seqs, n)
    BY <2>7, <2>8 DEF Concats
  <2> QED
    BY <2>6, <2>7, <2>9
<1> QED
  BY <1>1, <1>2

(* A sequence with an element more.                                        *)
LEMMA OneMore ==
    ASSUME NEW S, NEW s \in Seq(S), NEW e \in S
    PROVE  /\ s \o <<e>> \in Seq(S) /\ Len(s \o <<e>>) = Len(s) + 1
           /\ DOMAIN (s \o <<e>>) = 1..(Len(s) + 1)
           /\ (s \o <<e>>)[Len(s) + 1] = e
           /\ \A m \in 1..Len(s) : (s \o <<e>>)[m] = s[m]
<1> DEFINE t == <<e>>
<1>1. t \in Seq(S) /\ Len(t) = 1 /\ t[1] = e /\ Len(s) \in Nat
  OBVIOUS
<1> HIDE DEF t
<1>2. /\ s \o t \in Seq(S) /\ Len(s \o t) = Len(s) + Len(t)
      /\ \A m \in 1..(Len(s) + Len(t)) :
            (s \o t)[m] = IF m <= Len(s) THEN s[m] ELSE t[m - Len(s)]
  BY <1>1, ConcatProperties
<1>3. Len(s) + 1 \in 1..(Len(s) + Len(t)) /\ ~(Len(s) + 1 <= Len(s)) /\ (Len(s) + 1) - Len(s) = 1
  BY <1>1
<1>4. (s \o t)[Len(s) + 1] = e
  BY <1>1, <1>2, <1>3
<1> QED
  BY <1>1, <1>2, <1>4 DEF t

(* Each element of a concatenation is one of a part.                       *)
LEMMA FlattenSeqElements ==
    ASSUME NEW S, NEW seqs \in Seq(Seq(S))
    PROVE  /\ FlattenSeq(seqs) \in Seq(S)
           /\ \A m \in DOMAIN FlattenSeq(seqs) :
                 \E k \in DOMAIN seqs : Contains(seqs[k], FlattenSeq(seqs)[m])
<1>1. PICK h : Concats(h, seqs, Len(seqs)) /\ FlattenSeq(seqs) = h[Len(seqs)]
  BY FlattenSeqConcats
<1> DEFINE Part(t) == t \in Seq(S) /\ \A m \in DOMAIN t : \E k \in DOMAIN seqs : Contains(seqs[k], t[m])
           T == {n \in Nat : n <= Len(seqs) => Part(h[n])}
<1>2. 0 \in T
  <2>1. h[0] = <<>> /\ DOMAIN h[0] = {}
    BY <1>1 DEF Concats
  <2>2. Part(h[0])
    BY <2>1
  <2> QED
    BY <2>2
<1>3. ASSUME NEW n \in Nat, n \in T PROVE n + 1 \in T
  <2>1. ASSUME n + 1 <= Len(seqs) PROVE Part(h[n + 1])
    <3> DEFINE s == h[n]
               t == seqs[n + 1]
    <3>1. Part(s)
      BY <1>3, <2>1
    <3>2. n + 1 \in 1..Len(seqs) /\ n + 1 \in DOMAIN seqs /\ (n + 1) - 1 = n
      BY <2>1
    <3>3. h[n + 1] = s \o t /\ t \in Seq(S) /\ s \in Seq(S)
      <4>1. h[n + 1] = h[(n + 1) - 1] \o seqs[n + 1]
        BY <1>1, <3>2 DEF Concats
      <4>2. seqs[n + 1] \in Seq(S)
        BY <3>2
      <4> HIDE DEF T
      <4> QED
        BY <3>1, <3>2, <4>1, <4>2
    <3> HIDE DEF s
    <3>4. ASSUME NEW m \in DOMAIN (s \o t)
          PROVE  \E k \in DOMAIN seqs : Contains(seqs[k], (s \o t)[m])
      <4>1. \/ m \in DOMAIN s /\ (s \o t)[m] = s[m]
            \/ m - Len(s) \in 1..Len(t) /\ (s \o t)[m] = t[m - Len(s)]
        BY <3>3
      <4>2. CASE m \in DOMAIN s /\ (s \o t)[m] = s[m]
        BY <3>1, <4>2
      <4>3. CASE m - Len(s) \in 1..Len(t) /\ (s \o t)[m] = t[m - Len(s)]
        BY <3>2, <4>3 DEF Contains
      <4> QED
        BY <4>1, <4>2, <4>3
    <3>5. s \o t \in Seq(S)
      BY <3>3
    <3> QED
      BY <3>3, <3>4, <3>5
  <2> QED
    BY <2>1
<1> HIDE DEF T
<1>4. \A n \in Nat : n \in T
  BY <1>2, <1>3, NatSetInduction
<1>5. Len(seqs) \in Nat
  OBVIOUS
<1> QED
  BY <1>1, <1>4, <1>5 DEF T

-----------------------------------------------------------------------------
(* Counting the delimiters of a text.                                      *)
LEMMA CountStep ==
    ASSUME NEW text, NEW p, NEW n \in Nat
    PROVE  /\ Count(text, p, n) \in Nat
           /\ Count(text, p, n + 1) = Count(text, p, n) + IF text[n + 1] = p THEN 1 ELSE 0
<1> DEFINE S == {m \in 1..n : text[m] = p}
           T == {m \in 1..(n + 1) : text[m] = p}
<1>1. IsFiniteSet(S)
  <2>1. IsFiniteSet(1..n)
    BY FS_Interval
  <2> QED
    BY <2>1, FS_Subset
<1>2. /\ Count(text, p, n) = Cardinality(S) /\ Cardinality(S) \in Nat
      /\ Count(text, p, n + 1) = Cardinality(T)
  BY <1>1, FS_CardinalityType DEF Count
<1>3. CASE text[n + 1] = p
  <2>1. T = S \cup {n + 1} /\ n + 1 \notin S
    BY <1>3
  <2> HIDE DEF S, T
  <2>2. Cardinality(T) = Cardinality(S) + 1
    BY <1>1, <2>1, FS_AddElement
  <2> QED
    BY <1>2, <1>3, <2>2
<1>4. CASE text[n + 1] # p
  <2>1. T = S
    BY <1>4
  <2> HIDE DEF S, T
  <2> QED
    BY <1>2, <1>4, <2>1
<1> QED
  BY <1>3, <1>4

LEMMA CountNone ==
    ASSUME NEW text, NEW p
    PROVE  Count(text, p, 0) = 0
<1>1. {m \in 1..0 : text[m] = p} = {}
  OBVIOUS
<1> QED
  BY <1>1, FS_EmptySet DEF Count

LEMMA CountSame ==
    ASSUME NEW s, NEW t, NEW p, NEW n \in Nat, \A m \in 1..n : s[m] = t[m]
    PROVE  Count(s, p, n) = Count(t, p, n)
<1>1. {m \in 1..n : s[m] = p} = {m \in 1..n : t[m] = p}
  OBVIOUS
<1> QED
  BY <1>1 DEF Count

(* Two texts are quoted alike where they have the same delimiters before.  *)
Alike(s, m, t, n) == \A p \in Delimiters : Count(s, p, m) = Count(t, p, n)

LEMMA AlikeQuoted ==
    ASSUME NEW s, NEW t, NEW m, NEW n, Alike(s, m, t, n)
    PROVE  Quoted(s, m) <=> Quoted(t, n)
BY DEF Alike, Quoted, Delimiters

LEMMA AlikeSame ==
    ASSUME NEW s, NEW t, NEW n \in Nat, \A m \in 1..n : s[m] = t[m]
    PROVE  Alike(s, n, t, n)
BY CountSame DEF Alike

LEMMA AlikeStep ==
    ASSUME NEW s, NEW t, NEW m \in Nat, NEW n \in Nat, Alike(s, m, t, n)
    PROVE  /\ s[m + 1] = t[n + 1] => Alike(s, m + 1, t, n + 1)
           /\ s[m + 1] \notin Delimiters => Alike(s, m + 1, t, n)
<1>1. ASSUME NEW p \in Delimiters, s[m + 1] = t[n + 1]
      PROVE  Count(s, p, m + 1) = Count(t, p, n + 1)
  BY <1>1, CountStep DEF Alike
<1>2. ASSUME NEW p \in Delimiters, s[m + 1] \notin Delimiters
      PROVE  Count(s, p, m + 1) = Count(t, p, n)
  BY <1>2, CountStep DEF Alike
<1> QED
  BY <1>1, <1>2 DEF Alike

(* What has no delimiter changes nothing.                                  *)
LEMMA AlikePlain ==
    ASSUME NEW s, NEW t, NEW l \in Nat, NEW n \in Nat, NEW k \in Nat, Alike(s, l, t, n),
           \A m \in 1..k : s[l + m] \notin Delimiters
    PROVE  \A m \in 0..k : Alike(s, l + m, t, n)
<1> DEFINE T == {m \in Nat : m <= k => Alike(s, l + m, t, n)}
<1>1. 0 \in T
  OBVIOUS
<1>2. ASSUME NEW m \in Nat, m \in T PROVE m + 1 \in T
  <2>1. ASSUME m + 1 <= k PROVE Alike(s, l + (m + 1), t, n)
    <3>1. Alike(s, l + m, t, n) /\ m + 1 \in 1..k /\ l + m \in Nat /\ l + (m + 1) = (l + m) + 1
      BY <1>2, <2>1
    <3>2. s[(l + m) + 1] \notin Delimiters
      BY <3>1
    <3>3. Alike(s, (l + m) + 1, t, n)
      BY <3>1, <3>2, AlikeStep
    <3> QED
      BY <3>1, <3>3
  <2> QED
    BY <2>1
<1> HIDE DEF T
<1>3. \A m \in Nat : m \in T
  BY <1>1, <1>2, NatSetInduction
<1> QED
  BY <1>3 DEF T

-----------------------------------------------------------------------------
(* The pieces of a text, with those that fmt adds.                         *)
Pieces == STRING \cup {Extra, ")"}

IsLine(ln, args) ==
    /\ ln \in Seq(Pieces) /\ args \in Seq(Seq(Pieces))
    /\ Delimited(ln)
    /\ \A n \in DOMAIN ln : IsVerb(ln[n]) => ArgumentOf(ln[n]) \in DOMAIN args

Marked(args) == \E k \in DOMAIN args : Contains(args[k], Extra)
AllPlain(args) == \A k \in DOMAIN args : Plain(args[k])

Segments(ln, args) ==
    [n \in DOMAIN ln |-> IF IsVerb(ln[n]) THEN args[ArgumentOf(ln[n])] ELSE <<ln[n]>>]

(* The text of a line up to k, as far as the proof needs it.               *)
QuotedSoFar(t, ln, k, args) ==
    /\ t \in Seq(Pieces)
    /\ Alike(t, Len(t), ln, k)
    /\ \A m \in DOMAIN t : t[m] = Extra => Quoted(t, m) /\ Marked(args)

LEMMA NoDelimiters ==
    ASSUME NEW p, IsVerb(p) \/ p = Extra
    PROVE  p \notin Delimiters
BY DEF IsVerb, Verbs, Delimiters, Extra

LEMMA VerbSegment ==
    ASSUME NEW ln, NEW args, IsLine(ln, args), AllPlain(args),
           NEW k \in Nat, k + 1 <= Len(ln), IsVerb(ln[k + 1]), NEW t, QuotedSoFar(t, ln, k, args)
    PROVE  QuotedSoFar(t \o args[ArgumentOf(ln[k + 1])], ln, k + 1, args)
<1> DEFINE j == ArgumentOf(ln[k + 1])
           s == args[j]
           u == t \o s
<1>1. k + 1 \in DOMAIN ln /\ Quoted(ln, k + 1) /\ j \in DOMAIN args
  BY DEF IsLine, Delimited
<1>2. s \in Seq(Pieces) /\ Plain(s) /\ t \in Seq(Pieces)
  BY <1>1 DEF IsLine, AllPlain, QuotedSoFar
<1> HIDE DEF s, j
<1>3. /\ u \in Seq(Pieces) /\ Len(u) = Len(t) + Len(s) /\ Len(t) \in Nat /\ Len(s) \in Nat
      /\ \A m \in 1..Len(t) : u[m] = t[m]
      /\ \A m \in 1..Len(s) : u[Len(t) + m] = s[m] /\ s[m] \notin Delimiters
  BY <1>2 DEF Plain
<1> HIDE DEF u
<1>4. Alike(u, Len(t), ln, k)
  <2>1. Alike(u, Len(t), t, Len(t))
    BY <1>3, AlikeSame
  <2> QED
    BY <2>1 DEF QuotedSoFar, Alike
<1>5. \A m \in 0..Len(s) : Alike(u, Len(t) + m, ln, k)
  BY <1>3, <1>4, AlikePlain
<1>6. \A m \in 0..Len(s) : Alike(u, Len(t) + m, ln, k + 1)
  <2>1. ln[k + 1] \notin Delimiters
    BY NoDelimiters
  <2>2. ASSUME NEW m \in 0..Len(s) PROVE Alike(u, Len(t) + m, ln, k + 1)
    <3>1. Alike(ln, k, u, Len(t) + m)
      BY <1>5 DEF Alike
    <3>2. Alike(ln, k + 1, u, Len(t) + m)
      BY <1>3, <2>1, <3>1, AlikeStep
    <3> QED
      BY <3>2 DEF Alike
  <2> QED
    BY <2>2
<1>7. Alike(u, Len(u), ln, k + 1)
  <2>1. Len(s) \in 0..Len(s) /\ Len(u) = Len(t) + Len(s)
    BY <1>3
  <2> QED
    BY <1>6, <2>1
<1>8. ASSUME NEW m \in DOMAIN u, u[m] = Extra PROVE Quoted(u, m) /\ Marked(args)
  <2>1. CASE m \in 1..Len(t)
    <3>1. Quoted(t, m) /\ Marked(args)
      BY <1>2, <1>3, <1>8, <2>1 DEF QuotedSoFar
    <3>2. m \in Nat /\ \A n \in 1..m : n \in 1..Len(t)
      BY <1>3, <2>1
    <3>3. \A n \in 1..m : u[n] = t[n]
      BY <1>3, <3>2
    <3>4. Alike(u, m, t, m)
      BY <3>2, <3>3, AlikeSame
    <3> QED
      BY <3>1, <3>4, AlikeQuoted
  <2>2. CASE m \notin 1..Len(t)
    <3>1. m - Len(t) \in 1..Len(s) /\ m = Len(t) + (m - Len(t)) /\ m - Len(t) \in 0..Len(s)
      BY <1>3, <2>2
    <3>2. s[m - Len(t)] = Extra
      BY <1>3, <1>8, <3>1
    <3>3. Contains(s, Extra)
      BY <3>1, <3>2 DEF Contains
    <3>4. Marked(args)
      BY <1>1, <3>3 DEF Marked, s
    <3>5. Alike(u, m, ln, k + 1)
      BY <1>6, <3>1
    <3> QED
      BY <1>1, <3>4, <3>5, AlikeQuoted
  <2> QED
    BY <2>1, <2>2
<1> QED
  BY <1>3, <1>7, <1>8 DEF QuotedSoFar, u, s, j

LEMMA OtherSegment ==
    ASSUME NEW ln, NEW args, IsLine(ln, args), NEW k \in Nat, k + 1 <= Len(ln),
           NEW t, QuotedSoFar(t, ln, k, args)
    PROVE  ~IsVerb(ln[k + 1]) => QuotedSoFar(t \o <<ln[k + 1]>>, ln, k + 1, args)
<1> DEFINE u == t \o <<ln[k + 1]>>
<1>1. t \in Seq(Pieces) /\ k + 1 \in DOMAIN ln /\ ln[k + 1] \in Pieces /\ ln[k + 1] # Extra
  BY DEF IsLine, Delimited, QuotedSoFar
<1>2. /\ u \in Seq(Pieces) /\ Len(u) = Len(t) + 1 /\ Len(t) \in Nat
      /\ \A m \in 1..Len(t) : u[m] = t[m]
      /\ u[Len(t) + 1] = ln[k + 1]
  BY <1>1
<1> HIDE DEF u
<1>3. Alike(u, Len(t), ln, k)
  <2>1. Alike(u, Len(t), t, Len(t))
    BY <1>2, AlikeSame
  <2> QED
    BY <2>1 DEF QuotedSoFar, Alike
<1>4. Alike(u, Len(u), ln, k + 1)
  BY <1>2, <1>3, AlikeStep
<1>5. ASSUME NEW m \in DOMAIN u, u[m] = Extra PROVE Quoted(u, m) /\ Marked(args)
  <2>1. m \in 1..Len(t)
    BY <1>1, <1>2, <1>5
  <2>2. Quoted(t, m) /\ Marked(args)
    BY <1>1, <1>2, <1>5, <2>1 DEF QuotedSoFar
  <2>3. Alike(u, m, t, m)
    BY <1>2, <2>1, AlikeSame
  <2> QED
    BY <2>2, <2>3, AlikeQuoted
<1> QED
  BY <1>2, <1>4, <1>5 DEF QuotedSoFar, u

LEMMA SegmentsType ==
    ASSUME NEW ln, NEW args, IsLine(ln, args)
    PROVE  /\ Segments(ln, args) \in Seq(Seq(Pieces)) /\ Len(Segments(ln, args)) = Len(ln)
           /\ DOMAIN Segments(ln, args) = DOMAIN ln
<1> DEFINE segs == Segments(ln, args)
<1>0. ln \in Seq(Pieces) /\ args \in Seq(Seq(Pieces)) /\ Len(ln) \in Nat
  BY DEF IsLine
<1>1. ASSUME NEW n \in 1..Len(ln)
      PROVE  (IF IsVerb(ln[n]) THEN args[ArgumentOf(ln[n])] ELSE <<ln[n]>>) \in Seq(Pieces)
  <2>1. n \in DOMAIN ln /\ ln[n] \in Pieces
    BY <1>0
  <2>2. CASE IsVerb(ln[n])
    <3>1. ArgumentOf(ln[n]) \in DOMAIN args
      BY <2>1, <2>2 DEF IsLine
    <3> QED
      BY <1>0, <2>2, <3>1
  <2>3. CASE ~IsVerb(ln[n])
    BY <2>1, <2>3
  <2> QED
    BY <2>2, <2>3
<1>2. segs \in [1..Len(ln) -> Seq(Pieces)]
  BY <1>0, <1>1 DEF Segments
<1> HIDE DEF segs
<1>3. segs \in Seq(Seq(Pieces)) /\ Len(segs) = Len(ln) /\ DOMAIN segs = DOMAIN ln
  BY <1>0, <1>2
<1> QED
  BY <1>3 DEF segs

(* Each mark of fmt in a line is quoted.                                   *)
LEMMA FilledQuoted ==
    ASSUME NEW ln, NEW args, IsLine(ln, args), AllPlain(args)
    PROVE  /\ Filled(ln, args) \in Seq(Pieces)
           /\ \A m \in DOMAIN Filled(ln, args) :
                 Filled(ln, args)[m] = Extra => Quoted(Filled(ln, args), m) /\ Marked(args)
<1> DEFINE segs == Segments(ln, args)
<1>1. ln \in Seq(Pieces) /\ args \in Seq(Seq(Pieces)) /\ Len(ln) \in Nat
  BY DEF IsLine
<1>2. segs \in Seq(Seq(Pieces)) /\ Len(segs) = Len(ln)
  BY SegmentsType
<1>3. PICK h : Concats(h, segs, Len(ln)) /\ FlattenSeq(segs) = h[Len(ln)]
  <2> HIDE DEF segs
  <2> QED
    BY <1>2, FlattenSeqConcats
<1> DEFINE T == {k \in Nat : k <= Len(ln) => QuotedSoFar(h[k], ln, k, args)}
<1>4. 0 \in T
  <2>1. h[0] = <<>> /\ Len(h[0]) = 0 /\ DOMAIN h[0] = {}
    BY <1>3 DEF Concats
  <2>2. Alike(h[0], 0, ln, 0)
    BY CountNone DEF Alike
  <2>3. QuotedSoFar(h[0], ln, 0, args)
    BY <2>1, <2>2 DEF QuotedSoFar
  <2> QED
    BY <2>3
<1>5. ASSUME NEW k \in Nat, k \in T PROVE k + 1 \in T
  <2>1. ASSUME k + 1 <= Len(ln) PROVE QuotedSoFar(h[k + 1], ln, k + 1, args)
    <3>1. QuotedSoFar(h[k], ln, k, args)
      BY <1>1, <1>5, <2>1
    <3>2. k + 1 \in 1..Len(ln) /\ k + 1 \in DOMAIN ln /\ (k + 1) - 1 = k
      BY <1>1, <2>1
    <3>3. h[k + 1] = h[k] \o segs[k + 1]
      <4> HIDE DEF segs
      <4> QED
        BY <1>3, <3>2 DEF Concats
    <3>4. segs[k + 1] = IF IsVerb(ln[k + 1]) THEN args[ArgumentOf(ln[k + 1])] ELSE <<ln[k + 1]>>
      BY <3>2 DEF Segments
    <3> HIDE DEF segs
    <3> QED
      BY <2>1, <3>1, <3>3, <3>4, VerbSegment, OtherSegment
  <2> QED
    BY <2>1
<1> HIDE DEF T
<1>6. \A k \in Nat : k \in T
  BY <1>4, <1>5, NatSetInduction
<1>7. QuotedSoFar(h[Len(ln)], ln, Len(ln), args)
  BY <1>1, <1>6 DEF T
<1>8. Filled(ln, args) = h[Len(ln)]
  BY <1>3 DEF Filled, Segments
<1> QED
  BY <1>7, <1>8 DEF QuotedSoFar

(* A line without verbs is its own text.                                   *)
LEMMA FilledWithoutVerbs ==
    ASSUME NEW ln \in Seq(Pieces), NEW args, \A n \in DOMAIN ln : ~IsVerb(ln[n])
    PROVE  Filled(ln, args) = ln
<1> DEFINE segs == [n \in DOMAIN ln |-> <<ln[n]>>]
<1>1. Filled(ln, args) = FlattenSeq(segs)
  BY DEF Filled
<1>2. segs \in Seq(Seq(Pieces)) /\ Len(segs) = Len(ln) /\ Len(ln) \in Nat
  <2>1. segs \in [1..Len(ln) -> Seq(Pieces)] /\ Len(ln) \in Nat
    OBVIOUS
  <2> HIDE DEF segs
  <2> QED
    BY <2>1
<1>3. PICK h : Concats(h, segs, Len(ln)) /\ FlattenSeq(segs) = h[Len(ln)]
  <2> HIDE DEF segs
  <2> QED
    BY <1>2, FlattenSeqConcats
<1> DEFINE Upto(k) == h[k] \in Seq(Pieces) /\ Len(h[k]) = k /\ \A m \in 1..k : h[k][m] = ln[m]
           T == {k \in Nat : k <= Len(ln) => Upto(k)}
<1>4. 0 \in T
  <2>1. h[0] = <<>>
    BY <1>3 DEF Concats
  <2>2. Upto(0)
    BY <2>1
  <2> QED
    BY <2>2
<1>5. ASSUME NEW k \in Nat, k \in T PROVE k + 1 \in T
  <2>1. ASSUME k + 1 <= Len(ln) PROVE Upto(k + 1)
    <3>1. Upto(k)
      BY <1>2, <1>5, <2>1
    <3>2. k + 1 \in 1..Len(ln) /\ k + 1 \in DOMAIN ln /\ (k + 1) - 1 = k
      BY <1>2, <2>1
    <3>3. h[k + 1] = h[k] \o segs[k + 1]
      <4> HIDE DEF segs
      <4> QED
        BY <1>3, <3>2 DEF Concats
    <3>4. segs[k + 1] = <<ln[k + 1]>> /\ ln[k + 1] \in Pieces
      BY <3>2
    <3>5. /\ h[k + 1] \in Seq(Pieces) /\ Len(h[k + 1]) = k + 1
          /\ h[k + 1][k + 1] = ln[k + 1]
          /\ \A m \in 1..k : h[k + 1][m] = h[k][m]
      <4> DEFINE s == h[k]
                 e == ln[k + 1]
      <4>1. s \in Seq(Pieces) /\ e \in Pieces /\ Len(s) = k /\ h[k + 1] = s \o <<e>>
        BY <3>1, <3>3, <3>4
      <4> HIDE DEF s, e
      <4>2. /\ s \o <<e>> \in Seq(Pieces) /\ Len(s \o <<e>>) = Len(s) + 1
            /\ (s \o <<e>>)[Len(s) + 1] = e
            /\ \A m \in 1..Len(s) : (s \o <<e>>)[m] = s[m]
        <5> DEFINE P == Pieces
        <5>1. s \in Seq(P) /\ e \in P
          BY <4>1
        <5> HIDE DEF P
        <5> QED
          BY <5>1, OneMore DEF P
      <4> QED
        BY <4>1, <4>2 DEF s, e
    <3>6. ASSUME NEW m \in 1..(k + 1) PROVE h[k + 1][m] = ln[m]
      <4>1. m = k + 1 \/ m \in 1..k
        OBVIOUS
      <4> QED
        BY <3>1, <3>5, <4>1
    <3> QED
      BY <3>5, <3>6
  <2> QED
    BY <2>1
<1> HIDE DEF T
<1>6. \A k \in Nat : k \in T
  BY <1>4, <1>5, NatSetInduction
<1>7. Upto(Len(ln))
  BY <1>2, <1>6 DEF T
<1>8. /\ h[Len(ln)] \in Seq(Pieces) /\ Len(h[Len(ln)]) = Len(ln)
      /\ \A m \in 1..Len(ln) : h[Len(ln)][m] = ln[m]
  BY <1>7
<1>9. h[Len(ln)] = ln
  BY <1>8, SeqEqual
<1> QED
  BY <1>1, <1>3, <1>9

-----------------------------------------------------------------------------
(* The greatest of some numbers up to n.                                   *)
LEMMA MaxExists ==
    ASSUME NEW n \in Nat, NEW I \in SUBSET (1..n), I # {}
    PROVE  Max(I) \in I /\ \A i \in I : Max(I) >= i
<1> DEFINE T == {m \in Nat : \A J \in SUBSET (1..m) : J # {} => \E x \in J : \A y \in J : x >= y}
<1>1. 0 \in T
  <2>1. 1..0 = {}
    OBVIOUS
  <2>2. \A J \in SUBSET (1..0) : J = {}
    BY <2>1
  <2> QED
    BY <2>2
<1>2. ASSUME NEW m \in Nat, m \in T PROVE m + 1 \in T
  <2>1. ASSUME NEW J \in SUBSET (1..(m + 1)), J # {}
        PROVE  \E x \in J : \A y \in J : x >= y
    <3>1. CASE m + 1 \in J
      BY <3>1
    <3>2. CASE m + 1 \notin J
      <4>1. J \in SUBSET (1..m)
        BY <3>2
      <4> QED
        BY <1>2, <2>1, <4>1
    <3> QED
      BY <3>1, <3>2
  <2> QED
    BY <2>1
<1> HIDE DEF T
<1>3. n \in T
  BY <1>1, <1>2, NatSetInduction
<1>4. \E x \in I : \A y \in I : x >= y
  BY <1>3 DEF T
<1> QED
  BY <1>4 DEF Max

Trimmed(text) ==
    LET start == SelectLastInSeq(text, LAMBDA p : p = Extra)
    IN IF start = 0 THEN text ELSE SubSeq(text, 1, start - 1)

(* What is left of a text has lost nothing but its end, from a mark on     *)
(* that is the last.                                                       *)
LEMMA TrimmedFacts ==
    ASSUME NEW text \in Seq(Pieces)
    PROVE  \/ Trimmed(text) = text /\ \A m \in DOMAIN text : text[m] # Extra
           \/ \E start \in DOMAIN text :
                 /\ Trimmed(text) = SubSeq(text, 1, start - 1)
                 /\ text[start] = Extra
                 /\ \A m \in DOMAIN text : text[m] = Extra => m <= start
<1> DEFINE I == {i \in 1..Len(text) : text[i] = Extra}
           start == SelectLastInSeq(text, LAMBDA p : p = Extra)
<1>1. start = IF I # {} THEN Max(I) ELSE 0
  BY DEF SelectLastInSeq
<1>2. Trimmed(text) = IF start = 0 THEN text ELSE SubSeq(text, 1, start - 1)
  BY DEF Trimmed
<1>3. DOMAIN text = 1..Len(text) /\ Len(text) \in Nat
  OBVIOUS
<1> HIDE DEF start
<1>4. CASE I = {}
  BY <1>1, <1>2, <1>3, <1>4
<1>5. CASE I # {}
  <2>1. Max(I) \in I /\ \A i \in I : Max(I) >= i
    <3>1. I \in SUBSET (1..Len(text))
      OBVIOUS
    <3> HIDE DEF I
    <3> QED
      BY <1>3, <1>5, <3>1, MaxExists
  <2>2. start \in DOMAIN text /\ text[start] = Extra /\ start # 0
    BY <1>1, <1>3, <1>5, <2>1
  <2>3. \A m \in DOMAIN text : text[m] = Extra => m <= start
    BY <1>1, <1>3, <1>5, <2>1
  <2> HIDE DEF I
  <2> QED
    BY <1>2, <2>2, <2>3
<1> QED
  BY <1>4, <1>5

(* A text whose last mark is quoted is not well formed once it is trimmed. *)
LEMMA TrimmedQuoted ==
    ASSUME NEW text \in Seq(Pieces), NEW start \in DOMAIN text,
           text[start] = Extra, Quoted(text, start)
    PROVE  ~WellFormed(SubSeq(text, 1, start - 1))
<1> DEFINE t == SubSeq(text, 1, start - 1)
<1>1. /\ Len(t) = start - 1 /\ start - 1 \in Nat /\ (start - 1) + 1 = start
      /\ \A m \in 1..(start - 1) : t[m] = text[m]
  OBVIOUS
<1> HIDE DEF t
<1>2. Alike(text, start - 1, t, start - 1)
  BY <1>1, AlikeSame
<1>3. Extra \notin Delimiters
  BY NoDelimiters
<1>4. Alike(text, (start - 1) + 1, t, start - 1)
  BY <1>1, <1>2, <1>3, AlikeStep
<1>5. Quoted(t, Len(t))
  BY <1>1, <1>4, AlikeQuoted
<1> QED
  BY <1>5 DEF WellFormed, t

(* Each mark of fmt in a line comes from an argument.                      *)
LEMMA FilledMarked ==
    ASSUME NEW ln, NEW args, IsLine(ln, args)
    PROVE  /\ Filled(ln, args) \in Seq(Pieces)
           /\ \A m \in DOMAIN Filled(ln, args) : Filled(ln, args)[m] = Extra => Marked(args)
<1> DEFINE segs == Segments(ln, args)
<1>1. ln \in Seq(Pieces) /\ args \in Seq(Seq(Pieces)) /\ Len(ln) \in Nat
  BY DEF IsLine
<1>2. segs \in Seq(Seq(Pieces)) /\ DOMAIN segs = DOMAIN ln
  BY SegmentsType
<1>3. Filled(ln, args) = FlattenSeq(segs)
  BY DEF Filled, Segments
<1>4. ASSUME NEW n \in DOMAIN segs, Contains(segs[n], Extra) PROVE Marked(args)
  <2>1. CASE IsVerb(ln[n])
    BY <1>2, <1>4, <2>1 DEF Segments, IsLine, Marked
  <2>2. CASE ~IsVerb(ln[n])
    <3>1. segs[n] = <<ln[n]>> /\ ln[n] # Extra
      BY <1>2, <2>2 DEF Segments, IsLine, Delimited
    <3> QED
      BY <1>4, <3>1 DEF Contains
  <2> QED
    BY <2>1, <2>2
<1> HIDE DEF segs
<1>5. /\ FlattenSeq(segs) \in Seq(Pieces)
      /\ \A m \in DOMAIN FlattenSeq(segs) :
            \E k \in DOMAIN segs : Contains(segs[k], FlattenSeq(segs)[m])
  BY <1>2, FlattenSeqElements
<1> QED
  BY <1>3, <1>4, <1>5

(* What a line says is either what its template says of the arguments, or  *)
(* has lost the end of an argument, and the delimiter after it.            *)
LEMMA CompiledLine ==
    ASSUME NEW ln, NEW args, IsLine(ln, args)
    PROVE  /\ compileTemplate(ln, args) # Filled(ln, args) => Marked(args)
           /\ AllPlain(args) /\ WellFormed(compileTemplate(ln, args)) =>
                 compileTemplate(ln, args) = Filled(ln, args)
<1>1. ln \in Seq(Pieces) /\ args \in Seq(Seq(Pieces))
  BY DEF IsLine
<1>2. compileTemplate(ln, args) = Trimmed(Sprintf(ln, args))
  BY DEF compileTemplate, Trimmed
<1>3. CASE args = <<>> \/ \E n \in DOMAIN ln : IsVerb(ln[n])
  <2> DEFINE text == Filled(ln, args)
  <2>1. Sprintf(ln, args) = text
    BY <1>3 DEF Sprintf
  <2>2. text \in Seq(Pieces) /\ \A m \in DOMAIN text : text[m] = Extra => Marked(args)
    BY FilledMarked
  <2> HIDE DEF text
  <2>3. CASE Trimmed(text) = text
    BY <1>2, <2>1, <2>3 DEF text
  <2>4. CASE Trimmed(text) # text
    <3>1. PICK start \in DOMAIN text : text[start] = Extra /\ Trimmed(text) = SubSeq(text, 1, start - 1)
      BY <2>2, <2>4, TrimmedFacts
    <3>2. Marked(args)
      BY <2>2, <3>1
    <3>3. AllPlain(args) => Quoted(text, start)
      BY <3>1, FilledQuoted DEF text
    <3>4. AllPlain(args) => ~WellFormed(Trimmed(text))
      BY <2>2, <3>1, <3>3, TrimmedQuoted
    <3> QED
      BY <1>2, <2>1, <3>2, <3>4 DEF text
  <2> QED
    BY <2>3, <2>4
<1>4. CASE args # <<>> /\ \A n \in DOMAIN ln : ~IsVerb(ln[n])
  <2> DEFINE flat == FlattenSeq(args)
             rest == flat \o <<")">>
             text == (ln \o <<Extra>>) \o rest
             l == Len(ln) + 1
  <2>1. Sprintf(ln, args) = text
    <3>1. ~(args = <<>> \/ \E n \in DOMAIN ln : IsVerb(ln[n]))
      BY <1>4
    <3>2. Sprintf(ln, args) = ln \o <<Extra>> \o FlattenSeq(args) \o <<")">>
      BY <3>1 DEF Sprintf
    <3>3. flat \in Seq(Pieces) /\ Extra \in Pieces /\ ")" \in Pieces
      <4>1. flat \in Seq(Pieces)
        BY <1>1, FlattenSeqElements
      <4> QED
        BY <4>1 DEF Pieces
    <3> HIDE DEF flat
    <3>4. ((ln \o <<Extra>>) \o flat) \o <<")">> = (ln \o <<Extra>>) \o (flat \o <<")">>)
      <4>1. ln \o <<Extra>> \in Seq(Pieces) /\ <<")">> \in Seq(Pieces)
        BY <1>1, <3>3
      <4> DEFINE s == ln \o <<Extra>>
                 t == <<")">>
      <4> HIDE DEF s, t
      <4>2. s \in Seq(Pieces) /\ t \in Seq(Pieces)
        BY <4>1 DEF s, t
      <4>3. (s \o flat) \o t = s \o (flat \o t)
        BY <3>3, <4>2, ConcatAssociative
      <4> QED
        BY <4>3 DEF s, t
    <3> QED
      BY <3>2, <3>4 DEF flat
  <2>2. Filled(ln, args) = ln
    BY <1>1, <1>4, FilledWithoutVerbs
  <2>3. flat \in Seq(Pieces) /\ \A m \in DOMAIN flat : flat[m] = Extra => Marked(args)
    BY <1>1, FlattenSeqElements DEF Marked
  <2> HIDE DEF flat
  <2>4. rest \in Seq(Pieces) /\ \A m \in DOMAIN rest : rest[m] = Extra => Marked(args)
    <3>1. /\ rest \in Seq(Pieces) /\ DOMAIN rest = 1..(Len(flat) + 1)
          /\ \A m \in 1..Len(flat) : m \in DOMAIN flat /\ rest[m] = flat[m]
          /\ rest[Len(flat) + 1] = ")"
      <4>1. ")" \in Pieces
        BY DEF Pieces
      <4> QED
        BY <2>3, <4>1, OneMore
    <3>2. \A m \in DOMAIN rest : m \in 1..Len(flat) \/ m = Len(flat) + 1
      BY <2>3, <3>1
    <3> QED
      BY <2>3, <3>1, <3>2 DEF Extra
  <2> HIDE DEF rest
  <2>5. /\ text \in Seq(Pieces) /\ l \in DOMAIN text /\ l \in Nat /\ Len(ln) \in Nat
        /\ \A m \in 1..Len(ln) : m \in DOMAIN text /\ text[m] = ln[m]
        /\ text[l] = Extra
        /\ \A m \in DOMAIN text : m > l => m - l \in DOMAIN rest /\ text[m] = rest[m - l]
    <3> DEFINE s == ln \o <<Extra>>
    <3>1. /\ s \in Seq(Pieces) /\ Len(s) = l /\ l \in Nat /\ Len(ln) \in Nat
          /\ \A m \in 1..Len(ln) : s[m] = ln[m]
          /\ s[l] = Extra
      <4>1. Extra \in Pieces /\ Len(ln) \in Nat
        BY <1>1 DEF Pieces
      <4> QED
        BY <1>1, <4>1, OneMore
    <3> HIDE DEF s
    <3>2. /\ s \o rest \in Seq(Pieces) /\ DOMAIN (s \o rest) = 1..(Len(s) + Len(rest))
          /\ \A m \in 1..Len(s) : m \in DOMAIN (s \o rest) /\ (s \o rest)[m] = s[m]
          /\ \A m \in DOMAIN (s \o rest) : m > Len(s) =>
                m - Len(s) \in DOMAIN rest /\ (s \o rest)[m] = rest[m - Len(s)]
      BY <2>4, <3>1
    <3>3. text = s \o rest
      BY DEF s
    <3> HIDE DEF text
    <3>4. l \in 1..Len(s) /\ \A m \in 1..Len(ln) : m \in 1..Len(s)
      BY <3>1
    <3> QED
      BY <3>1, <3>2, <3>3, <3>4
  <2> HIDE DEF text
  <2>6. PICK start \in DOMAIN text :
            /\ Trimmed(text) = SubSeq(text, 1, start - 1) /\ text[start] = Extra /\ l <= start
    BY <2>5, TrimmedFacts
  <2> DEFINE t == SubSeq(text, 1, start - 1)
  <2>7. /\ t \in Seq(Pieces) /\ Len(t) = start - 1 /\ start \in Nat
        /\ \A m \in 1..(start - 1) : m \in DOMAIN t /\ t[m] = text[m]
    BY <2>5, <2>6
  <2> HIDE DEF t
  <2>8. CASE start = l
    <3>1. t = ln
      BY <1>1, <2>5, <2>7, <2>8, SeqEqual
    <3> QED
      BY <1>2, <2>1, <2>2, <2>6, <3>1 DEF t
  <2>9. CASE start # l
    <3>1. start > l /\ l \in 1..(start - 1) /\ start - 1 \in Nat
      BY <2>5, <2>6, <2>7, <2>9
    <3>2. Marked(args)
      BY <2>4, <2>5, <2>6, <3>1
    <3>3. Alike(t, l, ln, Len(ln))
      <4>1. Alike(text, Len(ln), ln, Len(ln))
        BY <2>5, AlikeSame
      <4>2. Alike(text, l, ln, Len(ln))
        BY <2>5, <4>1, NoDelimiters, AlikeStep
      <4>3. \A m \in 1..l : m \in 1..(start - 1)
        BY <2>5, <2>7, <3>1
      <4>4. Alike(t, l, text, l)
        BY <2>5, <2>7, <4>3, AlikeSame
      <4> QED
        BY <4>2, <4>4 DEF Alike
    <3>4. ~Quoted(t, l)
      BY <1>4, <3>3, AlikeQuoted DEF IsLine, Delimited
    <3>5. ~WellFormed(t)
      BY <2>5, <2>7, <3>1, <3>4 DEF WellFormed
    <3> QED
      BY <1>2, <2>1, <2>6, <3>2, <3>5 DEF t
  <2> QED
    BY <2>8, <2>9
<1> QED
  BY <1>3, <1>4

-----------------------------------------------------------------------------
(* The lines at the server.                                                *)

(* The lines of the template that the server understands.                  *)
Lines == {n \in 1..LastLine : Understood(n)}

(* What has taken effect, or may, has been understood.                     *)
TextInv ==
    /\ applied \in Seq(Lines)
    /\ tran.work \in Seq(Lines) /\ work \in Seq(Lines) /\ limbo \in Seq(Lines)
    /\ \A k \in DOMAIN wire : wire[k].line \in 1..LastLine
    /\ \A s \in late :
          /\ s.tran.work \in Seq(Lines)
          /\ \A k \in DOMAIN s.wire : s.wire[k].line \in 1..LastLine

LEMMA TextSame ==
    ASSUME TextInv, UNCHANGED <<call, applied, tran, work, limbo, wire, late>>
    PROVE  TextInv'
BY DEF TextInv, Lines, LastLine, Understood, Text

(* A request leaves only lines that the server understood.                 *)
LEMMA OutcomeLines ==
    ASSUME NEW r \in Requests, r.line \in 1..LastLine, NEW t \in Trans, t.work \in Seq(Lines),
           NEW o \in Outcomes(r, t)
    PROVE  o.tran.work \in Seq(Lines) /\ o.effect \in Seq(Lines)
<1>1. <<>> \in Seq(Lines) /\ NoTran.work = <<>>
  BY DEF NoTran
<1>2. CASE o = Refused(t) \/ o = Aborted
  <2>1. CASE o = Refused(t)
    <3>1. o.tran = t /\ o.effect = <<>>
      BY <2>1 DEF Refused
    <3> QED
      BY <1>1, <3>1
  <2>2. CASE o = Aborted
    <3>1. o.tran = NoTran /\ o.effect = <<>>
      BY <2>2 DEF Aborted
    <3> QED
      BY <1>1, <3>1
  <2> QED
    BY <1>2, <2>1, <2>2
<1>3. CASE o = Executed(r, t) /\ (r.kind \in {"line", "query"} => Understood(r.line))
  <2>1. r.kind = "line" => r.line \in Lines
    BY <1>3 DEF Lines
  <2>2. r.kind = "line" => Append(t.work, r.line) \in Seq(Lines) /\ <<r.line>> \in Seq(Lines)
    BY <2>1
  <2>3. After(r, t).work \in Seq(Lines)
    BY <1>1, <2>2 DEF After, Requests, Kinds
  <2>4. Effect(r, t) \in Seq(Lines)
    BY <1>1, <2>2 DEF Effect, Requests, Kinds
  <2> QED
    BY <1>3, <2>3, <2>4 DEF Executed
<1> QED
  BY <1>2, <1>3 DEF Outcomes

LEMMA ServeText ==
    ASSUME TypeOK, TextInv, Serve, UNCHANGED odbcVars
    PROVE  TextInv'
<1>1. wire \in Seq(Requests) /\ wire # <<>> /\ tran \in Trans
  BY DEF Serve, TypeOK, MssqlTypeOK, ServerTypeOK
<1>2. /\ Head(wire) \in Requests /\ Head(wire).line \in 1..LastLine
      /\ \A k \in DOMAIN Tail(wire) : Tail(wire)[k].line \in 1..LastLine
  BY <1>1, TailFacts DEF TextInv
<1>3. PICK o \in Outcomes(Head(wire), tran) : tran' = o.tran /\ applied' = applied \o o.effect
  BY DEF Serve
<1>4. o.tran.work \in Seq(Lines) /\ o.effect \in Seq(Lines)
  BY <1>1, <1>2, <1>3, OutcomeLines DEF TextInv
<1>5. applied' \in Seq(Lines) /\ tran'.work \in Seq(Lines)
  BY <1>3, <1>4, ConcatFacts DEF TextInv
<1>6. UNCHANGED <<call, late, work, limbo>> /\ wire' = Tail(wire)
  BY DEF Serve, caller, odbcVars
<1>7. Lines' = Lines /\ LastLine' = LastLine
  BY <1>6 DEF Lines, LastLine, Understood, Text
<1> QED
  BY <1>2, <1>5, <1>6, <1>7 DEF TextInv

LEMMA LateText ==
    ASSUME TypeOK, TextInv, NEW s \in late, LateEnds(s) \/ LateServe(s), UNCHANGED odbcVars
    PROVE  TextInv'
<1>1. UNCHANGED <<call, tran, wire, work, limbo>>
  BY DEF LateEnds, LateServe, caller, odbcVars
<1>2. Lines' = Lines /\ LastLine' = LastLine
  BY <1>1 DEF Lines, LastLine, Understood, Text
<1>3. CASE LateEnds(s)
  BY <1>1, <1>2, <1>3 DEF LateEnds, TextInv
<1>4. CASE LateServe(s)
  <2>1. s \in [line : Nat, tries : Nat, wire : Seq(Requests), tran : Trans] /\ s.wire # <<>>
    BY DEF TypeOK, MssqlTypeOK, ServerTypeOK
  <2>2. /\ Head(s.wire) \in Requests /\ Head(s.wire).line \in 1..LastLine
        /\ \A k \in DOMAIN Tail(s.wire) : Tail(s.wire)[k].line \in 1..LastLine
    <3> DEFINE w == s.wire
    <3>1. w \in Seq(Requests) /\ w # <<>> /\ \A k \in DOMAIN w : w[k].line \in 1..LastLine
      BY <2>1 DEF TextInv
    <3> HIDE DEF w
    <3>2. /\ Head(w) \in Requests /\ Head(w).line \in 1..LastLine
          /\ \A k \in DOMAIN Tail(w) : Tail(w)[k].line \in 1..LastLine
      BY <3>1, TailFacts
    <3> QED
      BY <3>2 DEF w
  <2>3. PICK o \in Outcomes(Head(s.wire), s.tran) :
            /\ applied' = applied \o o.effect
            /\ late' = (late \ {s}) \cup
                  (IF Len(s.wire) = 1 THEN {} ELSE {[s EXCEPT !.wire = Tail(@), !.tran = o.tran]})
    BY <1>4 DEF LateServe
  <2>4. o.tran.work \in Seq(Lines) /\ o.effect \in Seq(Lines)
    BY <2>1, <2>2, <2>3, OutcomeLines DEF TextInv
  <2>5. applied' \in Seq(Lines)
    BY <2>3, <2>4, ConcatFacts DEF TextInv
  <2> DEFINE n == [s EXCEPT !.wire = Tail(@), !.tran = o.tran]
  <2>6. n.wire = Tail(s.wire) /\ n.tran = o.tran
    BY <2>1
  <2> HIDE DEF n
  <2>7. \A z \in late' : z \in late \/ z = n
    BY <2>3 DEF n
  <2>8. \A z \in late' :
          /\ z.tran.work \in Seq(Lines)
          /\ \A k \in DOMAIN z.wire : z.wire[k].line \in 1..LastLine
    BY <2>2, <2>4, <2>6, <2>7 DEF TextInv
  <2> QED
    BY <1>1, <1>2, <2>5, <2>8 DEF TextInv
<1> QED
  BY <1>3, <1>4

(* What is left at the server was there.                                   *)
LEMMA LeaveText ==
    ASSUME TextInv, UNCHANGED <<call, applied, work, limbo>>,
           wire' = <<>>, tran' = NoTran, late' = late \cup Leftover
    PROVE  TextInv'
<1>1. Lines' = Lines /\ LastLine' = LastLine
  BY DEF Lines, LastLine, Understood, Text
<1>2. tran'.work \in Seq(Lines)
  BY DEF NoTran
<1>3. \A s \in Leftover : s.wire = wire /\ s.tran = tran
  BY DEF Leftover
<1>4. \A s \in late' :
        /\ s.tran.work \in Seq(Lines)
        /\ \A k \in DOMAIN s.wire : s.wire[k].line \in 1..LastLine
  BY <1>3 DEF TextInv
<1> QED
  BY <1>1, <1>2, <1>4 DEF TextInv

LEMMA CallerText ==
    ASSUME TypeOK, TextInv, Caller, UNCHANGED odbcVars
    PROVE  TextInv'
<1>1. UNCHANGED <<work, limbo>>
  BY DEF odbcVars
<1>2. CASE HangUp
  BY <1>1, <1>2, LeaveText DEF HangUp
<1>3. CASE Send
  <2>1. UNCHANGED <<call, applied, tran, late>>
    BY <1>3 DEF Send
  <2>2. Lines' = Lines /\ LastLine' = LastLine
    BY <2>1 DEF Lines, LastLine, Understood, Text
  <2> DEFINE r == [kind |-> req, line |-> line, n |-> sent + 1]
  <2>3. wire \in Seq(Requests) /\ r \in Requests /\ r.line \in 1..LastLine
    BY LastLineType DEF TypeOK, CallTypeOK, MssqlTypeOK, ServerTypeOK, Requests
  <2>4. wire' = wire \/ wire' = Append(wire, r)
    BY <1>3 DEF Send
  <2> HIDE DEF r
  <2>5. \A k \in DOMAIN wire' : wire'[k].line \in 1..LastLine
    BY <2>3, <2>4, AppendFacts DEF TextInv
  <2> QED
    BY <1>1, <2>1, <2>2, <2>5 DEF TextInv
<1>4. CASE UNCHANGED <<call, applied, tran, wire, late>>
  BY <1>1, <1>4, TextSame
<1>5. ASSUME NEW e, Fails(e)
      PROVE  HangUp \/ UNCHANGED <<call, applied, tran, wire, late>>
  BY <1>5 DEF Fails, server
<1>6. HangUp \/ Send \/ UNCHANGED <<call, applied, tran, wire, late>>
  BY <1>5 DEF Caller, Start, Connect, SendFails, ReceiveError, ReceiveToken, NextInTx, NextLine, EndOfTx,
     QueryReturns, Scan, Drain, RowsClosed, caller, server, mssqlVars
<1> QED
  BY <1>2, <1>3, <1>4, <1>6

LEMMA OdbcText ==
    ASSUME TypeOK, TextInv, OdbcNext, UNCHANGED mssqlVars
    PROVE  TextInv'
<1>1. UNCHANGED <<call, tran, wire, late>>
  BY DEF mssqlVars, OdbcNext, Start, LimboEnds, Open, Begin, Prepare, Execute, Fetch, CloseStmt, EndTx, Close
<1>2. Lines' = Lines /\ LastLine' = LastLine
  BY <1>1 DEF Lines, LastLine, Understood, Text
<1>3. <<>> \in Seq(Lines) /\ applied \in Seq(Lines) /\ work \in Seq(Lines) /\ limbo \in Seq(Lines)
  BY DEF TextInv
<1>4. Understood(line) => /\ <<line>> \in Seq(Lines)
                          /\ Append(work, line) \in Seq(Lines)
                          /\ Append(applied, line) \in Seq(Lines)
  <2>1. Understood(line) => line \in Lines
    BY DEF TypeOK, CallTypeOK, Lines
  <2> QED
    BY <1>3, <2>1, AppendFacts
<1>5. applied \o limbo \in Seq(Lines) /\ applied \o work \in Seq(Lines)
  BY <1>3, ConcatFacts
<1>6. applied' \in Seq(Lines) /\ work' \in Seq(Lines) /\ limbo' \in Seq(Lines)
  <2>1. CASE Start /\ UNCHANGED odbcVars
    BY <1>3, <2>1 DEF Start, odbcVars
  <2>2. CASE LimboEnds
    BY <1>3, <1>5, <2>2 DEF LimboEnds
  <2>3. CASE Open \/ Begin \/ Prepare \/ Fetch \/ CloseStmt \/ Close
    BY <1>3, <2>3 DEF Open, Begin, Prepare, Fetch, CloseStmt, Close, session
  <2>4. CASE Execute
    BY <1>3, <1>4, <2>4 DEF Execute, Loses, session
  <2>5. CASE EndTx
    BY <1>3, <1>5, <2>5 DEF EndTx
  <2> QED
    BY <2>1, <2>2, <2>3, <2>4, <2>5 DEF OdbcNext
<1> QED
  BY <1>1, <1>2, <1>6 DEF TextInv

LEMMA TextAlways == Spec => []TextInv
<1>1. Init => TextInv
  BY DEF Init, CallInit, MssqlInit, OdbcInit, NoTran, TextInv
<1>2. ASSUME TypeOK, TextInv, [Next]_vars
      PROVE  TextInv'
  <2>1. CASE driver = "mssql" /\ MssqlNext /\ UNCHANGED odbcVars
    <3>1. CASE Parse
      BY <1>2, <2>1, <3>1, TextSame DEF Parse, ReadPacket, ReadFails, ParseData, ParseEnvChange, ParseDone,
         caller, server, odbcVars
    <3>2. CASE Cut
      BY <1>2, <2>1, <3>2, LeaveText DEF Cut, caller, odbcVars
    <3> QED
      BY <1>2, <2>1, <3>1, <3>2, CallerText, ServeText, LateText DEF MssqlNext
  <2>2. CASE driver = "odbc" /\ OdbcNext /\ UNCHANGED mssqlVars
    BY <1>2, <2>2, OdbcText
  <2>3. CASE UNCHANGED vars
    BY <1>2, <2>3, TextSame DEF vars, callVars, mssqlVars, odbcVars
  <2> QED
    BY <1>2, <2>1, <2>2, <2>3 DEF Next
<1> QED
  BY <1>1, <1>2, DriversTypeCorrect, PTL DEF Spec

(* For every template and all arguments: only with the mark of fmt in an   *)
(* argument does compileTemplate change a line (provisioner.go:196-204),   *)
(* and only with a bracket or quote in one does a changed line take        *)
(* effect, as the delimiter around the argument otherwise stays open.      *)
THEOREM DriversStatementsAsMeant == Spec => []StatementsAsMeant
<1>1. ASSUME TypeOK, TextInv
      PROVE  StatementsAsMeant
  <2>1. call \in Calls
    BY <1>1 DEF TypeOK, CallTypeOK
  <2>2. ASSUME NEW n \in 1..LastLine
        PROVE  IsLine(call.template[n], call.args)
    <3>1. call.template \in Seq(Seq(STRING)) /\ n \in DOMAIN call.template
      BY <2>1, CallsType DEF LastLine
    <3>2. call.template[n] \in Seq(Pieces)
      <4>1. call.template[n] \in Seq(STRING)
        BY <3>1
      <4> QED
        BY <4>1, SeqMonotonic DEF Pieces
    <3>3. call.args \in Seq(Seq(Pieces))
      <4>1. call.args \in Seq(Seq(STRING))
        BY <2>1, CallsType
      <4>2. Seq(STRING) \subseteq Seq(Pieces)
        BY SeqMonotonic DEF Pieces
      <4> QED
        BY <4>1, <4>2, SeqMonotonic
    <3> QED
      BY <2>1, <3>1, <3>2, <3>3, CallsTemplated DEF IsLine
  <2>3. \A n \in 1..LastLine :
            /\ Text(n) # Meant(n) => Marked(call.args)
            /\ AllPlain(call.args) /\ Understood(n) => Text(n) = Meant(n)
    BY <2>2, CompiledLine DEF Text, Meant, Understood
  <2>4. \A k \in DOMAIN applied : applied[k] \in Lines
    BY <1>1 DEF TextInv
  <2> QED
    BY <2>3, <2>4 DEF StatementsAsMeant, Marked, AllPlain, Lines, Contains
<1> QED
  BY <1>1, TextAlways, DriversTypeCorrect, PTL
=============================================================================
