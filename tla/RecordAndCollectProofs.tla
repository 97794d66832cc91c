------------------------ MODULE RecordAndCollectProofs ------------------------
(***************************************************************************)
(* What a recording leaves behind, for every set of characters, every      *)
(* bound and every set of failing steps: what was said comes out in order  *)
(* and whole, the screen shows it, and nothing is typed after the end.     *)
(***************************************************************************)
EXTENDS RecordAndCollect, SequenceTheorems, WellFoundedInduction, TLAPS

-----------------------------------------------------------------------------
(* Sequences: flattening, and what completes a prefix.  The library defines  *)
(* both by a choice; its induction takes an operator, so ours takes a set.   *)

\* Induction over the naturals, for a set in the place of a predicate.
LEMMA SetInduction ==
  ASSUME NEW S, 0 \in S, \A n \in Nat : n \in S => n + 1 \in S
  PROVE  Nat \subseteq S
<1>1. SUFFICES ASSUME Nat \ S # {} PROVE FALSE
  OBVIOUS
<1>2. PICK x \in Nat \ S : \A y \in Nat \ S : ~ (<<y, x>> \in OpToRel(<, Nat))
  BY <1>1, NatLessThanWellFounded, WFMin, Zenon
<1>3. x # 0 /\ x - 1 \in Nat /\ x - 1 < x /\ x \in Nat
  OBVIOUS
<1>4. x - 1 \in S
  <2>1. <<x - 1, x>> \in OpToRel(<, Nat)
    BY <1>3 DEF OpToRel
  <2> QED
    BY <1>2, <1>3, <2>1, Zenon
<1> QED
  BY <1>3, <1>4

\* f is the table of the flattened beginnings of s.
Solves(f, s) ==
  f = [i \in 1..Len(s) |-> IF i = 1 THEN s[i] ELSE f[i - 1] \o s[i]]

\* There is at most one such table ...
LEMMA SolvesOnce ==
  ASSUME NEW A, NEW s \in Seq(A), NEW f, NEW g, Solves(f, s), Solves(g, s)
  PROVE  f = g
<1> DEFINE S == {n \in Nat : n \in 1..Len(s) => f[n] = g[n]}
<1>1. 0 \in S
  OBVIOUS
<1>2. ASSUME NEW n \in Nat, n \in S PROVE n + 1 \in S
  <2> SUFFICES ASSUME n + 1 \in 1..Len(s) PROVE f[n + 1] = g[n + 1]
    OBVIOUS
  <2>1. f[n + 1] = IF n + 1 = 1 THEN s[n + 1] ELSE f[(n + 1) - 1] \o s[n + 1]
    BY DEF Solves
  <2>2. g[n + 1] = IF n + 1 = 1 THEN s[n + 1] ELSE g[(n + 1) - 1] \o s[n + 1]
    BY DEF Solves
  <2>3. n + 1 # 1 => f[(n + 1) - 1] = g[(n + 1) - 1]
    <3>1. (n + 1) - 1 = n /\ (n + 1 # 1 => n \in 1..Len(s))
      OBVIOUS
    <3> QED
      BY <1>2, <3>1
  <2> QED
    BY <2>1, <2>2, <2>3, Zenon
<1>3. Nat \subseteq S
  <2> HIDE DEF S
  <2> QED
    BY <1>1, <1>2, SetInduction
<1>4. \A n \in 1..Len(s) : f[n] = g[n]
  BY <1>3
<1>5. f = [n \in 1..Len(s) |-> f[n]] /\ g = [n \in 1..Len(s) |-> g[n]]
  BY DEF Solves
<1> QED
  BY <1>4, <1>5

\* f is its beginning up to n.
Begins(f, n, s) ==
  \A i \in 1..n : f[i] = IF i = 1 THEN s[i] ELSE f[i - 1] \o s[i]
HasBegin(n, s, A) == \E f \in [1..n -> Seq(A)] : Begins(f, n, s)

\* A table is continued by one entry.
LEMMA BeginsOneMore ==
  ASSUME NEW A, NEW s \in Seq(Seq(A)), NEW n \in Nat, n + 1 <= Len(s),
         HasBegin(n, s, A)
  PROVE  HasBegin(n + 1, s, A)
<1>1. PICK f \in [1..n -> Seq(A)] : Begins(f, n, s)
  BY DEF HasBegin
<1> DEFINE last == IF n = 0 THEN s[n + 1] ELSE f[n] \o s[n + 1]
           g == [i \in 1..n + 1 |-> IF i = n + 1 THEN last ELSE f[i]]
<1>2. last \in Seq(A)
  OBVIOUS
<1>3. g \in [1..n + 1 -> Seq(A)] /\ g[n + 1] = last /\ \A i \in 1..n : g[i] = f[i]
  <2> HIDE DEF last
  <2>1. \A i \in 1..n + 1 : i # n + 1 => i \in 1..n
    OBVIOUS
  <2>2. \A i \in 1..n : i \in 1..n + 1 /\ i # n + 1
    OBVIOUS
  <2>3. n + 1 \in 1..n + 1
    OBVIOUS
  <2> QED
    BY <1>2, <2>1, <2>2, <2>3
<1> HIDE DEF g
<1>4. ASSUME NEW i \in 1..n + 1
      PROVE g[i] = IF i = 1 THEN s[i] ELSE g[i - 1] \o s[i]
  <2>1. CASE i = n + 1
    BY <1>3, <2>1
  <2>2. CASE i # n + 1
    <3>1. i \in 1..n /\ (i # 1 => i - 1 \in 1..n)
      BY <2>2
    <3> QED
      BY <1>1, <1>3, <3>1 DEF Begins
  <2> QED
    BY <2>1, <2>2
<1> QED
  BY <1>3, <1>4 DEF HasBegin, Begins

\* ... and, for a sequence of sequences, one.
LEMMA SolvesExists ==
  ASSUME NEW A, NEW s \in Seq(Seq(A))
  PROVE  \E f \in [1..Len(s) -> Seq(A)] : Solves(f, s)
<1> DEFINE S == {n \in Nat : n <= Len(s) => HasBegin(n, s, A)}
<1>1. 0 \in S
  <2>1. [i \in 1..0 |-> <<>>] \in [1..0 -> Seq(A)]
    OBVIOUS
  <2>2. Begins([i \in 1..0 |-> <<>>], 0, s)
    BY DEF Begins
  <2> QED
    BY <2>1, <2>2 DEF HasBegin
<1>2. ASSUME NEW n \in Nat, n \in S PROVE n + 1 \in S
  <2>1. n + 1 <= Len(s) => n <= Len(s)
    OBVIOUS
  <2> QED
    BY <1>2, <2>1, BeginsOneMore
<1>3. Nat \subseteq S
  <2> HIDE DEF S
  <2> QED
    BY <1>1, <1>2, SetInduction
<1>4. HasBegin(Len(s), s, A)
  BY <1>3
<1>5. PICK f \in [1..Len(s) -> Seq(A)] : Begins(f, Len(s), s)
  BY <1>4 DEF HasBegin
<1>6. f = [i \in 1..Len(s) |-> IF i = 1 THEN s[i] ELSE f[i - 1] \o s[i]]
  BY <1>5 DEF Begins
<1> QED
  BY <1>6 DEF Solves

\* What the choice in FlattenSeq amounts to.
LEMMA FlattenIsLast ==
  ASSUME NEW A, NEW s \in Seq(A), Len(s) # 0, NEW f, Solves(f, s)
  PROVE  FlattenSeq(s) = f[Len(s)]
<1> DEFINE c == CHOOSE flatten : flatten = [i \in 1..Len(s) |->
                                   IF i = 1 THEN s[i] ELSE flatten[i - 1] \o s[i]]
<1>1. Solves(c, s)
  <2>1. c = [i \in 1..Len(s) |-> IF i = 1 THEN s[i] ELSE c[i - 1] \o s[i]]
    <3>1. \E g : g = [i \in 1..Len(s) |-> IF i = 1 THEN s[i] ELSE g[i - 1] \o s[i]]
      BY Zenon DEF Solves
    <3> QED
      BY <3>1, Zenon
  <2> QED
    BY <2>1, Zenon DEF Solves
<1>2. FlattenSeq(s) = c[Len(s)]
  BY Zenon DEF FlattenSeq
<1> HIDE DEF c
<1>3. c = f
  BY <1>1, SolvesOnce
<1> QED
  BY <1>2, <1>3, Zenon

LEMMA FlattenEmpty == FlattenSeq(<<>>) = <<>>
  BY DEF FlattenSeq

LEMMA FlattenType ==
  ASSUME NEW A, NEW s \in Seq(Seq(A))
  PROVE  FlattenSeq(s) \in Seq(A)
<1>1. CASE Len(s) = 0
  <2>1. s = <<>> /\ <<>> \in Seq(A)
    BY <1>1
  <2> QED
    BY <2>1, FlattenEmpty
<1>2. CASE Len(s) # 0
  <2>1. PICK f \in [1..Len(s) -> Seq(A)] : Solves(f, s)
    BY SolvesExists
  <2>2. FlattenSeq(s) = f[Len(s)]
    BY <1>2, <2>1, FlattenIsLast
  <2> QED
    BY <1>2, <2>1, <2>2
<1> QED
  BY <1>1, <1>2

LEMMA FlattenAppend ==
  ASSUME NEW A, NEW s \in Seq(Seq(A)), NEW x \in Seq(A)
  PROVE  FlattenSeq(Append(s, x)) = FlattenSeq(s) \o x
<1> DEFINE t == Append(s, x)
<1>1. t \in Seq(Seq(A)) /\ Len(t) = Len(s) + 1 /\ t[Len(s) + 1] = x
      /\ \A i \in 1..Len(s) : t[i] = s[i]
  OBVIOUS
<1>2. PICK f \in [1..Len(t) -> Seq(A)] : Solves(f, t)
  BY <1>1, SolvesExists
<1> HIDE DEF t
<1>3. FlattenSeq(t) = f[Len(s) + 1]
  <2>1. Len(t) # 0
    BY <1>1
  <2>2. FlattenSeq(t) = f[Len(t)]
    BY <1>1, <1>2, <2>1, FlattenIsLast
  <2> QED
    BY <1>1, <2>2
<1>4. \A i \in 1..Len(s) + 1 : f[i] = IF i = 1 THEN t[i] ELSE f[i - 1] \o t[i]
  BY <1>1, <1>2 DEF Solves
<1>5. CASE Len(s) = 0
  <2>1. f[1] = t[1] /\ t[1] = x /\ s = <<>>
    BY <1>1, <1>4, <1>5
  <2> QED
    BY <1>3, <1>5, <2>1, FlattenEmpty DEF t
<1>6. CASE Len(s) # 0
  <2> DEFINE g == [i \in 1..Len(s) |-> f[i]]
  <2>1. Len(s) \in Nat /\ Len(s) \in 1..Len(s) /\ (Len(s) + 1) - 1 = Len(s)
        /\ Len(s) + 1 \in 1..Len(s) + 1 /\ Len(s) + 1 # 1
    BY <1>6
  <2>2. ASSUME NEW i \in 1..Len(s)
        PROVE f[i] = IF i = 1 THEN s[i] ELSE g[i - 1] \o s[i]
    <3>1. i \in 1..Len(s) + 1 /\ (i # 1 => i - 1 \in 1..Len(s))
      OBVIOUS
    <3>2. i # 1 => g[i - 1] = f[i - 1]
      BY <3>1
    <3>3. f[i] = IF i = 1 THEN t[i] ELSE f[i - 1] \o t[i]
      BY <1>4, <3>1
    <3>4. t[i] = s[i]
      BY <1>1
    <3> HIDE DEF g
    <3> QED
      BY <3>2, <3>3, <3>4
  <2>3. Solves(g, s)
    BY <2>2 DEF Solves
  <2>4. FlattenSeq(s) = g[Len(s)]
    <3> HIDE DEF g
    <3> QED
      BY <1>6, <2>3, FlattenIsLast
  <2>5. g[Len(s)] = f[Len(s)]
    BY <2>1
  <2> HIDE DEF g
  <2>6. f[Len(s) + 1] = IF Len(s) + 1 = 1 THEN t[Len(s) + 1]
                        ELSE f[(Len(s) + 1) - 1] \o t[Len(s) + 1]
    BY <1>4, <2>1
  <2>7. f[Len(s) + 1] = f[Len(s)] \o x
    BY <1>1, <2>1, <2>6
  <2>8. FlattenSeq(t) = FlattenSeq(s) \o x
    BY <1>3, <2>4, <2>5, <2>7
  <2> QED
    BY <2>8 DEF t
<1> QED
  BY <1>5, <1>6

\* Flattening two sequences one after the other.
LEMMA FlattenConcat ==
  ASSUME NEW A, NEW s \in Seq(Seq(A)), NEW t \in Seq(Seq(A))
  PROVE  FlattenSeq(s \o t) = FlattenSeq(s) \o FlattenSeq(t)
<1> DEFINE S == {n \in Nat : \A u \in Seq(Seq(A)) : Len(u) = n =>
                   FlattenSeq(s \o u) = FlattenSeq(s) \o FlattenSeq(u)}
<1>1. 0 \in S
  <2> SUFFICES ASSUME NEW u \in Seq(Seq(A)), Len(u) = 0
               PROVE FlattenSeq(s \o u) = FlattenSeq(s) \o FlattenSeq(u)
    OBVIOUS
  <2>1. u = <<>> /\ s \o <<>> = s
    OBVIOUS
  <2>2. FlattenSeq(s) \o <<>> = FlattenSeq(s)
    BY FlattenType
  <2> QED
    BY <2>1, <2>2, FlattenEmpty
<1>2. ASSUME NEW n \in Nat, n \in S PROVE n + 1 \in S
  <2> SUFFICES ASSUME NEW u \in Seq(Seq(A)), Len(u) = n + 1
               PROVE FlattenSeq(s \o u) = FlattenSeq(s) \o FlattenSeq(u)
    OBVIOUS
  <2> DEFINE v == SubSeq(u, 1, n)
             x == u[n + 1]
  <2>1. v \in Seq(Seq(A)) /\ Len(v) = n /\ x \in Seq(A) /\ u = Append(v, x)
    OBVIOUS
  <2> HIDE DEF v, x
  <2>2. s \o u = Append(s \o v, x) /\ s \o v \in Seq(Seq(A))
    BY <2>1
  <2>3. FlattenSeq(s \o u) = FlattenSeq(s \o v) \o x
    BY <2>1, <2>2, FlattenAppend
  <2>4. FlattenSeq(s \o v) = FlattenSeq(s) \o FlattenSeq(v)
    BY <1>2, <2>1
  <2>5. FlattenSeq(u) = FlattenSeq(v) \o x
    BY <2>1, FlattenAppend
  <2>6. FlattenSeq(s) \in Seq(A) /\ FlattenSeq(v) \in Seq(A)
    BY <2>1, FlattenType
  <2>7. \A a, b, c \in Seq(A) : (a \o b) \o c = a \o (b \o c)
    OBVIOUS
  <2>8. (FlattenSeq(s) \o FlattenSeq(v)) \o x = FlattenSeq(s) \o (FlattenSeq(v) \o x)
    BY <2>1, <2>6, <2>7, Zenon
  <2> QED
    BY <2>3, <2>4, <2>5, <2>8
<1>3. Nat \subseteq S
  <2> HIDE DEF S
  <2> QED
    BY <1>1, <1>2, SetInduction
<1>4. Len(t) \in S
  BY <1>3
<1> QED
  BY <1>4

LEMMA FlattenOne ==
  ASSUME NEW A, NEW x \in Seq(A)
  PROVE  FlattenSeq(<<x>>) = x
<1>1. <<x>> = Append(<<>>, x) /\ <<>> \in Seq(Seq(A)) /\ <<>> \o x = x
  OBVIOUS
<1> QED
  BY <1>1, FlattenAppend, FlattenEmpty

\* The first of the sequences comes first.
LEMMA FlattenTail ==
  ASSUME NEW A, NEW s \in Seq(Seq(A)), s # <<>>
  PROVE  FlattenSeq(s) = Head(s) \o FlattenSeq(Tail(s))
<1>1. s = <<Head(s)>> \o Tail(s) /\ Head(s) \in Seq(A) /\ Tail(s) \in Seq(Seq(A))
      /\ <<Head(s)>> \in Seq(Seq(A))
  OBVIOUS
<1>2. FlattenSeq(<<Head(s)>> \o Tail(s)) = FlattenSeq(<<Head(s)>>) \o FlattenSeq(Tail(s))
  BY <1>1, FlattenConcat
<1>3. FlattenSeq(<<Head(s)>>) = Head(s)
  BY <1>1, FlattenOne
<1> QED
  BY <1>1, <1>2, <1>3

\* A bounded set of naturals has a greatest element.
LEMMA Greatest ==
  ASSUME NEW k \in Nat, NEW S \in SUBSET (0..k), S # {}
  PROVE  \E m \in S : \A n \in S : n <= m
<1> DEFINE D == {k - n : n \in S}
<1>1. D \subseteq Nat /\ D # {}
  <2>1. \A n \in S : k - n \in Nat
    OBVIOUS
  <2>2. PICK n \in S : TRUE
    OBVIOUS
  <2>3. k - n \in D
    OBVIOUS
  <2> QED
    BY <2>1, <2>3
<1>2. \E d \in D : \A e \in D : ~ (<<e, d>> \in OpToRel(<, Nat))
  <2> HIDE DEF D
  <2> QED
    BY <1>1, NatLessThanWellFounded, WFMin, Zenon
<1>3. PICK m \in S : \A e \in D : ~ (<<e, k - m>> \in OpToRel(<, Nat))
  BY <1>2
<1>4. ASSUME NEW n \in S PROVE n <= m
  <2>1. k - n \in D /\ k - n \in Nat /\ k - m \in Nat
    OBVIOUS
  <2>2. ~ (k - n < k - m)
    <3>1. k - n < k - m => <<k - n, k - m>> \in OpToRel(<, Nat)
      BY <2>1 DEF OpToRel
    <3> QED
      BY <1>3, <2>1, <3>1
  <2> QED
    BY <2>2
<1> QED
  BY <1>4

\* Two sequences have a longest common prefix.
LEMMA LongestIsCommon ==
  ASSUME NEW A, NEW p \in Seq(A), NEW c \in Seq(A)
  PROVE  LET l == LongestCommonPrefix({p, c})
         IN  /\ l \in CommonPrefixes({p, c}) /\ l \in Seq(A)
             /\ \A o \in CommonPrefixes({p, c}) : Len(o) <= Len(l)
<1> DEFINE C == CommonPrefixes({p, c})
           S == {n \in 0..Len(p) : \E o \in C : Len(o) = n}
           l == LongestCommonPrefix({p, c})
<1>1. ASSUME NEW o \in C PROVE o \in Seq(A) /\ Len(o) \in 0..Len(p)
  <2>1. \E q \in {p, c} : \E k \in 0..Len(q) : o = SubSeq(q, 1, k)
    BY Zenon DEF CommonPrefixes, Prefixes
  <2>2. o \in Seq(A)
    <3> HIDE DEF C
    <3> QED
      BY <2>1
  <2>3. IsPrefix(o, p)
    BY DEF CommonPrefixes
  <2> HIDE DEF C
  <2> QED
    BY <2>2, <2>3 DEF IsPrefix
<1>2. <<>> \in C
  <2>1. <<>> = SubSeq(p, 1, 0) /\ 0 \in 0..Len(p)
    OBVIOUS
  <2>2. <<>> \in Prefixes(p)
    BY <2>1 DEF Prefixes
  <2>3. IsPrefix(<<>>, p) /\ IsPrefix(<<>>, c)
    BY DEF IsPrefix
  <2> QED
    BY <2>2, <2>3 DEF CommonPrefixes
<1>3. \E m \in S : \A n \in S : n <= m
  <2>1. S \in SUBSET (0..Len(p)) /\ S # {} /\ Len(p) \in Nat
    <3> HIDE DEF C
    <3> QED
      BY <1>1, <1>2
  <2> HIDE DEF S
  <2> QED
    BY <2>1, Greatest
<1>4. \E o \in C : \A q \in C : Len(q) <= Len(o)
  <2> HIDE DEF C
  <2> QED
    BY <1>1, <1>3
<1>5. l \in C /\ \A o \in C : Len(o) <= Len(l)
  BY <1>4, Zenon DEF LongestCommonPrefix
<1> HIDE DEF C, l
<1> QED
  BY <1>1, <1>5 DEF C, l

LEMMA DiffType ==
  ASSUME NEW A, NEW p \in Seq(A), NEW c \in Seq(A)
  PROVE  diff_prefix(p, c) \in Seq(A)
<1> DEFINE l == LongestCommonPrefix({p, c})
<1>1. l \in Seq(A)
  BY LongestIsCommon
<1> HIDE DEF l
<1>2. SubSeq(c, Len(l) + 1, Len(c)) \in Seq(A)
  BY <1>1
<1> QED
  BY <1>2 DEF diff_prefix, l

\* What is typed for a sentence that goes on completes it.
LEMMA DiffCompletes ==
  ASSUME NEW A, NEW p \in Seq(A), NEW c \in Seq(A), IsPrefix(p, c)
  PROVE  p \o diff_prefix(p, c) = c
<1> DEFINE l == LongestCommonPrefix({p, c})
<1>1. l \in CommonPrefixes({p, c}) /\ l \in Seq(A)
      /\ \A o \in CommonPrefixes({p, c}) : Len(o) <= Len(l)
  BY LongestIsCommon
<1>2. p \in CommonPrefixes({p, c})
  <2>1. IsPrefix(p, p) /\ p = SubSeq(p, 1, Len(p)) /\ Len(p) \in 0..Len(p)
    BY DEF IsPrefix
  <2> QED
    BY <2>1 DEF CommonPrefixes, Prefixes
<1>3. IsPrefix(l, p)
  BY <1>1 DEF CommonPrefixes
<1> HIDE DEF l
<1>4. Len(l) = Len(p)
  <2>1. Len(p) <= Len(l)
    BY <1>1, <1>2
  <2> QED
    BY <1>1, <1>3, <2>1 DEF IsPrefix
<1>5. diff_prefix(p, c) = SubSeq(c, Len(p) + 1, Len(c))
  BY <1>4 DEF diff_prefix, l
<1> QED
  BY <1>5 DEF IsPrefix

-----------------------------------------------------------------------------
(* Nothing is typed after the end. *)

\* Join is the only way to "ok", and nothing starts the reader again.
Joined == task = "ok" => reader = "done"

LEMMA JoinedInit == Init => Joined
  BY DEF Init, Joined

\* The reader of a recording that is over stays over.
LEMMA JoinedStep == Joined /\ [Next]_vars => Joined'
<1> SUFFICES ASSUME Joined, [Next]_vars PROVE Joined'
  OBVIOUS
<1>1. CASE TaskRuns
  BY <1>1 DEF TaskRuns, Connect, StartAudio, CheckStop, NextFrame, StopAudio,
              Finish, FinishService, FinishThread, FinishRest, FinishChat, Answered,
              Join, Fail, Joined, readerVars
<1>2. CASE RequestStop
  BY <1>2 DEF RequestStop, Joined, readerVars
<1>3. CASE EngineAnswers \/ EndSentence \/ Break
  BY <1>3 DEF EngineAnswers, Hear, Flush, DecodeWhole, EndSentence, Break, Joined,
              taskVars, readerVars
<1>4. CASE ReaderRuns
  BY <1>4 DEF ReaderRuns, ReadPartial, ReadFinal, ReadEnd, Reads, Joined,
              taskVars
<1>5. CASE UNCHANGED vars
  BY <1>5 DEF vars, Joined
<1> QED
  BY <1>1, <1>2, <1>3, <1>4, <1>5 DEF Next

\* Only a reader that is reading types.
LEMMA OnlyReaderTypes == [Next]_vars /\ reader = "done" => screen' = screen
<1> SUFFICES ASSUME [Next]_vars, reader = "done" PROVE screen' = screen
  OBVIOUS
<1>1. CASE TaskRuns
  BY <1>1 DEF TaskRuns, Connect, StartAudio, CheckStop, NextFrame, StopAudio,
              Finish, FinishService, FinishThread, FinishRest, FinishChat, Answered,
              Join, readerVars
<1>2. CASE RequestStop
  BY <1>2 DEF RequestStop, readerVars
<1>3. CASE EngineAnswers \/ EndSentence \/ Break
  BY <1>3 DEF EngineAnswers, Hear, Flush, DecodeWhole, EndSentence, Break,
              readerVars
<1>4. CASE ReaderRuns
  BY <1>4 DEF ReaderRuns, ReadPartial, ReadFinal, ReadEnd, Reads
<1>5. CASE UNCHANGED vars
  BY <1>5 DEF vars
<1> QED
  BY <1>1, <1>2, <1>3, <1>4, <1>5 DEF Next

\* A recording that returned its result types nothing more (QuietAfterOk): the
\* text of two recordings never mixes, wherever the stop and the failures fall.
THEOREM RecordingEndsQuietly == Spec => QuietAfterOk
<1>1. Joined /\ [Next]_vars => [task = "ok" => screen' = screen]_vars
  BY OnlyReaderTypes DEF Joined
<1> QED
  BY <1>1, JoinedInit, JoinedStep, PTL DEF Spec, QuietAfterOk

-----------------------------------------------------------------------------
(* The invariant of the text on its way from the engine to the finals.       *)

\* What a delta adds to the finals.
Word(m) == IF m.kind = "Final" THEN m.text ELSE <<>>
Said(ch) == [i \in 1..Len(ch) |-> Word(ch[i])]

Ended == {"join", "ok", "err"}

\* How much of what was fed has come out of the engine or stands in its
\* sentence: nothing, when it only collected and then had no text.
Kept == IF engine = "broken" /\ backend # "service" THEN 0 ELSE heard

\* The finals, those in flight and the sentence are what was heard.
Total == (FlattenSeq(finals) \o FlattenSeq(Said(channel))) \o partial
Conserved == Total = SubSeq(fed, 1, Kept)

\* What the engine has taken, by where it lives.
EngineInv ==
  /\ input_open <=> task \notin Ended
  /\ task = "connect" => engine = "none" /\ reader = "none"
  /\ backend \in InSession =>
       /\ engine \in {"none", "broken"} /\ partial = <<>>
       /\ input_open => engine = "none" /\ heard = 0
       /\ task \in {"join", "ok"} => heard = Len(fed)
  /\ backend \notin InSession =>
       /\ reader # "none" => engine # "none"
       /\ engine = "closed" => partial = <<>> /\ heard = Len(fed) /\ ~input_open
  /\ backend = "offline" =>
       partial = <<>> /\ (engine \in {"none", "open"} => heard = 0)

\* A reader that is through has read everything, or the engine broke off.
ReaderInv ==
  /\ \A i \in 1..Len(channel) : channel[i].kind = "Err" => engine = "broken"
  /\ reader = "done" => engine = "broken" \/ (channel = <<>> /\ SenderDropped)
  /\ Joined

HeardInv == CollectTypeOK /\ Conserved /\ EngineInv /\ ReaderInv

\* What is on screen of the sentence before the i-th delta is read, s being on
\* screen now.
Before(s, ch, i) ==
  IF i = 1 THEN s
  ELSE IF ch[i - 1].kind = "Partial" THEN ch[i - 1].text ELSE <<>>

\* Each delta goes on with its sentence, and so does what the engine holds.
Chain(s, ch, p) ==
  /\ \A i \in 1..Len(ch) : ch[i].kind # "Err" => IsPrefix(Before(s, ch, i), ch[i].text)
  /\ IsPrefix(Before(s, ch, Len(ch) + 1), p)

ScreenInv ==
  streaming /\ ~missed =>
    /\ screen = FlattenSeq(finals) \o inserted
    /\ broken = <<>>
    /\ reader # "done" => Chain(inserted, channel, partial)

-----------------------------------------------------------------------------
(* Types. *)

LEMMA InitTypes == Init => CollectTypeOK
<1> SUFFICES ASSUME Init PROVE CollectTypeOK
  OBVIOUS
<1>1. <<>> \in Text /\ <<>> \in Seq(Delta) /\ <<>> \in Seq(Text)
  BY DEF Text, Delta
<1>2. Len(fed) = 0 /\ Len(broken) = 0 /\ heard = 0
  BY DEF Init
<1>3. heard \in 0..Len(fed) /\ Len(broken) <= 1
  BY <1>2
<1>4. /\ fed \in Text /\ partial \in Text /\ inserted \in Text /\ screen \in Text
      /\ channel \in Seq(Delta) /\ finals \in Seq(Text) /\ broken \in Seq(Text)
  BY <1>1 DEF Init
<1> QED
  BY <1>3, <1>4 DEF Init, CollectTypeOK, TaskStep

LEMMA DeltaType ==
  ASSUME CollectTypeOK, NEW k \in {"Partial", "Final", "Err"}, NEW t \in Text, Send(k, t)
  PROVE  channel' \in Seq(Delta)
  BY DEF CollectTypeOK, Send, Delta

LEMMA TaskTypes == CollectTypeOK /\ TaskRuns => CollectTypeOK'
<1> SUFFICES ASSUME CollectTypeOK, TaskRuns PROVE CollectTypeOK'
  OBVIOUS
<1> USE DEF TaskStep
<1>1. CASE Connect
  BY <1>1 DEF CollectTypeOK, Connect, Fail, given
<1>2. CASE StartAudio
  BY <1>2 DEF CollectTypeOK, StartAudio, Fail, given, engineVars, readerVars
<1>3. CASE CheckStop
  BY <1>3 DEF CollectTypeOK, CheckStop, given, engineVars, readerVars
<1>4. CASE NextFrame
  <2>1. fed' \in Text /\ Len(fed) <= Len(fed') /\ Len(fed) \in Nat /\ Len(fed') \in Nat
    <3>1. fed \in Text
      BY DEF CollectTypeOK
    <3>2. \A c \in Chars : Append(fed, c) \in Text /\ Len(Append(fed, c)) = Len(fed) + 1
      BY <3>1 DEF Text
    <3>3. Len(fed) \in Nat
      BY <3>1 DEF Text
    <3>4. fed' = fed \/ \E c \in Chars : fed' = Append(fed, c)
      BY <1>4 DEF NextFrame
    <3>5. CASE fed' = fed
      BY <3>1, <3>3, <3>5
    <3>6. ASSUME NEW c \in Chars, fed' = Append(fed, c)
          PROVE  fed' \in Text /\ Len(fed) <= Len(fed') /\ Len(fed') \in Nat
      <4>1. fed' \in Text /\ Len(fed') = Len(fed) + 1
        BY <3>2, <3>6
      <4> QED
        BY <3>3, <4>1
    <3> QED
      BY <3>3, <3>4, <3>5, <3>6
  <2>2. heard' \in 0..Len(fed')
    BY <1>4, <2>1 DEF CollectTypeOK, NextFrame, engineVars
  <2> QED
    BY <1>4, <2>1, <2>2 DEF CollectTypeOK, NextFrame, Fail, given, engineVars, readerVars
<1>5. CASE StopAudio
  BY <1>5 DEF CollectTypeOK, StopAudio, Fail, given, engineVars, readerVars
<1>6. CASE FinishService \/ FinishThread
  BY <1>6 DEF CollectTypeOK, FinishService, FinishThread, Fail, given, engineVars,
              readerVars
<1>7. CASE FinishRest \/ FinishChat
  <2>1. Answered
    BY <1>7 DEF FinishRest, FinishChat
  <2>2. channel' \in Seq(Delta)
    <3>1. fed \in Text /\ <<>> \in Text
      BY DEF CollectTypeOK, Text
    <3> QED
      BY <2>1, <3>1, DeltaType DEF Answered, CollectTypeOK
  <2>3. heard' \in 0..Len(fed')
    BY <2>1 DEF CollectTypeOK, Answered, Text, given
  <2> QED
    BY <2>1, <2>2, <2>3 DEF CollectTypeOK, Answered, Fail, given, readerVars
<1>8. CASE Join
  BY <1>8 DEF CollectTypeOK, Join, given, engineVars, readerVars
<1> QED
  BY <1>1, <1>2, <1>3, <1>4, <1>5, <1>6, <1>7, <1>8 DEF TaskRuns, Finish

LEMMA EngineTypes == CollectTypeOK /\ (EngineAnswers \/ EndSentence \/ Break) => CollectTypeOK'
<1> SUFFICES ASSUME CollectTypeOK, EngineAnswers \/ EndSentence \/ Break
             PROVE  CollectTypeOK'
  OBVIOUS
<1>0. <<>> \in Text /\ fed \in Text /\ partial \in Text
  BY DEF CollectTypeOK, Text
<1>1. CASE Hear
  <2>1. heard + 1 \in 1..Len(fed)
    BY <1>1, <1>0 DEF CollectTypeOK, Hear, Text
  <2>2. partial' \in Text
    BY <1>1, <1>0, <2>1 DEF Hear, Text
  <2>3. channel' \in Seq(Delta)
    BY <1>1, <2>2, DeltaType DEF Hear
  <2> QED
    BY <1>1, <2>1, <2>2, <2>3 DEF CollectTypeOK, Hear, taskVars, given, readerVars
<1>2. CASE EndSentence
  <2>1. channel' \in Seq(Delta)
    BY <1>0, <1>2, DeltaType DEF EndSentence
  <2> QED
    BY <1>0, <1>2, <2>1 DEF CollectTypeOK, EndSentence, taskVars, given, readerVars
<1>3. CASE Flush
  <2>1. channel' \in Seq(Delta)
    BY <1>0, <1>3, DeltaType DEF Flush, CollectTypeOK
  <2> QED
    BY <1>0, <1>3, <2>1 DEF CollectTypeOK, Flush, taskVars, given, readerVars
<1>4. CASE DecodeWhole
  <2>1. channel' \in Seq(Delta)
    BY <1>0, <1>4, DeltaType DEF DecodeWhole
  <2>2. heard' \in 0..Len(fed')
    BY <1>0, <1>4 DEF DecodeWhole, taskVars, Text
  <2> QED
    BY <1>0, <1>4, <2>1, <2>2 DEF CollectTypeOK, DecodeWhole, taskVars, given, readerVars
<1>5. CASE Break
  <2>1. channel' \in Seq(Delta)
    BY <1>0, <1>5, DeltaType DEF Break, CollectTypeOK
  <2> QED
    BY <1>5, <2>1 DEF CollectTypeOK, Break, taskVars, given, readerVars
<1> QED
  BY <1>1, <1>2, <1>3, <1>4, <1>5 DEF EngineAnswers

LEMMA ReadTypes ==
  ASSUME CollectTypeOK, NEW k, Reads(k)
  PROVE  /\ Head(channel) \in Delta /\ Head(channel).text \in Text
         /\ channel' \in Seq(Delta) /\ channel # <<>> /\ reader = "reading"
         /\ Head(channel).kind = k /\ channel' = Tail(channel)
<1>1. channel \in Seq(Delta) /\ channel # <<>>
  BY DEF CollectTypeOK, Reads
<1>2. Head(channel) \in Delta /\ Tail(channel) \in Seq(Delta)
  BY <1>1
<1>3. Head(channel).text \in Text
  BY <1>2 DEF Delta
<1> QED
  BY <1>1, <1>2, <1>3 DEF Reads

LEMMA ReaderTypes == CollectTypeOK /\ ReaderRuns => CollectTypeOK'
<1> SUFFICES ASSUME CollectTypeOK, ReaderRuns PROVE CollectTypeOK'
  OBVIOUS
<1> DEFINE text == Head(channel).text
<1>1. ASSUME NEW p \in Text, NEW t \in Text PROVE screen \o diff_prefix(p, t) \in Text
  <2>1. diff_prefix(p, t) \in Text
    BY DiffType DEF Text
  <2> QED
    BY <2>1 DEF CollectTypeOK, Text
<1>2. CASE ReadPartial
  <2>1. text \in Text /\ channel' \in Seq(Delta)
    BY <1>2, ReadTypes DEF ReadPartial
  <2>2. inserted' \in Text /\ broken' \in Seq(Text) /\ Len(broken') <= 1
    <3>1. <<inserted>> \in Seq(Text) /\ Len(<<inserted>>) <= 1 /\ <<>> \in Seq(Text)
          /\ Len(<<>>) <= 1
      BY DEF CollectTypeOK
    <3> QED
      BY <1>2, <2>1, <3>1 DEF CollectTypeOK, ReadPartial
  <2>3. screen' \in Text /\ missed' \in BOOLEAN
    <3>1. screen \o diff_prefix(inserted, text) \in Text
      BY <1>1, <2>1 DEF CollectTypeOK
    <3> QED
      BY <1>2, <3>1 DEF CollectTypeOK, ReadPartial, Types
  <2> QED
    BY <1>2, <2>1, <2>2, <2>3 DEF CollectTypeOK, ReadPartial, taskVars, given, engineVars
<1>3. CASE ReadFinal
  <2>1. text \in Text /\ channel' \in Seq(Delta)
    BY <1>3, ReadTypes DEF ReadFinal
  <2>2. inserted' \in Text /\ broken' \in Seq(Text) /\ Len(broken') <= 1
    <3>1. <<>> \in Text /\ <<>> \in Seq(Text) /\ Len(<<>>) <= 1
      BY DEF Text
    <3> QED
      BY <1>3, <3>1 DEF CollectTypeOK, ReadFinal
  <2>3. finals' \in Seq(Text)
    BY <1>3, <2>1 DEF CollectTypeOK, ReadFinal
  <2>4. screen' \in Text /\ missed' \in BOOLEAN
    <3>1. screen \o diff_prefix(inserted, text) \in Text
      BY <1>1, <2>1 DEF CollectTypeOK
    <3>2. broken # <<>> => screen \o diff_prefix(Head(broken), text) \in Text
      <4>1. broken # <<>> => Head(broken) \in Text
        BY DEF CollectTypeOK
      <4> QED
        BY <1>1, <2>1, <4>1
    <3> QED
      BY <1>3, <3>1, <3>2 DEF CollectTypeOK, ReadFinal, Types
  <2> QED
    BY <1>3, <2>1, <2>2, <2>3, <2>4 DEF CollectTypeOK, ReadFinal, taskVars, given,
                                        engineVars
<1>4. CASE ReadEnd
  BY <1>4, ReadTypes DEF CollectTypeOK, ReadEnd, taskVars, given, engineVars
<1> QED
  BY <1>2, <1>3, <1>4 DEF ReaderRuns

LEMMA TypesStep == CollectTypeOK /\ [Next]_vars => CollectTypeOK'
<1>1. CollectTypeOK /\ RequestStop => CollectTypeOK'
  BY DEF CollectTypeOK, RequestStop, given, engineVars, readerVars
<1>2. CollectTypeOK /\ UNCHANGED vars => CollectTypeOK'
  BY DEF CollectTypeOK, vars
<1> QED
  BY <1>1, <1>2, TaskTypes, EngineTypes, ReaderTypes DEF Next

-----------------------------------------------------------------------------
(* What is said, sent and read. *)

LEMMA WordType == ASSUME NEW m \in Delta PROVE Word(m) \in Text
  BY DEF Word, Delta, Text

LEMMA SaidType ==
  ASSUME NEW ch \in Seq(Delta)
  PROVE  Said(ch) \in Seq(Text) /\ Len(Said(ch)) = Len(ch)
<1>1. \A i \in 1..Len(ch) : Word(ch[i]) \in Text
  BY WordType
<1> QED
  BY <1>1 DEF Said

\* A delta that is sent is said after the others.
LEMMA SaidSent ==
  ASSUME NEW ch \in Seq(Delta), NEW m \in Delta
  PROVE  FlattenSeq(Said(Append(ch, m))) = FlattenSeq(Said(ch)) \o Word(m)
<1>1. Said(ch) \in Seq(Text) /\ Len(Said(ch)) = Len(ch) /\ Word(m) \in Text
  BY SaidType, WordType
<1>2. Said(Append(ch, m)) = Append(Said(ch), Word(m))
  <2> DEFINE s == Said(Append(ch, m))
             t == Append(Said(ch), Word(m))
  <2>1. Append(ch, m) \in Seq(Delta) /\ Len(Append(ch, m)) = Len(ch) + 1
        /\ Append(ch, m)[Len(ch) + 1] = m
        /\ \A i \in 1..Len(ch) : Append(ch, m)[i] = ch[i]
    OBVIOUS
  <2>2. s \in Seq(Text) /\ Len(s) = Len(ch) + 1
    BY <2>1, SaidType
  <2>3. \A i \in 1..Len(ch) + 1 : s[i] = Word(Append(ch, m)[i])
    BY <2>1 DEF Said
  <2>4. t \in Seq(Text) /\ Len(t) = Len(ch) + 1 /\ t[Len(ch) + 1] = Word(m)
        /\ \A i \in 1..Len(ch) : t[i] = Said(ch)[i]
    BY <1>1
  <2>5. \A i \in 1..Len(ch) : Said(ch)[i] = Word(ch[i])
    BY DEF Said
  <2> HIDE DEF s, t
  <2>6. \A i \in 1..Len(ch) + 1 : s[i] = t[i]
    <3> SUFFICES ASSUME NEW i \in 1..Len(ch) + 1 PROVE s[i] = t[i]
      OBVIOUS
    <3>1. CASE i = Len(ch) + 1
      BY <2>1, <2>3, <2>4, <3>1
    <3>2. CASE i # Len(ch) + 1
      <4>1. i \in 1..Len(ch)
        BY <3>2
      <4> QED
        BY <2>1, <2>3, <2>4, <2>5, <4>1
    <3> QED
      BY <3>1, <3>2
  <2>7. s = t
    BY <2>2, <2>4, <2>6, SeqEqual
  <2> QED
    BY <2>7 DEF s, t
<1> QED
  BY <1>1, <1>2, FlattenAppend DEF Text

\* The delta that is read is said before the others.
LEMMA SaidRead ==
  ASSUME NEW ch \in Seq(Delta), ch # <<>>
  PROVE  FlattenSeq(Said(ch)) = Word(Head(ch)) \o FlattenSeq(Said(Tail(ch)))
<1>1. Said(ch) \in Seq(Text) /\ Len(Said(ch)) = Len(ch) /\ Len(ch) # 0
  BY SaidType
<1>2. Said(ch) # <<>> /\ Head(Said(ch)) = Word(Head(ch))
  BY <1>1 DEF Said
<1>3. Tail(Said(ch)) = Said(Tail(ch))
  <2> DEFINE s == Tail(Said(ch))
             t == Said(Tail(ch))
  <2>1. Tail(ch) \in Seq(Delta) /\ Len(Tail(ch)) = Len(ch) - 1
        /\ \A i \in 1..Len(ch) - 1 : Tail(ch)[i] = ch[i + 1]
    OBVIOUS
  <2>2. s \in Seq(Text) /\ Len(s) = Len(ch) - 1
        /\ \A i \in 1..Len(ch) - 1 : s[i] = Said(ch)[i + 1]
    BY <1>1, <1>2
  <2>3. t \in Seq(Text) /\ Len(t) = Len(ch) - 1
    BY <2>1, SaidType
  <2>4. ASSUME NEW i \in 1..Len(ch) - 1 PROVE s[i] = t[i]
    <3>1. i + 1 \in 1..Len(ch) /\ i \in 1..Len(Tail(ch))
      BY <2>1
    <3>2. t[i] = Word(Tail(ch)[i])
      BY <3>1 DEF Said
    <3>3. Said(ch)[i + 1] = Word(ch[i + 1])
      BY <3>1 DEF Said
    <3> HIDE DEF s, t
    <3> QED
      BY <2>1, <2>2, <3>2, <3>3
  <2> HIDE DEF s, t
  <2>5. s = t
    BY <2>2, <2>3, <2>4, SeqEqual
  <2> QED
    BY <2>5 DEF s, t
<1> QED
  BY <1>1, <1>2, <1>3, FlattenTail DEF Text

\* Texts, concatenated.
LEMMA Concat ==
  /\ \A a, b \in Text : a \o b \in Text
  /\ \A a, b, c \in Text : (a \o b) \o c = a \o (b \o c)
  /\ \A a \in Text : a \o <<>> = a /\ <<>> \o a = a
  /\ <<>> \in Text
  BY DEF Text

\* The types of the total and of its parts.
LEMMA TotalTypes ==
  ASSUME CollectTypeOK
  PROVE  /\ FlattenSeq(finals) \in Text /\ FlattenSeq(Said(channel)) \in Text
         /\ partial \in Text /\ Total \in Text
<1>1. FlattenSeq(finals) \in Text
  BY FlattenType DEF CollectTypeOK, Text
<1>2. FlattenSeq(Said(channel)) \in Text
  <2>1. Said(channel) \in Seq(Text)
    BY SaidType DEF CollectTypeOK
  <2> QED
    BY <2>1, FlattenType DEF Text
<1>3. partial \in Text
  BY DEF CollectTypeOK
<1> QED
  BY <1>1, <1>2, <1>3, Concat DEF Total

\* An engine that sends a delta and keeps a sentence adds both to the total.
LEMMA TotalSent ==
  ASSUME CollectTypeOK, NEW k \in {"Partial", "Final", "Err"}, NEW t \in Text,
         Send(k, t), finals' = finals, partial' \in Text
  PROVE  LET w == IF k = "Final" THEN t ELSE <<>>
         IN  Total' = (FlattenSeq(finals) \o FlattenSeq(Said(channel))) \o (w \o partial')
<1> DEFINE m == [kind |-> k, text |-> t]
           w == IF k = "Final" THEN t ELSE <<>>
           F == FlattenSeq(finals)
           C == FlattenSeq(Said(channel))
<1>1. m \in Delta /\ Word(m) = w /\ w \in Text
  BY Concat DEF Delta, Word
<1>2. channel \in Seq(Delta) /\ channel' = Append(channel, m)
  BY DEF CollectTypeOK, Send
<1>3. FlattenSeq(Said(channel')) = C \o w
  BY <1>1, <1>2, SaidSent
<1>4. F \in Text /\ C \in Text
  BY TotalTypes
<1>5. Total' = (F \o (C \o w)) \o partial'
  BY <1>3 DEF Total
<1> HIDE DEF m, w, F, C
<1>6. (F \o (C \o w)) \o partial' = (F \o C) \o (w \o partial')
  <2>1. F \o (C \o w) = (F \o C) \o w
    BY <1>1, <1>4, Concat, Zenon
  <2>2. F \o C \in Text
    BY <1>4, Concat, Zenon
  <2>3. ((F \o C) \o w) \o partial' = (F \o C) \o (w \o partial')
    BY <1>1, <2>2, Concat, Zenon
  <2> QED
    BY <2>1, <2>3
<1> QED
  BY <1>5, <1>6 DEF w, F, C

\* A reader that takes a final leaves the total as it was.
LEMMA TotalRead ==
  ASSUME CollectTypeOK, channel # <<>>, channel' = Tail(channel), partial' = partial,
         Head(channel) \in Delta,
         \/ Head(channel).kind = "Final" /\ finals' = Append(finals, Head(channel).text)
         \/ Head(channel).kind # "Final" /\ finals' = finals
  PROVE  Total' = Total
<1> DEFINE w == Word(Head(channel))
           F == FlattenSeq(finals)
           R == FlattenSeq(Said(Tail(channel)))
<1>1. FlattenSeq(Said(channel)) = w \o R
  BY SaidRead DEF CollectTypeOK
<1>2. F \in Text /\ w \in Text /\ R \in Text
  <2>1. Tail(channel) \in Seq(Delta)
    BY DEF CollectTypeOK
  <2>2. Said(Tail(channel)) \in Seq(Text)
    BY <2>1, SaidType
  <2>3. R \in Text
    BY <2>2, FlattenType DEF Text
  <2> QED
    BY <2>3, TotalTypes, WordType
<1>3. FlattenSeq(finals') = F \o w
  <2>1. CASE Head(channel).kind = "Final"
    <3>1. finals' = Append(finals, w) /\ finals \in Seq(Text)
      BY <2>1 DEF Word, CollectTypeOK
    <3> QED
      BY <1>2, <3>1, FlattenAppend DEF Text
  <2>2. CASE Head(channel).kind # "Final"
    <3>1. finals' = finals /\ w = <<>>
      BY <2>2 DEF Word
    <3>2. F \o <<>> = F
      BY <1>2, Concat
    <3> QED
      BY <3>1, <3>2
  <2> QED
    BY <2>1, <2>2
<1>4. Total' = ((F \o w) \o R) \o partial
  BY <1>3 DEF Total
<1>5. Total = (F \o (w \o R)) \o partial
  BY <1>1 DEF Total
<1> HIDE DEF w, F, R
<1>6. (F \o w) \o R = F \o (w \o R)
  BY <1>2, Concat, Zenon
<1> QED
  BY <1>4, <1>5, <1>6

\* A prefix, entry by entry.
LEMMA PrefixByEntries ==
  ASSUME NEW a \in Text, NEW f \in Text
  PROVE  IsPrefix(a, f) <=> Len(a) <= Len(f) /\ \A i \in 1..Len(a) : a[i] = f[i]
<1>1. ASSUME IsPrefix(a, f), NEW i \in 1..Len(a) PROVE a[i] = f[i]
  <2>1. SubSeq(a, 1, Len(a))[i] = a[i]
    BY DEF Text
  <2>2. SubSeq(f, 1, Len(a))[i] = f[i]
    BY <1>1 DEF Text, IsPrefix
  <2> QED
    BY <1>1, <2>1, <2>2 DEF IsPrefix
<1>2. ASSUME Len(a) <= Len(f), \A i \in 1..Len(a) : a[i] = f[i] PROVE IsPrefix(a, f)
  <2> DEFINE s == SubSeq(a, 1, Len(a))
             t == SubSeq(f, 1, Len(a))
  <2>1. s \in Text /\ Len(s) = Len(a) /\ \A i \in 1..Len(a) : s[i] = a[i]
    BY DEF Text
  <2>2. t \in Text /\ Len(t) = Len(a) /\ \A i \in 1..Len(a) : t[i] = f[i]
    BY <1>2 DEF Text
  <2> HIDE DEF s, t
  <2>3. s = t
    BY <1>2, <2>1, <2>2, SeqEqual DEF Text
  <2> QED
    BY <1>2, <2>3 DEF IsPrefix, s, t
<1>3. IsPrefix(a, f) => Len(a) <= Len(f)
  BY DEF IsPrefix
<1> QED
  BY <1>1, <1>2, <1>3

LEMMA PrefixFacts ==
  /\ \A a \in Text : IsPrefix(<<>>, a) /\ IsPrefix(a, a)
  /\ \A a \in Text, c \in Chars : IsPrefix(a, Append(a, c))
  /\ \A a, b, c \in Text : IsPrefix(a, b) /\ IsPrefix(b, c) => IsPrefix(a, c)
  /\ \A a \in Text : IsPrefix(a, <<>>) => a = <<>>
<1>1. <<>> \in Text /\ Len(<<>>) = 0
  BY DEF Text
<1>2. ASSUME NEW a \in Text PROVE IsPrefix(<<>>, a) /\ IsPrefix(a, a)
  <2>1. Len(a) \in Nat
    BY DEF Text
  <2> QED
    BY <1>1, <2>1, PrefixByEntries
<1>3. ASSUME NEW a \in Text, NEW c \in Chars PROVE IsPrefix(a, Append(a, c))
  <2>1. Append(a, c) \in Text /\ Len(a) <= Len(Append(a, c))
        /\ \A i \in 1..Len(a) : a[i] = Append(a, c)[i]
    BY DEF Text
  <2> QED
    BY <2>1, PrefixByEntries
<1>4. ASSUME NEW a \in Text, NEW b \in Text, NEW c \in Text, IsPrefix(a, b), IsPrefix(b, c)
      PROVE  IsPrefix(a, c)
  <2>1. Len(a) <= Len(b) /\ Len(b) <= Len(c) /\ Len(a) \in Nat /\ Len(b) \in Nat
        /\ Len(c) \in Nat
    BY <1>4, PrefixByEntries DEF Text
  <2>2. \A i \in 1..Len(a) : a[i] = b[i] /\ i \in 1..Len(b) /\ b[i] = c[i]
    BY <1>4, <2>1, PrefixByEntries
  <2> QED
    BY <2>1, <2>2, PrefixByEntries
<1>5. ASSUME NEW a \in Text, IsPrefix(a, <<>>) PROVE a = <<>>
  BY <1>1, <1>5 DEF Text, IsPrefix
<1> QED
  BY <1>2, <1>3, <1>4, <1>5

-----------------------------------------------------------------------------
(* Where the engine and the reader are. *)

LEMMA BackendsAre == Backends \subseteq {"service", "online", "offline", "rest", "chat"}
  BY DEF Backends, ProviderKind, RoutingConnect, SherpaConnect

LEMMA EngineInvInit == Init => EngineInv /\ ReaderInv
<1>1. Init => Len(channel) = 0
  BY DEF Init
<1> QED
  BY <1>1, BackendsAre DEF Init, EngineInv, ReaderInv, Joined, InSession, Ended

LEMMA EngineInvStep == CollectTypeOK /\ EngineInv /\ [Next]_vars => EngineInv'
<1> SUFFICES ASSUME CollectTypeOK, EngineInv, [Next]_vars PROVE EngineInv'
  OBVIOUS
<1> USE DEF Ended, InSession
<1>0. backend \in {"service", "online", "offline", "rest", "chat"} /\ task \in TaskStep
  BY BackendsAre DEF CollectTypeOK
<1>1. CASE Connect
  BY <1>0, <1>1 DEF Connect, Fail, given, EngineInv
<1>2. CASE StartAudio \/ CheckStop \/ StopAudio
  BY <1>0, <1>2 DEF StartAudio, CheckStop, StopAudio, Fail, given, engineVars, readerVars,
                    EngineInv
<1>3. CASE NextFrame
  BY <1>0, <1>3 DEF NextFrame, Fail, given, engineVars, readerVars, EngineInv
<1>4. CASE FinishService \/ FinishThread
  BY <1>0, <1>4 DEF FinishService, FinishThread, Fail, given, engineVars, readerVars,
                    EngineInv
<1>5. CASE FinishRest \/ FinishChat
  BY <1>0, <1>5 DEF FinishRest, FinishChat, Answered, Fail, given, readerVars, EngineInv
<1>6. CASE Join
  BY <1>0, <1>6 DEF Join, given, engineVars, readerVars, EngineInv
<1>7. CASE RequestStop
  BY <1>7 DEF RequestStop, given, engineVars, readerVars, EngineInv
<1>8. CASE Hear \/ EndSentence
  BY <1>0, <1>8 DEF Hear, EndSentence, Streams, taskVars, given, readerVars, EngineInv
<1>9. CASE Flush
  BY <1>0, <1>9 DEF Flush, Streams, taskVars, given, readerVars, EngineInv
<1>10. CASE DecodeWhole \/ Break
  BY <1>0, <1>10 DEF DecodeWhole, Break, taskVars, given, readerVars, EngineInv
<1>11. CASE ReaderRuns
  BY <1>0, <1>11 DEF ReaderRuns, ReadPartial, ReadFinal, ReadEnd, Reads, taskVars, given,
                     engineVars, EngineInv
<1>12. CASE UNCHANGED vars
  BY <1>12 DEF vars, EngineInv
<1> QED
  BY <1>1, <1>2, <1>3, <1>4, <1>5, <1>6, <1>7, <1>8, <1>9, <1>10, <1>11, <1>12
     DEF Next, TaskRuns, Finish, EngineAnswers

\* What is sent is an error only when the engine breaks off with it.
LEMMA ErrSent ==
  ASSUME CollectTypeOK, NEW k, NEW t, Send(k, t), k = "Err" => engine' = "broken",
         engine = "broken" => engine' = "broken",
         \A i \in 1..Len(channel) : channel[i].kind = "Err" => engine = "broken"
  PROVE  \A i \in 1..Len(channel') : channel'[i].kind = "Err" => engine' = "broken"
<1> DEFINE m == [kind |-> k, text |-> t]
<1>1. channel \in Seq(Delta) /\ channel' = Append(channel, m)
  BY DEF CollectTypeOK, Send
<1>2. Len(channel') = Len(channel) + 1 /\ channel'[Len(channel) + 1] = m
      /\ (\A i \in 1..Len(channel) : channel'[i] = channel[i]) /\ Len(channel) \in Nat
  BY <1>1
<1> SUFFICES ASSUME NEW i \in 1..Len(channel'), channel'[i].kind = "Err"
             PROVE  engine' = "broken"
  OBVIOUS
<1>3. CASE i = Len(channel) + 1
  BY <1>2, <1>3
<1>4. CASE i # Len(channel) + 1
  <2>1. i \in 1..Len(channel)
    BY <1>2, <1>4
  <2> QED
    BY <1>2, <2>1
<1> QED
  BY <1>3, <1>4

LEMMA ErrRead ==
  ASSUME CollectTypeOK, channel # <<>>, channel' = Tail(channel), engine' = engine,
         \A i \in 1..Len(channel) : channel[i].kind = "Err" => engine = "broken"
  PROVE  /\ \A i \in 1..Len(channel') : channel'[i].kind = "Err" => engine' = "broken"
         /\ Head(channel).kind = "Err" => engine = "broken"
<1>1. channel \in Seq(Delta)
  BY DEF CollectTypeOK
<1>2. Len(channel') = Len(channel) - 1 /\ Len(channel) \in Nat /\ Len(channel) # 0
      /\ (\A i \in 1..Len(channel) - 1 : channel'[i] = channel[i + 1])
      /\ Head(channel) = channel[1]
  BY <1>1
<1>3. \A i \in 1..Len(channel) - 1 : i + 1 \in 1..Len(channel)
  BY <1>2
<1>4. 1 \in 1..Len(channel)
  BY <1>2
<1> QED
  BY <1>2, <1>3, <1>4

LEMMA ReaderInvStep ==
  CollectTypeOK /\ EngineInv /\ ReaderInv /\ [Next]_vars => ReaderInv'
<1> SUFFICES ASSUME CollectTypeOK, EngineInv, ReaderInv, [Next]_vars PROVE ReaderInv'
  OBVIOUS
<1> DEFINE Errs == \A i \in 1..Len(channel) : channel[i].kind = "Err" => engine = "broken"
           Through == reader = "done" =>
                        engine = "broken" \/ (channel = <<>> /\ SenderDropped)
<1> USE DEF Ended, InSession
<1>0. backend \in {"service", "online", "offline", "rest", "chat"} /\ task \in TaskStep
      /\ channel \in Seq(Delta)
  BY BackendsAre DEF CollectTypeOK
<1>00. Errs /\ Through
  BY DEF ReaderInv
<1>01. Joined'
  BY JoinedStep DEF ReaderInv
<1>1. CASE Connect
  <2>1. Errs'
    BY <1>00, <1>1 DEF Connect, EngineInv
  <2>2. Through'
    BY <1>0, <1>00, <1>1 DEF Connect, SenderDropped, Fail, given, EngineInv
  <2> QED
    BY <1>01, <2>1, <2>2 DEF ReaderInv
<1>2. CASE StartAudio \/ CheckStop \/ NextFrame \/ StopAudio \/ FinishService
           \/ FinishThread \/ Join \/ RequestStop
  <2>1. UNCHANGED <<channel, engine, reader, backend>>
    BY <1>2 DEF StartAudio, CheckStop, NextFrame, StopAudio, FinishService, FinishThread,
                Join, RequestStop, given, engineVars, readerVars
  <2>2. Errs'
    BY <1>00, <2>1
  <2>3. task \in Ended => task' \in Ended
    BY <1>2 DEF StartAudio, CheckStop, NextFrame, StopAudio, FinishService, FinishThread,
                Join, RequestStop
  <2>4. Through'
    BY <1>00, <2>1, <2>3 DEF SenderDropped
  <2> QED
    BY <1>01, <2>2, <2>4 DEF ReaderInv
<1>3. CASE FinishRest \/ FinishChat
  <2>1. Answered /\ backend \in InSession /\ task = "finish" /\ engine = "none"
    BY <1>3 DEF FinishRest, FinishChat, EngineInv
  <2>2. Errs'
    <3>1. CASE UNCHANGED <<channel, engine>>
      BY <1>00, <3>1
    <3>2. ASSUME NEW t, Send("Final", t) PROVE Errs'
      BY <1>00, <2>1, <3>2, ErrSent
    <3> QED
      BY <2>1, <3>1, <3>2 DEF Answered
  <2>3. Through'
    BY <1>00, <2>1 DEF Answered, SenderDropped, readerVars
  <2> QED
    BY <1>01, <2>2, <2>3 DEF ReaderInv
<1>4. CASE Hear \/ EndSentence \/ Flush \/ DecodeWhole \/ Break
  <2>1. engine = "open" /\ backend \notin InSession /\ UNCHANGED <<reader, backend>>
    BY <1>0, <1>4 DEF Hear, EndSentence, Flush, DecodeWhole, Break, Streams, taskVars,
                      given, readerVars
  <2>2. reader # "done"
    BY <1>00, <2>1 DEF SenderDropped
  <2>3. Errs'
    <3>1. CASE UNCHANGED channel
      BY <1>00, <2>1, <3>1
    <3>2. ASSUME NEW k, NEW t, Send(k, t), k = "Err" => engine' = "broken" PROVE Errs'
      BY <1>00, <2>1, <3>2, ErrSent
    <3> QED
      BY <1>4, <3>1, <3>2 DEF Hear, EndSentence, Flush, DecodeWhole, Break
  <2> QED
    BY <1>01, <2>1, <2>2, <2>3 DEF ReaderInv
<1>5. CASE ReaderRuns
  <2>1. UNCHANGED <<engine, backend, task>> /\ reader = "reading"
        /\ (channel' = channel \/ (channel # <<>> /\ channel' = Tail(channel)))
    BY <1>5 DEF ReaderRuns, ReadPartial, ReadFinal, ReadEnd, Reads, taskVars, given,
                engineVars
  <2>2. Errs'
    BY <1>00, <2>1, ErrRead
  <2>3. Through'
    <3>1. CASE ReadPartial \/ ReadFinal
      BY <2>1, <3>1 DEF ReadPartial, ReadFinal, readerVars
    <3>2. CASE ReadEnd
      <4>1. CASE Reads("Err")
        BY <1>00, <2>1, <4>1, ErrRead DEF Reads
      <4>2. CASE reader = "reading" /\ channel = <<>> /\ SenderDropped /\ UNCHANGED channel
        BY <2>1, <4>2 DEF SenderDropped
      <4> QED
        BY <3>2, <4>1, <4>2 DEF ReadEnd
    <3> QED
      BY <1>5, <3>1, <3>2 DEF ReaderRuns
  <2> QED
    BY <1>01, <2>2, <2>3 DEF ReaderInv
<1>6. CASE UNCHANGED vars
  BY <1>6 DEF vars, ReaderInv, Joined, SenderDropped
<1> QED
  BY <1>1, <1>2, <1>3, <1>4, <1>5, <1>6 DEF Next, TaskRuns, Finish, EngineAnswers

-----------------------------------------------------------------------------
(* What is heard is what was said. *)

\* The heard part of what was fed does not change with what is fed later.
LEMMA FedLater ==
  ASSUME NEW f \in Text, NEW n \in 0..Len(f), NEW c \in Chars
  PROVE  SubSeq(Append(f, c), 1, n) = SubSeq(f, 1, n)
  BY DEF Text

LEMMA OneMoreHeard ==
  ASSUME NEW f \in Text, NEW n \in Nat, n < Len(f)
  PROVE  SubSeq(f, 1, n + 1) = Append(SubSeq(f, 1, n), f[n + 1])
  BY DEF Text

LEMMA KeptType == CollectTypeOK => Kept \in 0..Len(fed) /\ fed \in Text /\ heard \in Nat
  BY DEF CollectTypeOK, Kept, Text

LEMMA ConservedInit == Init => Conserved
<1> SUFFICES ASSUME Init PROVE Conserved
  OBVIOUS
<1>1. Said(channel) = <<>> /\ finals = <<>> /\ partial = <<>> /\ fed = <<>> /\ Kept = 0
  BY DEF Init, Said, Kept
<1>2. Total = <<>>
  BY <1>1, FlattenEmpty DEF Total
<1> QED
  BY <1>1, <1>2 DEF Conserved

\* The total does not change when nothing of it does.
LEMMA TotalKept ==
  UNCHANGED <<finals, channel, partial>> => Total' = Total
  BY DEF Total, Said, Word

\* A final with everything that was fed, of an engine that had said nothing, or
\* with nothing.
LEMMA WholeSaid ==
  ASSUME CollectTypeOK, Conserved, heard = 0, partial = <<>>, finals' = finals,
         partial' = partial, fed' = fed, backend' = backend, backend # "service",
         \/ Send("Final", fed) /\ engine' # "broken" /\ heard' = Len(fed)
         \/ Send("Final", <<>>) /\ engine' = "broken"
  PROVE  Conserved'
<1> DEFINE X == FlattenSeq(finals) \o FlattenSeq(Said(channel))
<1>1. Kept = 0 /\ fed \in Text
  BY KeptType DEF Kept
<1>2. X \in Text /\ X \o <<>> = X
  BY TotalTypes, Concat
<1>3. X = <<>>
  <2>1. Total = X /\ Total = SubSeq(fed, 1, 0)
    BY <1>1, <1>2 DEF Total, Conserved
  <2>2. SubSeq(fed, 1, 0) = <<>>
    BY <1>1 DEF Text
  <2> QED
    BY <2>1, <2>2
<1>4. CASE Send("Final", fed) /\ engine' # "broken" /\ heard' = Len(fed)
  <2>1. Total' = X \o (fed \o <<>>)
    BY <1>1, <1>4, TotalSent, Concat
  <2>2. <<>> \o (fed \o <<>>) = fed /\ SubSeq(fed, 1, Len(fed)) = fed
    BY <1>1 DEF Text
  <2>3. Kept' = Len(fed)
    BY <1>4 DEF Kept
  <2> QED
    BY <1>3, <2>1, <2>2, <2>3 DEF Conserved
<1>5. CASE Send("Final", <<>>) /\ engine' = "broken"
  <2>1. Total' = X \o (<<>> \o <<>>)
    BY <1>1, <1>5, TotalSent, Concat
  <2>2. <<>> \o (<<>> \o <<>>) = <<>> /\ SubSeq(fed, 1, 0) = <<>>
    BY <1>1 DEF Text
  <2>3. Kept' = 0
    BY <1>5 DEF Kept
  <2> QED
    BY <1>3, <2>1, <2>2, <2>3 DEF Conserved
<1> QED
  BY <1>4, <1>5

LEMMA ConservedStep == CollectTypeOK /\ EngineInv /\ Conserved /\ [Next]_vars => Conserved'
<1> SUFFICES ASSUME CollectTypeOK, EngineInv, Conserved, [Next]_vars PROVE Conserved'
  OBVIOUS
<1> DEFINE X == FlattenSeq(finals) \o FlattenSeq(Said(channel))
<1>0. fed \in Text /\ partial \in Text /\ X \in Text /\ <<>> \in Text /\ Len(fed) \in Nat
      /\ heard \in 0..Len(fed) /\ Kept \in 0..Len(fed)
  BY TotalTypes, Concat, KeptType DEF CollectTypeOK, Text
<1>1. CASE Connect
  <2>1. UNCHANGED <<finals, channel, partial, heard, fed, backend>> /\ engine = "none"
        /\ engine' # "broken"
    BY <1>1 DEF Connect, given, EngineInv
  <2> QED
    BY <2>1, TotalKept DEF Conserved, Kept
<1>2. CASE StartAudio \/ CheckStop \/ StopAudio \/ FinishService \/ FinishThread \/ Join
           \/ RequestStop
  <2>1. UNCHANGED <<finals, channel, partial, heard, fed, backend, engine>>
    BY <1>2 DEF StartAudio, CheckStop, StopAudio, FinishService, FinishThread, Join,
                RequestStop, given, engineVars, readerVars
  <2> QED
    BY <2>1, TotalKept DEF Conserved, Kept
<1>3. CASE NextFrame
  <2>1. UNCHANGED <<finals, channel, partial, heard, backend, engine>>
        /\ (fed' = fed \/ \E c \in Chars : fed' = Append(fed, c))
    BY <1>3 DEF NextFrame, given, engineVars, readerVars
  <2>2. Total' = Total /\ Kept' = Kept
    BY <2>1, TotalKept DEF Kept
  <2>3. SubSeq(fed', 1, Kept) = SubSeq(fed, 1, Kept)
    BY <1>0, <2>1, FedLater
  <2> QED
    BY <2>2, <2>3 DEF Conserved
<1>4. CASE FinishRest \/ FinishChat
  <2>1. /\ Answered /\ backend \in InSession /\ partial = <<>> /\ engine = "none"
        /\ heard = 0 /\ UNCHANGED <<finals, partial, fed, backend>>
    BY <1>4 DEF FinishRest, FinishChat, Answered, given, readerVars, EngineInv, InSession,
                Ended
  <2>2. CASE Send("Final", fed) /\ task' = "join" /\ UNCHANGED engine
    <3>1. heard' = Len(fed) /\ engine' # "broken" /\ backend # "service"
      BY <2>1, <2>2 DEF Answered, InSession
    <3> QED
      BY <2>1, <2>2, <3>1, WholeSaid
  <2>3. CASE Send("Final", <<>>) /\ engine' = "broken"
    BY <2>1, <2>3, WholeSaid DEF InSession
  <2>4. CASE Fail /\ UNCHANGED <<channel, engine>>
    <3>1. heard' = heard
      BY <2>1, <2>4 DEF Answered, Fail
    <3> QED
      BY <2>1, <2>4, <3>1, TotalKept DEF Conserved, Kept
  <2> QED
    BY <2>1, <2>2, <2>3, <2>4 DEF Answered
<1>5. CASE Hear
  <2>1. /\ engine = "open" /\ heard < Len(fed) /\ heard' = heard + 1
        /\ partial' = Append(partial, fed[heard + 1]) /\ Send("Partial", partial')
        /\ UNCHANGED <<engine, finals, fed, backend>>
    BY <1>5 DEF Hear, Streams, taskVars, given, readerVars
  <2>2. fed[heard + 1] \in Chars /\ partial' \in Text
    BY <1>0, <2>1 DEF Text
  <2>3. Total' = X \o (<<>> \o partial')
    BY <1>0, <2>1, <2>2, TotalSent
  <2>4. X \o (<<>> \o partial') = Append(X \o partial, fed[heard + 1])
    <3> HIDE DEF X
    <3> QED
      BY <1>0, <2>1, <2>2 DEF Text
  <2>5. X \o partial = SubSeq(fed, 1, heard)
    BY <2>1 DEF Conserved, Total, Kept
  <2>6. SubSeq(fed, 1, heard + 1) = Append(SubSeq(fed, 1, heard), fed[heard + 1])
    BY <1>0, <2>1, OneMoreHeard
  <2>7. Kept' = heard + 1
    BY <2>1 DEF Kept
  <2> QED
    BY <2>1, <2>3, <2>4, <2>5, <2>6, <2>7 DEF Conserved
<1>6. CASE EndSentence \/ Flush
  <2>1. engine = "open" /\ UNCHANGED <<heard, finals, fed, backend>> /\ partial' = <<>>
        /\ engine' # "broken"
        /\ (Send("Final", partial) \/ (partial = <<>> /\ UNCHANGED channel))
    BY <1>6 DEF EndSentence, Flush, Streams, taskVars, given, readerVars
  <2>2. Total' = Total
    <3>1. CASE partial = <<>> /\ UNCHANGED channel
      BY <2>1, <3>1, TotalKept
    <3>2. CASE Send("Final", partial)
      <4>1. Total' = X \o (partial \o <<>>)
        BY <1>0, <2>1, <3>2, TotalSent
      <4>2. partial \o <<>> = partial
        BY <1>0, Concat
      <4> QED
        BY <4>1, <4>2 DEF Total
    <3> QED
      BY <2>1, <3>1, <3>2
  <2>3. Kept' = heard /\ Kept = heard
    BY <2>1 DEF Kept
  <2> QED
    BY <2>1, <2>2, <2>3 DEF Conserved
<1>7. CASE DecodeWhole
  <2>1. heard = 0 /\ partial = <<>> /\ backend # "service" /\ heard' = Len(fed)
        /\ UNCHANGED <<finals, partial, fed, backend>>
    BY <1>7 DEF DecodeWhole, EngineInv, taskVars, given, readerVars
  <2> QED
    BY <1>7, <2>1, WholeSaid DEF DecodeWhole
<1>8. CASE Break
  <2>1. engine = "open" /\ backend = "service" /\ UNCHANGED <<heard, finals, partial, fed, backend>>
        /\ (Send("Err", <<>>) \/ UNCHANGED channel)
    BY <1>8 DEF Break, taskVars, given, readerVars
  <2>2. Total' = Total
    <3>1. CASE UNCHANGED channel
      BY <2>1, <3>1, TotalKept
    <3>2. CASE Send("Err", <<>>)
      <4>1. Total' = X \o (<<>> \o partial)
        BY <1>0, <2>1, <3>2, TotalSent
      <4>2. <<>> \o partial = partial
        BY <1>0, Concat
      <4> QED
        BY <4>1, <4>2 DEF Total
    <3> QED
      BY <2>1, <3>1, <3>2
  <2>3. Kept' = Kept
    BY <2>1 DEF Kept
  <2> QED
    BY <2>1, <2>2, <2>3 DEF Conserved
<1>9. CASE ReaderRuns
  <2>1. UNCHANGED <<heard, partial, engine, fed, backend>>
    BY <1>9 DEF ReaderRuns, ReadPartial, ReadFinal, ReadEnd, taskVars, given, engineVars
  <2>2. Total' = Total
    <3>1. CASE ReadPartial
      BY <2>1, <3>1, ReadTypes, TotalRead DEF ReadPartial
    <3>2. CASE ReadFinal
      BY <2>1, <3>2, ReadTypes, TotalRead DEF ReadFinal
    <3>3. CASE ReadEnd
      <4>1. CASE Reads("Err")
        BY <2>1, <3>3, <4>1, ReadTypes, TotalRead DEF ReadEnd
      <4>2. CASE UNCHANGED channel
        BY <2>1, <3>3, <4>2, TotalKept DEF ReadEnd
      <4> QED
        BY <3>3, <4>1, <4>2 DEF ReadEnd
    <3> QED
      BY <1>9, <3>1, <3>2, <3>3 DEF ReaderRuns
  <2> QED
    BY <2>1, <2>2 DEF Conserved, Kept
<1>10. CASE UNCHANGED vars
  BY <1>10, TotalKept DEF vars, Conserved, Kept
<1> QED
  BY <1>1, <1>2, <1>3, <1>4, <1>5, <1>6, <1>7, <1>8, <1>9, <1>10
     DEF Next, TaskRuns, Finish, EngineAnswers

\* The invariant says what HeardInOrder says.
LEMMA HeardInvImplies == HeardInv => HeardInOrder
<1> SUFFICES ASSUME HeardInv PROVE HeardInOrder
  OBVIOUS
<1> DEFINE F == FlattenSeq(finals)
           R == FlattenSeq(Said(channel))
<1>1. CollectTypeOK /\ Conserved /\ EngineInv /\ ReaderInv
  BY DEF HeardInv
<1>2. F \in Text /\ R \in Text /\ partial \in Text /\ fed \in Text
      /\ Kept \in 0..Len(fed) /\ (F \o R) \o partial = SubSeq(fed, 1, Kept)
  BY <1>1, TotalTypes, KeptType DEF Conserved, Total
<1>3. FinalsArePrefix
  <2> HIDE DEF F, R
  <2>1. IsPrefix(F, fed)
    <3>1. F \o (R \o partial) = SubSeq(fed, 1, Kept) /\ R \o partial \in Text
      BY <1>2, Concat, Zenon
    <3>2. \A a, b, f \in Text : \A k \in 0..Len(f) :
            a \o b = SubSeq(f, 1, k) => IsPrefix(a, f)
      <4> SUFFICES ASSUME NEW a \in Text, NEW b \in Text, NEW f \in Text,
                          NEW k \in 0..Len(f), a \o b = SubSeq(f, 1, k)
                   PROVE  IsPrefix(a, f)
        OBVIOUS
      <4>1. Len(a \o b) = Len(a) + Len(b) /\ Len(SubSeq(f, 1, k)) = k
            /\ Len(a) \in Nat /\ Len(b) \in Nat /\ Len(f) \in Nat
        BY DEF Text
      <4>2. Len(a) <= k /\ Len(a) <= Len(f)
        BY <4>1
      <4>3. \A i \in 1..Len(a) : a[i] = (a \o b)[i] /\ SubSeq(f, 1, k)[i] = f[i]
        BY <4>1, <4>2 DEF Text
      <4>4. \A i \in 1..Len(a) : a[i] = f[i]
        BY <4>3
      <4> QED
        BY <4>2, <4>4, PrefixByEntries
    <3> QED
      BY <1>2, <3>1, <3>2
  <2> QED
    BY <2>1 DEF FinalsArePrefix, F
<1>4. AllHeard
  <2> SUFFICES ASSUME task = "ok", engine # "broken" PROVE F = fed
    BY DEF AllHeard
  <2>1. reader = "done" /\ channel = <<>> /\ SenderDropped
    BY <1>1 DEF ReaderInv, Joined
  <2>2. heard = Len(fed) /\ partial = <<>>
    <3>1. CASE backend \in InSession
      BY <1>1, <3>1 DEF EngineInv
    <3>2. CASE backend \notin InSession
      <4>1. engine \notin {"none", "open", "broken"}
        BY <1>1, <2>1, <3>2 DEF EngineInv, SenderDropped
      <4>2. engine = "closed"
        BY <1>1, <4>1 DEF CollectTypeOK
      <4> QED
        BY <1>1, <3>2, <4>2 DEF EngineInv
    <3> QED
      BY <3>1, <3>2
  <2>3. R = <<>>
    BY <2>1, FlattenEmpty DEF Said
  <2>4. Kept = Len(fed)
    BY <2>2 DEF Kept
  <2> HIDE DEF F, R
  <2>5. (F \o <<>>) \o <<>> = F /\ SubSeq(fed, 1, Len(fed)) = fed
    BY <1>2 DEF Text
  <2> QED
    BY <1>2, <2>2, <2>3, <2>4, <2>5
<1> QED
  BY <1>1, <1>3, <1>4 DEF HeardInOrder

LEMMA HeardInvariance == Spec => []HeardInv
<1>1. Init => HeardInv
  BY InitTypes, ConservedInit, EngineInvInit DEF HeardInv
<1>2. HeardInv /\ [Next]_vars => HeardInv'
  BY TypesStep, ConservedStep, EngineInvStep, ReaderInvStep DEF HeardInv
<1> QED
  BY <1>1, <1>2, PTL DEF Spec

\* Whichever engine hears it, wherever the sentences end, the stop comes and a
\* step fails: the finals are an initial stretch of what was fed, in order and
\* once, and all of it when the recording ends well and no engine left early
\* (HeardInOrder).
THEOREM RecordingIsHeardInOrder == Spec => []HeardInOrder
  BY HeardInvariance, HeardInvImplies, PTL

-----------------------------------------------------------------------------
(* What is on screen. *)

\* A delta that goes on with what is open is chained to the others.
LEMMA ChainSent ==
  ASSUME NEW ch \in Seq(Delta), NEW s \in Text, NEW p \in Text, NEW q \in Text,
         NEW m \in Delta, Chain(s, ch, p),
         m.kind # "Err" => IsPrefix(Before(s, ch, Len(ch) + 1), m.text),
         IsPrefix(IF m.kind = "Partial" THEN m.text ELSE <<>>, q)
  PROVE  Chain(s, Append(ch, m), q)
<1> DEFINE d == Append(ch, m)
           n == Len(ch)
<1>1. n \in Nat /\ Len(d) = n + 1 /\ d[n + 1] = m /\ \A i \in 1..n : d[i] = ch[i]
  OBVIOUS
<1> HIDE DEF d, n
<1>2. \A i \in 1..n + 1 : Before(s, d, i) = Before(s, ch, i)
  <2> SUFFICES ASSUME NEW i \in 1..n + 1 PROVE Before(s, d, i) = Before(s, ch, i)
    OBVIOUS
  <2>1. CASE i = 1
    BY <2>1 DEF Before
  <2>2. CASE i # 1
    <3>1. i - 1 \in 1..n
      BY <1>1, <2>2
    <3>2. d[i - 1] = ch[i - 1]
      BY <1>1, <3>1
    <3> QED
      BY <2>2, <3>2 DEF Before
  <2> QED
    BY <2>1, <2>2
<1>3. ASSUME NEW i \in 1..n + 1, d[i].kind # "Err"
      PROVE  IsPrefix(Before(s, d, i), d[i].text)
  <2>1. CASE i = n + 1
    BY <1>1, <1>2, <1>3, <2>1 DEF n
  <2>2. CASE i # n + 1
    <3>1. i \in 1..n
      BY <1>1, <2>2
    <3>2. d[i] = ch[i] /\ Before(s, d, i) = Before(s, ch, i)
      BY <1>1, <1>2, <3>1
    <3> QED
      BY <1>3, <3>1, <3>2 DEF Chain, n
  <2> QED
    BY <2>1, <2>2
<1>4. Before(s, d, (n + 1) + 1) = IF m.kind = "Partial" THEN m.text ELSE <<>>
  <2>1. (n + 1) + 1 # 1 /\ ((n + 1) + 1) - 1 = n + 1
    BY <1>1
  <2> QED
    BY <1>1, <2>1 DEF Before
<1>5. Chain(s, d, q)
  BY <1>1, <1>3, <1>4 DEF Chain
<1> QED
  BY <1>5 DEF d

\* When the first delta is taken, what it leaves on screen is what the next one
\* goes on with.
LEMMA ChainRead ==
  ASSUME NEW ch \in Seq(Delta), ch # <<>>, NEW s, NEW p, Chain(s, ch, p)
  PROVE  Chain(Before(s, ch, 2), Tail(ch), p)
<1> DEFINE d == Tail(ch)
           n == Len(ch)
           t == Before(s, ch, 2)
<1>1. n \in Nat /\ n # 0 /\ Len(d) = n - 1 /\ \A i \in 1..n - 1 : d[i] = ch[i + 1]
  OBVIOUS
<1>2. t = Before(s, ch, 2)
  OBVIOUS
<1> HIDE DEF d, n, t
<1>3. \A i \in 1..n : Before(t, d, i) = Before(s, ch, i + 1)
  <2> SUFFICES ASSUME NEW i \in 1..n PROVE Before(t, d, i) = Before(s, ch, i + 1)
    OBVIOUS
  <2>1. CASE i = 1
    <3>1. Before(t, d, i) = t
      BY <2>1 DEF Before
    <3>2. i + 1 = 2
      BY <2>1
    <3> QED
      BY <1>2, <3>1, <3>2
  <2>2. CASE i # 1
    <3>1. i - 1 \in 1..n - 1 /\ (i - 1) + 1 = (i + 1) - 1 /\ i + 1 # 1
      BY <1>1, <2>2
    <3>2. d[i - 1] = ch[(i + 1) - 1]
      BY <1>1, <3>1
    <3> QED
      BY <2>2, <3>1, <3>2 DEF Before
  <2> QED
    BY <2>1, <2>2
<1>4. ASSUME NEW i \in 1..n - 1, d[i].kind # "Err"
      PROVE  IsPrefix(Before(t, d, i), d[i].text)
  <2>1. i \in 1..n /\ i + 1 \in 1..n
    BY <1>1
  <2>2. d[i] = ch[i + 1] /\ Before(t, d, i) = Before(s, ch, i + 1)
    BY <1>1, <1>3, <2>1
  <2> QED
    BY <1>4, <2>1, <2>2 DEF Chain, n
<1>5. Before(t, d, (n - 1) + 1) = Before(s, ch, n + 1)
  <2>1. (n - 1) + 1 = n /\ n \in 1..n
    BY <1>1
  <2> QED
    BY <1>3, <2>1
<1>6. Chain(t, d, p)
  BY <1>1, <1>4, <1>5 DEF Chain, n
<1> QED
  BY <1>6 DEF d, t

\* The first delta goes on with what is on screen, and Before after it.
LEMMA ChainHead ==
  ASSUME NEW ch \in Seq(Delta), ch # <<>>, NEW s, NEW p, Chain(s, ch, p)
  PROVE  /\ Head(ch).kind # "Err" => IsPrefix(s, Head(ch).text)
         /\ Before(s, ch, 2) = IF Head(ch).kind = "Partial" THEN Head(ch).text ELSE <<>>
<1>1. Head(ch) = ch[1] /\ 1 \in 1..Len(ch) /\ 2 - 1 = 1 /\ 2 # 1
  OBVIOUS
<1> QED
  BY <1>1 DEF Chain, Before

LEMMA BeforeType ==
  ASSUME NEW ch \in Seq(Delta), NEW s \in Text
  PROVE  Before(s, ch, Len(ch) + 1) \in Text
<1>1. CASE Len(ch) = 0
  BY <1>1 DEF Before
<1>2. CASE Len(ch) # 0
  <2>1. (Len(ch) + 1) - 1 \in 1..Len(ch)
    BY <1>2
  <2>2. ch[(Len(ch) + 1) - 1] \in Delta
    BY <2>1
  <2> QED
    BY <1>2, <2>1, <2>2, Concat DEF Before, Delta
<1> QED
  BY <1>1, <1>2

LEMMA ScreenInvInit == Init => ScreenInv
<1> SUFFICES ASSUME Init PROVE ScreenInv
  OBVIOUS
<1>1. Len(channel) = 0 /\ <<>> \in Text /\ inserted = <<>> /\ partial = <<>>
  BY Concat DEF Init
<1>2. Chain(inserted, channel, partial)
  <2>1. IsPrefix(<<>>, <<>>)
    BY <1>1, PrefixFacts
  <2> QED
    BY <1>1, <2>1 DEF Chain, Before
<1> QED
  BY <1>1, <1>2, FlattenEmpty, Concat DEF Init, ScreenInv

\* A step of the engine that sends what goes on with its sentence.
LEMMA ScreenSent ==
  ASSUME CollectTypeOK, ScreenInv, NEW k \in {"Partial", "Final", "Err"}, NEW t \in Text,
         Send(k, t), partial' \in Text,
         UNCHANGED <<streaming, reader, finals, inserted, broken, screen, missed>>,
         k # "Err" => IsPrefix(partial, t),
         IsPrefix(IF k = "Partial" THEN t ELSE <<>>, partial')
  PROVE  ScreenInv'
<1> DEFINE m == [kind |-> k, text |-> t]
<1> SUFFICES ASSUME streaming, ~missed PROVE ScreenInv'
  BY DEF ScreenInv
<1>1. m \in Delta /\ m.kind = k /\ m.text = t /\ channel' = Append(channel, m)
      /\ channel \in Seq(Delta) /\ inserted \in Text /\ partial \in Text
  BY DEF Delta, Send, CollectTypeOK
<1> HIDE DEF m
<1>2. ASSUME reader # "done" PROVE Chain(inserted, channel', partial')
  <2>1. Chain(inserted, channel, partial)
    BY <1>2 DEF ScreenInv
  <2>2. k # "Err" => IsPrefix(Before(inserted, channel, Len(channel) + 1), t)
    BY <1>1, <2>1, BeforeType, PrefixFacts DEF Chain
  <2> QED
    BY <1>1, <2>1, <2>2, ChainSent
<1> QED
  BY <1>2 DEF ScreenInv

\* A step that leaves channel and sentence alone, and the screen too.
LEMMA ScreenKept ==
  ScreenInv
  /\ UNCHANGED <<streaming, channel, partial, reader, finals, inserted, broken, screen, missed>>
  => ScreenInv'
  BY DEF ScreenInv

LEMMA ScreenEngineStep ==
  CollectTypeOK /\ EngineInv /\ ScreenInv /\ (EngineAnswers \/ EndSentence \/ Break)
  => ScreenInv'
<1> SUFFICES ASSUME CollectTypeOK, EngineInv, ScreenInv, EngineAnswers \/ EndSentence \/ Break
             PROVE  ScreenInv'
  OBVIOUS
<1>0. <<>> \in Text /\ fed \in Text /\ partial \in Text /\ Len(fed) \in Nat
      /\ IsPrefix(partial, partial) /\ IsPrefix(<<>>, partial) /\ IsPrefix(<<>>, <<>>)
      /\ IsPrefix(<<>>, fed)
  <2>1. <<>> \in Text /\ fed \in Text /\ partial \in Text
    BY Concat DEF CollectTypeOK
  <2>2. Len(fed) \in Nat
    BY <2>1 DEF Text
  <2> QED
    BY <2>1, <2>2, PrefixFacts
<1>00. UNCHANGED <<streaming, reader, finals, inserted, broken, screen, missed>>
  BY DEF EngineAnswers, Hear, Flush, DecodeWhole, EndSentence, Break, taskVars, given,
         readerVars
<1>1. CASE Hear
  <2>1. fed[heard + 1] \in Chars
    <3>1. heard + 1 \in 1..Len(fed)
      BY <1>0, <1>1 DEF CollectTypeOK, Hear
    <3> QED
      BY <1>0, <3>1 DEF Text
  <2>2. partial' \in Text /\ IsPrefix(partial, partial')
    BY <1>0, <1>1, <2>1, PrefixFacts DEF Hear, Text
  <2>3. IsPrefix(partial', partial')
    BY <2>2, PrefixFacts
  <2>4. Send("Partial", partial')
    BY <1>1 DEF Hear
  <2> QED
    BY <1>00, <2>2, <2>3, <2>4, ScreenSent
<1>2. CASE EndSentence
  BY <1>0, <1>00, <1>2, ScreenSent DEF EndSentence
<1>3. CASE Flush
  BY <1>0, <1>00, <1>3, ScreenSent, ScreenKept DEF Flush
<1>4. CASE DecodeWhole
  <2>1. partial = <<>> /\ partial' = partial
    BY <1>4 DEF DecodeWhole, EngineInv
  <2> QED
    BY <1>0, <1>00, <1>4, <2>1, ScreenSent DEF DecodeWhole
<1>5. CASE Break
  BY <1>0, <1>00, <1>5, ScreenSent, ScreenKept DEF Break
<1> QED
  BY <1>1, <1>2, <1>3, <1>4, <1>5 DEF EngineAnswers

LEMMA ScreenTaskStep ==
  CollectTypeOK /\ EngineInv /\ ScreenInv /\ (TaskRuns \/ RequestStop) => ScreenInv'
<1> SUFFICES ASSUME CollectTypeOK, EngineInv, ScreenInv, TaskRuns \/ RequestStop
             PROVE  ScreenInv'
  OBVIOUS
<1>1. CASE Connect
  BY <1>1 DEF Connect, given, ScreenInv, EngineInv
<1>2. CASE StartAudio \/ CheckStop \/ NextFrame \/ StopAudio \/ FinishService
           \/ FinishThread \/ Join \/ RequestStop
  BY <1>2, ScreenKept DEF StartAudio, CheckStop, NextFrame, StopAudio, FinishService,
          FinishThread, Join, RequestStop, given, engineVars, readerVars
<1>3. CASE FinishRest \/ FinishChat
  <2>1. /\ Answered /\ partial = <<>> /\ partial' = partial
        /\ UNCHANGED <<streaming, reader, finals, inserted, broken, screen, missed>>
    BY <1>3 DEF FinishRest, FinishChat, Answered, given, readerVars, EngineInv, InSession
  <2>2. fed \in Text /\ <<>> \in Text /\ IsPrefix(<<>>, fed) /\ IsPrefix(<<>>, <<>>)
    BY Concat, PrefixFacts DEF CollectTypeOK
  <2>3. CASE Send("Final", fed)
    BY <2>1, <2>2, <2>3, ScreenSent
  <2>4. CASE Send("Final", <<>>)
    BY <2>1, <2>2, <2>4, ScreenSent
  <2>5. CASE UNCHANGED channel
    BY <2>1, <2>5, ScreenKept
  <2>6. Send("Final", fed) \/ Send("Final", <<>>) \/ UNCHANGED channel
    BY <2>1 DEF Answered
  <2> QED
    BY <2>3, <2>4, <2>5, <2>6
<1> QED
  BY <1>1, <1>2, <1>3 DEF TaskRuns, Finish

LEMMA ScreenReaderStep == CollectTypeOK /\ ScreenInv /\ ReaderRuns => ScreenInv'
<1> SUFFICES ASSUME CollectTypeOK, ScreenInv, ReaderRuns, streaming', ~missed'
             PROVE  ScreenInv'
  BY DEF ScreenInv
<1> DEFINE text == Head(channel).text
           F == FlattenSeq(finals)
<1>1. streaming /\ ~missed /\ reader = "reading" /\ partial' = partial
      /\ streaming' = streaming
  <2>1. streaming' = streaming /\ partial' = partial /\ reader = "reading"
    BY DEF ReaderRuns, ReadPartial, ReadFinal, ReadEnd, Reads, taskVars, given, engineVars
  <2>2. missed => missed'
    <3>1. \A d, ok, f : Types(d, ok, f) /\ missed => missed'
      BY DEF Types
    <3>2. CASE ReadPartial
      BY <3>1, <3>2 DEF ReadPartial
    <3>3. CASE ReadFinal
      BY <3>1, <3>3 DEF ReadFinal
    <3>4. CASE ReadEnd
      BY <3>4 DEF ReadEnd
    <3> QED
      BY <3>2, <3>3, <3>4 DEF ReaderRuns
  <2> QED
    BY <2>1, <2>2
<1>2. screen = F \o inserted /\ broken = <<>> /\ Chain(inserted, channel, partial)
  BY <1>1 DEF ScreenInv
<1>3. F \in Text /\ inserted \in Text /\ channel \in Seq(Delta) /\ <<>> \in Text
  BY TotalTypes, Concat DEF CollectTypeOK
<1>4. ASSUME NEW t \in Text, IsPrefix(inserted, t)
      PROVE  (F \o inserted) \o diff_prefix(inserted, t) = F \o t
  <2>1. inserted \o diff_prefix(inserted, t) = t
    BY <1>3, <1>4, DiffCompletes DEF Text
  <2>2. diff_prefix(inserted, t) \in Text
    BY <1>3, DiffType DEF Text
  <2>3. \A a, b, c \in Text : (a \o b) \o c = a \o (b \o c)
    BY Concat
  <2>4. (F \o inserted) \o diff_prefix(inserted, t) = F \o (inserted \o diff_prefix(inserted, t))
    BY <1>3, <2>2, <2>3, Zenon
  <2> QED
    BY <2>1, <2>4
<1>5. CASE ReadPartial
  <2>1. text \in Text /\ channel # <<>> /\ Head(channel).kind = "Partial"
        /\ channel' = Tail(channel)
    BY <1>5, ReadTypes DEF ReadPartial
  <2>2. IsPrefix(inserted, text) /\ Before(inserted, channel, 2) = text
        /\ Chain(text, channel', partial)
    BY <1>2, <1>3, <2>1, ChainHead, ChainRead
  <2>3. CASE diff_prefix(inserted, text) # <<>>
    <3>1. screen' = screen \o diff_prefix(inserted, text) /\ inserted' = text /\ broken' = <<>>
          /\ finals' = finals
      BY <1>1, <1>2, <1>5, <2>3 DEF ReadPartial, Types
    <3>2. screen' = F \o text
      BY <1>2, <1>4, <2>1, <2>2, <3>1
    <3> QED
      BY <1>1, <2>2, <3>1, <3>2 DEF ScreenInv
  <2>4. CASE diff_prefix(inserted, text) = <<>>
    <3>1. UNCHANGED <<inserted, broken, screen, missed, finals>>
      BY <1>5, <2>4 DEF ReadPartial
    <3>2. inserted = text
      <4>1. inserted \o <<>> = text
        BY <1>3, <2>1, <2>2, <2>4, DiffCompletes DEF Text
      <4> QED
        BY <1>3, <4>1, Concat
    <3> QED
      BY <1>1, <1>2, <2>2, <3>1, <3>2 DEF ScreenInv
  <2> QED
    BY <2>3, <2>4
<1>6. CASE ReadFinal
  <2>1. text \in Text /\ channel # <<>> /\ Head(channel).kind = "Final"
        /\ channel' = Tail(channel)
    BY <1>6, ReadTypes DEF ReadFinal
  <2>2. IsPrefix(inserted, text) /\ Before(inserted, channel, 2) = <<>>
        /\ Chain(<<>>, channel', partial)
    BY <1>2, <1>3, <2>1, ChainHead, ChainRead
  <2>3. screen' = screen \o diff_prefix(inserted, text) /\ inserted' = <<>> /\ broken' = <<>>
        /\ finals' = Append(finals, text)
    BY <1>1, <1>2, <1>6 DEF ReadFinal, Types
  <2>4. FlattenSeq(finals') = F \o text
    BY <2>1, <2>3, FlattenAppend DEF CollectTypeOK, Text
  <2>5. screen' = F \o text
    BY <1>2, <1>4, <2>1, <2>2, <2>3
  <2>6. (F \o text) \o <<>> = F \o text
    <3> HIDE DEF F, text
    <3> QED
      BY <1>3, <2>1, Concat, Zenon
  <2> QED
    BY <1>1, <2>2, <2>3, <2>4, <2>5, <2>6 DEF ScreenInv
<1>7. CASE ReadEnd
  BY <1>1, <1>2, <1>7 DEF ReadEnd, ScreenInv
<1> QED
  BY <1>5, <1>6, <1>7 DEF ReaderRuns

\* While streaming, and until an insertion fails, the screen shows the finals and
\* the typed part of the sentence, no character missing or doubled
\* (ScreenIsSpoken), whatever the partials and finals share.
THEOREM StreamingShowsWhatIsSpoken == Spec => []ScreenIsSpoken
<1>1. ScreenInv /\ UNCHANGED vars => ScreenInv'
  BY ScreenKept DEF vars
<1>2. HeardInv /\ ScreenInv /\ [Next]_vars => ScreenInv'
  BY <1>1, ScreenEngineStep, ScreenTaskStep, ScreenReaderStep DEF HeardInv, Next
<1>3. ScreenInv => ScreenIsSpoken
  BY DEF ScreenInv, ScreenIsSpoken
<1> QED
  BY <1>2, <1>3, ScreenInvInit, HeardInvariance, PTL DEF Spec
=============================================================================
