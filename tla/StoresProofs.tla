---------------------------- MODULE StoresProofs ----------------------------
(***************************************************************************)
(* Proofs about the stores, for every set of addresses, depths and names:  *)
(* the address history is a list of recent addresses; the bookmark menus   *)
(* implement the store of bookmarks, and the menu shows its folder.  And   *)
(* for texts of any length: addresses and typed text are kept by their     *)
(* conversions.                                                            *)
(***************************************************************************)
EXTENDS MCStores, SequenceTheorems, FiniteSetTheorems, WellFoundedInduction, TLAPS

(***************************************************************************)
(* Sequences.                                                              *)
(***************************************************************************)

\* A set of naturals has a least element.
LEMMA MinOfNats ==
  ASSUME NEW S \in SUBSET Nat, S # {}
  PROVE  /\ Min(S) \in S
         /\ \A x \in S : Min(S) <= x
<1> DEFINE Less == {ss \in Nat \X Nat : ss[1] < ss[2]}
<1>1. IsWellFoundedOn(Less, Nat)
  BY NatLessThanWellFounded DEF OpToRel
<1>2. PICK u \in S : \A n \in S : <<n, u>> \notin Less
  <2> HIDE DEF Less
  <2> QED  BY <1>1, WFMin
<1>3. \A n \in S : u <= n
  <2> SUFFICES ASSUME NEW n \in S, n < u PROVE FALSE
    OBVIOUS
  <2>1. <<n, u>> \in Nat \X Nat /\ <<n, u>>[1] < <<n, u>>[2]
    OBVIOUS
  <2>2. <<n, u>> \in Less
    BY <2>1
  <2> QED  BY <1>2, <2>2
<1>4. \E x \in S : \A y \in S : x =< y
  BY <1>3
<1> QED  BY <1>4 DEF Min

\* Two sequences with the same elements are one.
LEMMA SameElements ==
  ASSUME NEW S, NEW s \in Seq(S), NEW t \in Seq(S), Len(s) = Len(t),
         \A k \in 1 .. Len(s) : s[k] = t[k]
  PROVE  s = t
OBVIOUS

LEMMA PrefixShape ==
  ASSUME NEW S, NEW s \in Seq(S), NEW n \in Nat, n <= Len(s)
  PROVE  /\ SubSeq(s, 1, n) \in Seq(S) /\ Len(SubSeq(s, 1, n)) = n
         /\ \A k \in 1 .. n : SubSeq(s, 1, n)[k] = s[k]
BY SubSeqProperties, LenProperties

\* t is what is left of s when the first e is taken out: i is its place, or
\* just behind s when there is none.
LeftWithout(s, e, i, t) ==
  /\ \A k \in 1 .. i - 1 : s[k] # e
  /\ i <= Len(s) => s[i] = e
  /\ Len(t) = IF i <= Len(s) THEN Len(s) - 1 ELSE Len(s)
  /\ \A k \in 1 .. Len(t) : t[k] = IF k < i THEN s[k] ELSE s[k + 1]

LEMMA RemovedFirst ==
  ASSUME NEW S, NEW s \in Seq(S), NEW e
  PROVE  /\ RemoveFirst(s, e) \in Seq(S)
         /\ \E i \in 1 .. Len(s) + 1 : LeftWithout(s, e, i, RemoveFirst(s, e))
<1>0. Len(s) \in Nat
  BY LenProperties
<1>1. CASE \A k \in 1 .. Len(s) : s[k] # e
  <2>1. RemoveFirst(s, e) = s
    BY <1>1 DEF RemoveFirst
  <2>2. Len(s) + 1 \in 1 .. Len(s) + 1 /\ LeftWithout(s, e, Len(s) + 1, s)
    BY <1>0, <1>1 DEF LeftWithout
  <2> QED  BY <2>1, <2>2
<1>2. CASE \E k \in 1 .. Len(s) : s[k] = e
  <2> DEFINE I == {k \in 1 .. Len(s) : s[k] = e}
             i == Min(I)
  <2>1. I # {} /\ I \in SUBSET Nat
    BY <1>2, <1>0
  <2>2. i \in I /\ \A x \in I : i <= x
    <3> HIDE DEF I
    <3> QED  BY <2>1, MinOfNats
  <2>3. SelectInSeq(s, LAMBDA v : v = e) = i
    BY <2>1 DEF SelectInSeq
  <2>4. RemoveFirst(s, e) = SubSeq(s, 1, i - 1) \o SubSeq(s, i + 1, Len(s))
    BY <1>2, <2>3 DEF RemoveFirst, RemoveAt
  <2>5. /\ i \in 1 .. Len(s) /\ s[i] = e /\ \A k \in 1 .. i - 1 : s[k] # e
    <3>1. \A k \in 1 .. i - 1 : k \notin I
      BY <1>0, <2>2
    <3>2. \A k \in 1 .. i - 1 : k \in 1 .. Len(s)
      BY <1>0, <2>2
    <3>3. i \in 1 .. Len(s) /\ s[i] = e
      BY <2>2
    <3> HIDE DEF i
    <3> QED  BY <3>1, <3>2, <3>3
  <2> HIDE DEF I, i
  <2>6. /\ SubSeq(s, 1, i - 1) \in Seq(S) /\ Len(SubSeq(s, 1, i - 1)) = i - 1
        /\ \A k \in 1 .. i - 1 : SubSeq(s, 1, i - 1)[k] = s[k]
    BY <1>0, <2>5, PrefixShape
  <2>7. /\ SubSeq(s, i + 1, Len(s)) \in Seq(S) /\ Len(SubSeq(s, i + 1, Len(s))) = Len(s) - i
        /\ \A k \in 1 .. Len(s) - i : SubSeq(s, i + 1, Len(s))[k] = s[i + k]
    BY <1>0, <2>5, SubSeqProperties
  <2>8. /\ RemoveFirst(s, e) \in Seq(S) /\ Len(RemoveFirst(s, e)) = Len(s) - 1
        /\ \A k \in 1 .. Len(s) - 1 :
             RemoveFirst(s, e)[k] = IF k < i THEN s[k] ELSE s[k + 1]
    <3> DEFINE a == SubSeq(s, 1, i - 1)
               b == SubSeq(s, i + 1, Len(s))
    <3>1. a \in Seq(S) /\ b \in Seq(S) /\ Len(a) = i - 1 /\ Len(b) = Len(s) - i
      BY <2>6, <2>7
    <3>2. /\ a \o b \in Seq(S) /\ Len(a \o b) = Len(s) - 1
          /\ \A k \in 1 .. Len(s) - 1 : (a \o b)[k] = IF k < i THEN a[k] ELSE b[k - (i - 1)]
      <4> HIDE DEF a, b
      <4>1. Len(a) + Len(b) = Len(s) - 1
        BY <1>0, <2>5, <3>1
      <4>2. /\ a \o b \in Seq(S) /\ Len(a \o b) = Len(a) + Len(b)
            /\ \A k \in 1 .. Len(a) + Len(b) :
                 (a \o b)[k] = IF k <= Len(a) THEN a[k] ELSE b[k - Len(a)]
        BY <3>1, ConcatProperties
      <4>3. \A k \in 1 .. Len(s) - 1 : k <= Len(a) <=> k < i
        BY <1>0, <2>5, <3>1
      <4> QED  BY <3>1, <4>1, <4>2, <4>3
    <3>3. ASSUME NEW k \in 1 .. Len(s) - 1
          PROVE  (a \o b)[k] = IF k < i THEN s[k] ELSE s[k + 1]
      <4>1. CASE k < i
        <5>1. k \in 1 .. i - 1 /\ a[k] = s[k]
          BY <1>0, <2>5, <2>6, <4>1
        <5> QED  BY <3>2, <4>1, <5>1
      <4>2. CASE ~ (k < i)
        <5>1. k - (i - 1) \in 1 .. Len(s) - i /\ i + (k - (i - 1)) = k + 1
          BY <1>0, <2>5, <4>2
        <5>2. b[k - (i - 1)] = s[k + 1]
          BY <2>7, <5>1
        <5> HIDE DEF a, b
        <5> QED  BY <3>2, <4>2, <5>2
      <4> QED  BY <4>1, <4>2
    <3> QED  BY <2>4, <3>2, <3>3
  <2>9. i \in 1 .. Len(s) + 1 /\ i <= Len(s)
    BY <1>0, <2>5
  <2>10. LeftWithout(s, e, i, RemoveFirst(s, e))
    BY <2>5, <2>8, <2>9 DEF LeftWithout
  <2> QED  BY <2>8, <2>9, <2>10
<1> QED  BY <1>1, <1>2

-----------------------------------------------------------------------------
(***************************************************************************)
(* The address history.                                                    *)
(***************************************************************************)

\* A list with a new first line, cut.
Visited(S, e, q, n) ==
  LET A == History!Recent!First(<<e>> \o q, n)
  IN /\ Len(q) \in Nat
     /\ A \in Seq(S)
     /\ Len(A) = IF 1 + Len(q) < n THEN 1 + Len(q) ELSE n
     /\ \A k \in 1 .. Len(A) : A[k] = IF k = 1 THEN e ELSE q[k - 1]

LEMMA VisitedShape ==
  ASSUME NEW S, NEW e \in S, NEW q \in Seq(S), NEW n \in Nat
  PROVE  Visited(S, e, q, n)
<1> DEFINE all == <<e>> \o q
           cut == IF Len(all) < n THEN Len(all) ELSE n
           A == History!Recent!First(all, n)
<1>1. /\ all \in Seq(S) /\ Len(q) \in Nat /\ Len(all) = 1 + Len(q)
      /\ \A k \in 1 .. Len(all) : all[k] = IF k = 1 THEN e ELSE q[k - 1]
  <2>1. <<e>> \in Seq(S) /\ Len(<<e>>) = 1 /\ <<e>>[1] = e /\ Len(q) \in Nat
    BY LenProperties
  <2> QED  BY <2>1, ConcatProperties
<1>2. A = SubSeq(all, 1, cut)
  BY DEF History!Recent!First
<1>3. cut \in Nat /\ cut <= Len(all) /\ cut = IF 1 + Len(q) < n THEN 1 + Len(q) ELSE n
  BY <1>1
<1> HIDE DEF all, cut, A
<1>5. A \in Seq(S) /\ Len(A) = cut /\ \A k \in 1 .. cut : A[k] = all[k]
  BY <1>1, <1>2, <1>3, PrefixShape
<1> QED  BY <1>1, <1>3, <1>5 DEF A, all, Visited

HistoryTypes == file \in Seq(Entries) /\ HISTORY_DEPTH \in Nat

\* The loop of swaps and the insertion of AddURLToHistory make the list that a
\* visit is to leave.
LEMMA VisitMovesToFront ==
  ASSUME HistoryTypes, NEW e \in Entries
  PROVE  /\ History!NewLines(e) \in Seq(Entries)
         /\ History!NewLines(e) =
              History!Recent!First(<<e>> \o RemoveFirst(file, e), HISTORY_DEPTH)
<1> DEFINE n == HISTORY_DEPTH
           m == IF Len(file) < n THEN Len(file) ELSE n
           r == History!ReadLines
           rest == RemoveFirst(file, e)
           A == History!Recent!First(<<e>> \o rest, n)
<1>0. /\ Len(file) \in Nat /\ n \in Nat /\ m \in Nat /\ m <= Len(file) /\ m <= n
      /\ m = IF Len(file) < n THEN Len(file) ELSE n
      /\ file \in Seq(Entries)
  BY LenProperties DEF HistoryTypes
<1>1. r \in Seq(Entries) /\ Len(r) = m /\ \A k \in 1 .. m : r[k] = file[k]
  <2>1. r = SubSeq(file, 1, m)
    BY DEF History!ReadLines
  <2> QED  BY <1>0, <2>1, PrefixShape
<1>a. PICK i \in 1 .. Len(file) + 1 : LeftWithout(file, e, i, rest)
  BY <1>0, RemovedFirst
<1>2. /\ \A k \in 1 .. i - 1 : file[k] # e
      /\ i <= Len(file) => file[i] = e
      /\ rest \in Seq(Entries)
      /\ Len(rest) = IF i <= Len(file) THEN Len(file) - 1 ELSE Len(file)
      /\ \A k \in 1 .. Len(rest) : rest[k] = IF k < i THEN file[k] ELSE file[k + 1]
  <2>1. rest \in Seq(Entries)
    BY <1>0, RemovedFirst
  <2> HIDE DEF rest
  <2> QED  BY <1>a, <2>1 DEF LeftWithout
<1>3. /\ A \in Seq(Entries) /\ Len(rest) \in Nat
      /\ Len(A) = IF 1 + Len(rest) < n THEN 1 + Len(rest) ELSE n
      /\ \A k \in 1 .. Len(A) : A[k] = IF k = 1 THEN e ELSE rest[k - 1]
  <2>1. n \in Nat /\ rest \in Seq(Entries)
    BY <1>0, <1>2
  <2> HIDE DEF rest, n
  <2>2. Visited(Entries, e, rest, n)
    BY <2>1, VisitedShape
  <2> QED  BY <2>2 DEF Visited
<1> DEFINE new == History!NewLines(e)
<1>6. new = History!Inserted(History!Searched(r, e), e)
  BY DEF History!NewLines
<1>7. \A q : History!Inserted(q, e) =
              IF n # 0 /\ (q = <<>> \/ q[1] # e)
              THEN <<e>> \o (IF Len(q) = n THEN Front(q) ELSE q) ELSE q
  BY DEF History!Inserted, Front, History!Front
<1>8. DOMAIN r = 1 .. m
  BY <1>1, LenProperties
<1> HIDE DEF n, m, r, rest, A, new
<1>5. new \in Seq(Entries) /\ Len(new) = Len(A) /\ \A k \in 1 .. Len(A) : new[k] = A[k]
  <2>1. CASE i <= m
    <3>0. i \in 1 .. m /\ i <= Len(file) /\ \A k \in 1 .. i - 1 : k \in 1 .. m
      BY <1>0, <1>2, <2>1
    <3>1. e = r[i] /\ e \in History!ToSet(r) /\ i \in DOMAIN r /\ \A k \in 1 .. i - 1 : r[k] # e
      BY <1>1, <1>2, <1>8, <3>0 DEF History!ToSet
    <3>2. \A j \in DOMAIN r : r[j] = e /\ (\A k \in 1 .. j - 1 : r[k] # e) => j = i
      BY <1>0, <1>1, <1>2, <1>8, <2>1, <3>1
    <3>3. History!Searched(r, e) = History!MoveToFront(r, i)
      BY <3>1, <3>2 DEF History!Searched
    <3> DEFINE w == History!MoveToFront(r, i)
    <3>4. /\ w \in Seq(Entries) /\ Len(w) = m /\ w[1] = e
          /\ \A k \in 2 .. m : w[k] = IF k <= i THEN r[k - 1] ELSE r[k]
      BY <1>0, <1>1, <1>8, <2>1, <3>1 DEF History!MoveToFront
    <3>5. new = w
      BY <1>0, <1>6, <1>7, <3>3, <3>4, <2>1
    <3>6. Len(A) = m
      BY <1>0, <1>2, <1>3, <2>1
    <3>7. ASSUME NEW k \in 1 .. m PROVE w[k] = A[k]
      <4>2. CASE k = 1
        BY <1>3, <3>4, <3>6, <4>2
      <4>3. CASE k # 1
        <5>1. k - 1 \in 1 .. Len(rest) /\ k \in 2 .. m
          BY <1>0, <1>2, <1>3, <3>6, <4>3
        <5>2. A[k] = IF k <= i THEN file[k - 1] ELSE file[k]
          <6>1. A[k] = rest[k - 1] /\ (k - 1 < i <=> k <= i) /\ (k - 1) + 1 = k
            BY <1>0, <1>3, <3>6, <4>3, <5>1
          <6>2. rest[k - 1] = IF k - 1 < i THEN file[k - 1] ELSE file[(k - 1) + 1]
            BY <1>2, <5>1
          <6> QED  BY <6>1, <6>2
        <5>3. r[k] = file[k] /\ r[k - 1] = file[k - 1]
          BY <1>0, <1>1, <5>1
        <5> QED  BY <3>4, <5>1, <5>2, <5>3
      <4> QED  BY <4>2, <4>3
    <3> QED  BY <3>4, <3>5, <3>6, <3>7
  <2>2. CASE m < i
    <3>1. e \notin History!ToSet(r)
      BY <1>0, <1>1, <1>2, <1>8, <2>2 DEF History!ToSet
    <3>2. History!Searched(r, e) = r
      BY <3>1 DEF History!Searched
    <3>3. CASE n = 0
      <4>1. new = r /\ Len(r) = 0
        BY <1>0, <1>1, <1>6, <1>7, <3>2, <3>3
      <4> QED  BY <1>0, <1>1, <1>3, <4>1, <3>3
    <3>4. CASE n # 0
      <4> DEFINE kept == IF m = n THEN Front(r) ELSE r
      <4>1. r = <<>> \/ r[1] # e
        BY <1>0, <1>1, <1>2, <2>2
      <4>2. new = <<e>> \o kept
        BY <1>1, <1>6, <1>7, <3>2, <3>4, <4>1
      <4>3. /\ kept \in Seq(Entries) /\ Len(kept) = IF m = n THEN m - 1 ELSE m
            /\ \A k \in 1 .. Len(kept) : kept[k] = file[k]
        <5>1. CASE m = n
          <6>1. kept = SubSeq(r, 1, m - 1) /\ m - 1 \in Nat
            BY <1>0, <1>1, <3>4, <5>1 DEF Front
          <6>4. m - 1 <= Len(r) /\ \A k \in 1 .. m - 1 : r[k] = file[k]
            BY <1>0, <1>1, <6>1
          <6>5. PICK h : h = m - 1
            OBVIOUS
          <6>6. /\ SubSeq(r, 1, h) \in Seq(Entries) /\ Len(SubSeq(r, 1, h)) = h
                /\ \A k \in 1 .. h : SubSeq(r, 1, h)[k] = r[k]
            <7>1. h \in Nat /\ h <= Len(r)
              BY <6>1, <6>4, <6>5
            <7> QED  BY <1>1, <7>1, PrefixShape
          <6>2. \A k \in 1 .. m - 1 : kept[k] = r[k] /\ r[k] = file[k]
            BY <6>1, <6>4, <6>5, <6>6
          <6>3. kept \in Seq(Entries) /\ Len(kept) = m - 1
            BY <6>1, <6>5, <6>6
          <6> HIDE DEF kept
          <6> QED  BY <5>1, <6>2, <6>3
        <5>2. CASE m # n
          BY <1>1, <5>2
        <5> QED  BY <5>1, <5>2
      <4> HIDE DEF kept
      <4>4. Len(kept) \in Nat /\ Len(kept) + 1 = Len(A)
        BY <1>0, <1>2, <1>3, <2>2, <3>4, <4>3
      <4>5. /\ new \in Seq(Entries) /\ Len(new) = Len(kept) + 1 /\ new[1] = e
            /\ \A k \in 2 .. Len(new) : new[k] = kept[k - 1]
        <5>1. <<e>> \in Seq(Entries) /\ Len(<<e>>) = 1 /\ <<e>>[1] = e
          OBVIOUS
        <5> HIDE DEF new
        <5> QED  BY <4>2, <4>3, <4>4, <5>1, ConcatProperties
      <4>6. ASSUME NEW k \in 1 .. Len(A) PROVE new[k] = A[k]
        <5>1. CASE k = 1
          BY <1>0, <1>3, <4>4, <4>5, <5>1
        <5>2. CASE k # 1
          <6>1. k \in 2 .. Len(new) /\ k - 1 \in 1 .. Len(kept) /\ new[k] = file[k - 1]
            BY <1>0, <4>3, <4>4, <4>5, <5>2
          <6>2. k - 1 \in 1 .. Len(rest) /\ A[k] = rest[k - 1]
            BY <1>0, <1>2, <1>3, <4>4, <5>2
          <6>3. k - 1 < i
            BY <1>0, <1>2, <2>2, <4>3, <4>4
          <6> QED  BY <1>2, <6>1, <6>2, <6>3
        <5> QED  BY <5>1, <5>2
      <4> QED  BY <4>4, <4>5, <4>6
    <3> QED  BY <3>3, <3>4
  <2> QED  BY <1>0, <1>2, <2>1, <2>2
<1>9. new = A
  BY <1>3, <1>5, SameElements
<1> QED  BY <1>5, <1>9 DEF new, A, rest, n

LEMMA HistoryInit == MCInit => HistoryTypes /\ History!Recent!Init
BY DepthsAssumption DEF MCInit, History!Init, History!Recent!Init, HistoryTypes

LEMMA SameRemoval ==
  ASSUME NEW q, NEW e PROVE History!Recent!RemoveFirst(q, e) = RemoveFirst(q, e)
BY DEF RemoveFirst, History!Recent!RemoveFirst, RemoveAt, History!Recent!RemoveAt,
       SelectInSeq, History!Recent!SelectInSeq, Min, History!Recent!Min

LEMMA VisitStep ==
  ASSUME HistoryTypes, NEW e \in Entries, History!AddURLToHistory(e)
  PROVE  HistoryTypes' /\ History!Recent!Visit(e)
<1>1. History!Recent!RemoveFirst(file, e) = RemoveFirst(file, e)
  BY SameRemoval
<1>2. file' = History!NewLines(e) /\ UNCHANGED HISTORY_DEPTH
  BY DEF History!AddURLToHistory
<1>3. History!Recent!Visit(e)
  BY <1>1, <1>2, VisitMovesToFront DEF History!Recent!Visit
<1>4. HistoryTypes'
  BY <1>2, VisitMovesToFront DEF HistoryTypes
<1> QED  BY <1>3, <1>4

LEMMA HistoryStep ==
  ASSUME HistoryTypes, [MCNext]_<<chosen, vars, historyVars, textVars>>
  PROVE  HistoryTypes' /\ [History!Recent!Next]_<<file, HISTORY_DEPTH>>
<1>1. CASE History!Next
  <2>1. ASSUME NEW e \in Entries, History!AddURLToHistory(e)
        PROVE  HistoryTypes' /\ History!Recent!Next
    BY <2>1, VisitStep DEF History!Recent!Next
  <2>2. CASE History!AddURLLost
    BY <2>2 DEF History!AddURLLost, History!Recent!Next, History!Recent!Lose, HistoryTypes
  <2>3. CASE History!Reconfigure
    BY <2>3, DepthsAssumption DEF History!Reconfigure, History!Recent!Next,
                                  History!Recent!Reconfigure, HistoryTypes
  <2>4. CASE \/ History!CreateHistoryMenu \/ History!Cancel
             \/ \E i \in 1 .. depth : History!Select(i)
    BY <2>4 DEF History!CreateHistoryMenu, History!Cancel, History!Select, HistoryTypes
  <2> QED  BY <1>1, <2>1, <2>2, <2>3, <2>4 DEF History!Next
<1>2. CASE UNCHANGED historyVars
  BY <1>2 DEF historyVars, HistoryTypes
<1> QED  BY <1>1, <1>2 DEF MCNext

\* The swaps, the drop of the last line and the shift of AddURLToHistory
\* (history.c:130-162) always leave the addresses newest first, cut at the depth the
\* settings allow, whatever the order of visits, reconfigurations and losses.
THEOREM HistoryStaysRecent == MCSpec => HistoryIsRecent
<1>1. MCSpec => []HistoryTypes
  BY HistoryInit, HistoryStep, PTL DEF MCSpec
<1> QED
  BY <1>1, HistoryInit, HistoryStep, PTL DEF MCSpec, HistoryIsRecent, History!HistoryIsRecent,
     History!Recent!Spec

NoneTwice == \A i, j \in DOMAIN file : file[i] = file[j] => i = j

\* No address is on two lines of history.txt: the search of AddURLToHistory
\* stops at the first, and there is no second (history.c:130-143).
THEOREM HistoryHasNoneTwice == MCSpec => []NoneTwice
<1>1. MCInit => NoneTwice
  BY DEF MCInit, History!Init, NoneTwice
<1>2. HistoryTypes /\ NoneTwice /\ [History!Recent!Next]_<<file, HISTORY_DEPTH>> => NoneTwice'
  <2> SUFFICES ASSUME HistoryTypes, NoneTwice, NEW e \in Entries, History!Recent!Visit(e)
               PROVE  NoneTwice'
    BY DEF NoneTwice, History!Recent!Next, History!Recent!Lose, History!Recent!Reconfigure
  <2> DEFINE n == HISTORY_DEPTH
             rest == RemoveFirst(file, e)
             A == History!Recent!First(<<e>> \o rest, n)
  <2>1. file' = A
    BY SameRemoval DEF History!Recent!Visit
  <2>a. PICK i \in 1 .. Len(file) + 1 : LeftWithout(file, e, i, rest)
    BY RemovedFirst DEF HistoryTypes
  <2>b. rest \in Seq(Entries)
    BY RemovedFirst DEF HistoryTypes
  <2> HIDE DEF rest
  <2>2. /\ \A k \in 1 .. i - 1 : file[k] # e
        /\ i <= Len(file) => file[i] = e
        /\ rest \in Seq(Entries)
        /\ Len(rest) = IF i <= Len(file) THEN Len(file) - 1 ELSE Len(file)
        /\ \A k \in 1 .. Len(rest) : rest[k] = IF k < i THEN file[k] ELSE file[k + 1]
    BY <2>a, <2>b DEF LeftWithout
  <2>3. /\ A \in Seq(Entries) /\ Len(rest) \in Nat
        /\ Len(A) = IF 1 + Len(rest) < n THEN 1 + Len(rest) ELSE n
        /\ n \in Nat
        /\ \A k \in 1 .. Len(A) : A[k] = IF k = 1 THEN e ELSE rest[k - 1]
    <3>1. n \in Nat /\ rest \in Seq(Entries)
      BY <2>2 DEF HistoryTypes
    <3> HIDE DEF n
    <3>2. e \in Entries
      OBVIOUS
    <3>3. Visited(Entries, e, rest, n)
      BY ONLY <3>1, <3>2, VisitedShape
    <3> QED  BY <3>1, <3>3 DEF Visited
  <2> HIDE DEF A, n
  <2> DEFINE f == Len(file)
             r == Len(rest)
             a == Len(A)
  <2>4. /\ f \in Nat /\ DOMAIN file = 1 .. f /\ a \in Nat /\ DOMAIN A = 1 .. a
        /\ r \in Nat /\ (i <= f => r = f - 1) /\ (f < i => r = f)
        /\ i \in Nat /\ i <= f + 1 /\ 1 <= i /\ a <= r + 1
    BY <2>2, <2>3, LenProperties DEF HistoryTypes
  <2>7. /\ i <= f => file[i] = e
        /\ \A k \in 1 .. i - 1 : file[k] # e
        /\ \A k \in 1 .. r : rest[k] = IF k < i THEN file[k] ELSE file[k + 1]
        /\ \A k \in 1 .. a : A[k] = IF k = 1 THEN e ELSE rest[k - 1]
    BY <2>2, <2>3
  <2> HIDE DEF f, r, a
  <2> DEFINE at(k) == IF k < i THEN k ELSE k + 1
  <2>5. ASSUME NEW k \in 1 .. r
        PROVE  at(k) \in DOMAIN file /\ rest[k] = file[at(k)] /\ rest[k] # e
    <3>1. at(k) \in DOMAIN file /\ rest[k] = file[at(k)]
      <4>0. CASE k < i
        <5>1. k \in 1 .. f
          BY <2>4, <4>0
        <5> QED  BY <2>4, <2>7, <4>0, <5>1
      <4>1. CASE ~ (k < i)
        <5>1. k + 1 \in 1 .. f
          BY <2>4, <4>1
        <5> QED  BY <2>4, <2>7, <4>1, <5>1
      <4> QED  BY <4>0, <4>1
    <3>2. CASE k < i
      BY <2>4, <2>7, <3>1, <3>2
    <3>3. CASE ~ (k < i)
      <4>0. i <= f
        BY <2>4, <3>3
      <4>1. i \in DOMAIN file /\ file[i] = e /\ at(k) # i
        BY <2>4, <2>7, <3>3, <4>0
      <4> QED  BY <3>1, <4>1 DEF NoneTwice
    <3> QED  BY <3>2, <3>3
  <2>6. ASSUME NEW k \in DOMAIN A, NEW j \in DOMAIN A, A[k] = A[j] PROVE k = j
    <3>1. k = 1 \/ (k - 1 \in 1 .. r /\ A[k] = rest[k - 1])
      BY <2>4, <2>7
    <3>2. j = 1 \/ (j - 1 \in 1 .. r /\ A[j] = rest[j - 1])
      BY <2>4, <2>7
    <3>3. (k = 1 => A[k] = e) /\ (j = 1 => A[j] = e)
      BY <2>4, <2>7
    <3>4. CASE k = 1 \/ j = 1
      BY <2>5, <2>6, <3>1, <3>2, <3>3, <3>4
    <3>5. CASE k # 1 /\ j # 1
      <4>1. at(k - 1) = at(j - 1)
        BY <2>5, <2>6, <3>1, <3>2, <3>5 DEF NoneTwice
      <4>2. k - 1 \in Nat /\ j - 1 \in Nat /\ i \in Nat /\ k \in Nat /\ j \in Nat
        BY <2>4, <2>7, <3>1, <3>2, <3>5
      <4> QED  BY <4>1, <4>2
    <3> QED  BY <3>4, <3>5
  <2> QED  BY <2>1, <2>6 DEF NoneTwice
<1> QED  BY <1>1, <1>2, HistoryInit, HistoryStep, PTL DEF MCSpec

-----------------------------------------------------------------------------
(***************************************************************************)
(* Folds.  The set the induction is over takes the place of a predicate.   *)
(***************************************************************************)

LEMMA Induction ==
  ASSUME NEW K, 0 \in K, \A k \in Nat : k \in K => k + 1 \in K
  PROVE  \A k \in Nat : k \in K
<1> SUFFICES ASSUME NEW k \in Nat, k \notin K PROVE FALSE
  OBVIOUS
<1> DEFINE Out == {j \in Nat : j \notin K}
           m == Min(Out)
<1>1. m \in Out /\ \A x \in Out : m <= x
  <2>1. Out \in SUBSET Nat /\ Out # {}
    OBVIOUS
  <2> HIDE DEF Out
  <2> QED  BY <2>1, MinOfNats
<1>2. m # 0 /\ m \in Nat /\ m - 1 \notin Out
  <2>1. m # 0 /\ m \in Nat
    BY <1>1
  <2> HIDE DEF Out, m
  <2> QED  BY <1>1, <2>1
<1>3. m - 1 \in Nat /\ m - 1 \in K /\ (m - 1) + 1 = m
  <2>1. m - 1 \in Nat /\ (m - 1) + 1 = m
    <3> HIDE DEF m
    <3> QED  BY <1>2
  <2> QED  BY <1>2, <2>1
<1>4. m \in K
  BY <1>3
<1> QED  BY <1>1, <1>4

LEMMA MaxOfRange ==
  ASSUME NEW n \in Nat, NEW T \in SUBSET (1 .. n), T # {}
  PROVE  Max(T) \in T /\ \A x \in T : x <= Max(T)
<1> DEFINE U == {u \in Nat : \A x \in T : x <= u}
           m == Min(U)
<1>1. m \in U /\ \A u \in U : m <= u
  <2>1. U \in SUBSET Nat /\ n \in U
    OBVIOUS
  <2> HIDE DEF U
  <2> QED  BY <2>1, MinOfNats
<1>2. m \in Nat /\ \A x \in T : x <= m
  BY <1>1
<1>3. m \in T
  <2> SUFFICES ASSUME m \notin T PROVE FALSE
    OBVIOUS
  <2>0. \A x \in T : x \in Nat /\ 1 <= x /\ x # m
    OBVIOUS
  <2>1. m - 1 \in Nat /\ \A x \in T : x <= m - 1
    <3>1. PICK t \in T : TRUE
      OBVIOUS
    <3> HIDE DEF m
    <3>2. m >= 1
      BY <1>2, <2>0, <3>1
    <3>3. ASSUME NEW x \in T PROVE x <= m - 1
      BY <1>2, <2>0
    <3> QED  BY <1>2, <3>2, <3>3
  <2>2. m <= m - 1
    BY <1>1, <2>1
  <2> HIDE DEF m
  <2> QED  BY <1>2, <2>2
<1>4. \E x \in T : \A y \in T : x >= y
  <2> HIDE DEF m
  <2> QED  BY <1>2, <1>3
<1>5. Max(T) \in T /\ \A y \in T : Max(T) >= y
  BY <1>4 DEF Max
<1> QED  BY <1>5

\* F folds the places up to m: the last place of a set comes last.
IsFold(F, base, op, m) ==
  \A T \in SUBSET (1 .. m) :
    F[T] = IF T = {} THEN base ELSE op[<<F[T \ {Max(T)}], Max(T)>>]

LEMMA FoldExtends ==
  ASSUME NEW L, NEW base \in L, NEW n \in Nat, NEW op \in [L \X (1 .. n) -> L],
         NEW m \in Nat, NEW e, e = m + 1, e <= n,
         NEW F \in [SUBSET (1 .. m) -> L], IsFold(F, base, op, m)
  PROVE  \E H \in [SUBSET (1 .. e) -> L] : IsFold(H, base, op, e)
<1> DEFINE H == [T \in SUBSET (1 .. e) |-> IF e \in T THEN op[<<F[T \ {e}], e>>] ELSE F[T]]
<1>1. /\ e \in Nat /\ e \in 1 .. n /\ 1 .. m \subseteq 1 .. e /\ e \notin 1 .. m
  OBVIOUS
<1>2. \A T \in SUBSET (1 .. e) : T \ {e} \in SUBSET (1 .. m)
  OBVIOUS
<1>3. H \in [SUBSET (1 .. e) -> L]
  <2> SUFFICES ASSUME NEW T \in SUBSET (1 .. e)
               PROVE  (IF e \in T THEN op[<<F[T \ {e}], e>>] ELSE F[T]) \in L
    OBVIOUS
  <2>1. F[T \ {e}] \in L /\ (e \notin T => T = T \ {e})
    BY <1>2
  <2> QED  BY <1>1, <2>1
<1>4. ASSUME NEW T \in SUBSET (1 .. e)
      PROVE  H[T] = IF T = {} THEN base ELSE op[<<H[T \ {Max(T)}], Max(T)>>]
  <2>1. CASE e \in T
    <3>1. Max(T) \in T /\ \A x \in T : x <= Max(T)
      BY <2>1, <1>1, MaxOfRange
    <3>2. Max(T) = e
      <4>1. Max(T) \in 1 .. e /\ e <= Max(T)
        BY <2>1, <3>1
      <4> HIDE DEF H
      <4> QED  BY <4>1, <1>1
    <3>3. T \ {e} \in SUBSET (1 .. e) /\ e \notin T \ {e}
      OBVIOUS
    <3>4. H[T \ {e}] = F[T \ {e}]
      BY <3>3
    <3>5. H[T] = op[<<F[T \ {e}], e>>]
      BY <2>1
    <3> HIDE DEF H
    <3> QED  BY <2>1, <3>2, <3>4, <3>5
  <2>2. CASE e \notin T
    <3>1. T \in SUBSET (1 .. m)
      BY <1>2, <2>2
    <3>2. F[T] = IF T = {} THEN base ELSE op[<<F[T \ {Max(T)}], Max(T)>>]
      BY <3>1 DEF IsFold
    <3>3. H[T] = F[T]
      BY <2>2
    <3>4. T \ {Max(T)} \in SUBSET (1 .. e) /\ e \notin T \ {Max(T)}
      BY <2>2
    <3>5. H[T \ {Max(T)}] = F[T \ {Max(T)}]
      BY <3>4
    <3> HIDE DEF H
    <3> QED  BY <3>2, <3>3, <3>5
  <2> QED  BY <2>1, <2>2
<1> HIDE DEF H
<1>5. IsFold(H, base, op, e)
  BY <1>4 DEF IsFold
<1> QED  BY <1>3, <1>5

\* A fold over n elements is a function of the sets of their places.
LEMMA FoldIsDefined ==
  ASSUME NEW L, NEW base \in L, NEW n \in Nat, NEW op \in [L \X (1 .. n) -> L]
  PROVE  \E F \in [SUBSET (1 .. n) -> L] : IsFold(F, base, op, n)
<1> DEFINE K == {m \in Nat : m <= n => \E F \in [SUBSET (1 .. m) -> L] : IsFold(F, base, op, m)}
<1>1. 0 \in K
  <2>1. SUBSET (1 .. 0) = {{}}
    OBVIOUS
  <2>2. [T \in SUBSET (1 .. 0) |-> base] \in [SUBSET (1 .. 0) -> L]
    OBVIOUS
  <2>3. IsFold([T \in SUBSET (1 .. 0) |-> base], base, op, 0)
    BY <2>1 DEF IsFold
  <2>4. \E F \in [SUBSET (1 .. 0) -> L] : IsFold(F, base, op, 0)
    BY <2>2, <2>3
  <2> QED  BY <2>4
<1>2. ASSUME NEW m \in Nat, m \in K PROVE m + 1 \in K
  <2>1. m + 1 \in Nat /\ (m + 1 <= n => m <= n)
    OBVIOUS
  <2>2. ASSUME m + 1 <= n
        PROVE  \E F \in [SUBSET (1 .. m + 1) -> L] : IsFold(F, base, op, m + 1)
    <3>1. PICK F \in [SUBSET (1 .. m) -> L] : IsFold(F, base, op, m)
      BY <1>2, <2>1, <2>2
    <3> HIDE DEF K
    <3> QED  BY <2>2, <3>1, FoldExtends
  <2> QED  BY <2>1, <2>2
<1>3. n \in K
  <2> HIDE DEF K
  <2> QED  BY <1>1, <1>2, Induction
<1>4. n <= n
  OBVIOUS
<1> QED  BY <1>3, <1>4

\* Its places are taken in order.
LEMMA FoldInOrder ==
  ASSUME NEW n \in Nat, NEW k \in 1 .. n
  PROVE  /\ 1 .. k \in SUBSET (1 .. n) /\ 1 .. k # {} /\ 1 .. k - 1 \in SUBSET (1 .. n)
         /\ Max(1 .. k) = k /\ (1 .. k) \ {Max(1 .. k)} = 1 .. k - 1
<1>1. k \in 1 .. k /\ 1 .. k \in SUBSET (1 .. n) /\ k \in Nat
  OBVIOUS
<1>2. Max(1 .. k) \in 1 .. k /\ \A x \in 1 .. k : x <= Max(1 .. k)
  BY <1>1, MaxOfRange
<1>3. Max(1 .. k) = k
  BY <1>1, <1>2
<1> QED  BY <1>1, <1>3

-----------------------------------------------------------------------------
(***************************************************************************)
(* The lists of the bookmark menu.                                         *)
(***************************************************************************)

Named(S) == \A x \in S : Nocase(x.name) \in Nat

\* list holds S, each element once, by name.
SortedList(list, S) ==
  /\ list \in Seq(S)
  /\ \A x \in S : \E i \in 1 .. Len(list) : list[i] = x
  /\ \A i, j \in 1 .. Len(list) :
       i < j => list[i] # list[j] /\ Nocase(list[i].name) <= Nocase(list[j].name)

\* Where AddToFList puts an entry.
LEMMA AddPlace ==
  ASSUME NEW D, Named(D), NEW list \in Seq(D), NEW n \in D
  PROVE  \E j \in 1 .. Len(list) + 1 :
           /\ AddToFList(list, n) = InsertAt(list, j, n)
           /\ \A k \in 1 .. j - 1 : Nocase(list[k].name) < Nocase(n.name)
           /\ j <= Len(list) => ~(Nocase(list[j].name) < Nocase(n.name))
<1> DEFINE Less(k) == Nocase(list[k].name) < Nocase(n.name)
           before == {i \in DOMAIN list : \A k \in 1 .. i : Less(k)}
           Not == {i \in 1 .. Len(list) + 1 : i = Len(list) + 1 \/ ~Less(i)}
           j == Min(Not)
<1>0. Len(list) \in Nat /\ DOMAIN list = 1 .. Len(list)
  BY LenProperties
<1>1. j \in Not /\ \A i \in Not : j <= i
  <2>1. Not \in SUBSET Nat /\ Len(list) + 1 \in Not
    BY <1>0
  <2> HIDE DEF Not
  <2> QED  BY <2>1, MinOfNats
<1>2. /\ j \in 1 .. Len(list) + 1 /\ (j <= Len(list) => ~Less(j))
      /\ \A k \in 1 .. j - 1 : Less(k)
  <2>1. j \in 1 .. Len(list) + 1 /\ (j = Len(list) + 1 \/ ~Less(j))
    BY <1>1
  <2>2. ASSUME NEW k \in 1 .. j - 1, ~Less(k) PROVE FALSE
    <3> HIDE DEF j, Less
    <3>1. k \in 1 .. Len(list) + 1 /\ ~(j <= k)
      BY <1>0, <2>1
    <3>2. k \in Not
      BY <2>2, <3>1
    <3> QED  BY <1>1, <3>1, <3>2
  <2> HIDE DEF Not, j, Less
  <2> QED  BY <1>0, <2>1, <2>2
<1>3. before = 1 .. j - 1
  <2> HIDE DEF j, Less
  <2>1. ASSUME NEW i \in before PROVE i \in 1 .. j - 1
    <3>1. i \in 1 .. Len(list) /\ \A k \in 1 .. i : Less(k)
      BY <1>0
    <3> HIDE DEF before
    <3>2. j <= i => j \in 1 .. i /\ j <= Len(list)
      BY <1>0, <1>2, <3>1
    <3>3. ~(j <= i)
      BY <3>1, <3>2, <1>2
    <3> QED  BY <1>0, <1>2, <3>1, <3>3
  <2>2. ASSUME NEW i \in 1 .. j - 1 PROVE i \in before
    <3>1. i \in DOMAIN list /\ 1 .. i \subseteq 1 .. j - 1
      BY <1>0, <1>2
    <3> QED  BY <1>2, <3>1
  <2> HIDE DEF before
  <2> QED  BY <2>1, <2>2
<1>4. Cardinality(before) + 1 = j
  <2> HIDE DEF before, j, Less
  <2>1. 1 \in Int /\ j - 1 \in Int /\ j \in Nat /\ 1 <= j
    BY <1>0, <1>2
  <2>2. Cardinality(1 .. j - 1) = IF 1 > j - 1 THEN 0 ELSE (j - 1) - 1 + 1
    BY <2>1, FS_Interval
  <2> QED  BY <1>3, <2>1, <2>2
<1>5. AddToFList(list, n) = InsertAt(list, Cardinality(before) + 1, n)
  BY DEF AddToFList
<1>6. AddToFList(list, n) = InsertAt(list, j, n)
  <2> HIDE DEF before, j, Less
  <2> QED  BY <1>4, <1>5
<1> HIDE DEF j, before, Not
<1> QED  BY <1>2, <1>6

\* An entry inserted at j.
LEMMA Inserted ==
  ASSUME NEW D, NEW list \in Seq(D), NEW n \in D, NEW j \in 1 .. Len(list) + 1
  PROVE  /\ InsertAt(list, j, n) \in Seq(D) /\ Len(InsertAt(list, j, n)) = Len(list) + 1
         /\ \A k \in 1 .. Len(list) + 1 :
              InsertAt(list, j, n)[k] =
                IF k < j THEN list[k] ELSE IF k = j THEN n ELSE list[k - 1]
<1> DEFINE r == InsertAt(list, j, n)
           a == SubSeq(list, 1, j - 1)
           b == SubSeq(list, j, Len(list))
           m == Len(list)
<1>0. m \in Nat /\ j \in Nat /\ 1 <= j /\ j <= m + 1 /\ \A k \in 1 .. m : list[k] \in D
  BY LenProperties
<1>1. a \in Seq(D) /\ Len(a) = j - 1 /\ \A k \in 1 .. j - 1 : a[k] = list[k]
  <2>1. j - 1 \in Nat /\ j - 1 <= Len(list)
    BY <1>0
  <2> QED  BY <2>1, PrefixShape
<1>2. b \in Seq(D) /\ Len(b) = m - j + 1 /\ \A k \in 1 .. m - j + 1 : b[k] = list[j + k - 1]
  <2>1. j \in 1 .. Len(list) + 1 /\ m \in j - 1 .. Len(list)
    BY <1>0
  <2> QED  BY <1>0, <2>1, SubSeqProperties
<1> HIDE DEF a, b, m
<1>3. <<n>> \in Seq(D) /\ Len(<<n>>) = 1 /\ <<n>>[1] = n
  OBVIOUS
<1> DEFINE c == a \o <<n>>
<1>4. c \in Seq(D) /\ Len(c) = j /\ \A k \in 1 .. j : c[k] = IF k < j THEN list[k] ELSE n
  BY <1>0, <1>1, <1>3, ConcatProperties
<1>5. r = c \o b
  BY DEF a, b, m, InsertAt
<1> HIDE DEF c, r
<1>6. /\ r \in Seq(D) /\ Len(r) = m + 1
      /\ \A k \in 1 .. m + 1 : r[k] = IF k <= j THEN c[k] ELSE b[k - j]
  <2>1. /\ c \o b \in Seq(D) /\ Len(c \o b) = Len(c) + Len(b)
        /\ \A k \in 1 .. Len(c) + Len(b) : (c \o b)[k] = IF k <= Len(c) THEN c[k] ELSE b[k - Len(c)]
    BY <1>2, <1>4, ConcatProperties
  <2>2. Len(c) + Len(b) = m + 1 /\ Len(c) = j
    BY <1>0, <1>2, <1>4
  <2> QED  BY <1>5, <2>1, <2>2
<1>7. ASSUME NEW k \in 1 .. m + 1
      PROVE  r[k] = IF k < j THEN list[k] ELSE IF k = j THEN n ELSE list[k - 1]
  <2>0. k \in Nat /\ 1 <= k /\ k <= m + 1
    BY <1>0
  <2>2. CASE k <= j
    <3>1. k \in 1 .. j /\ (~(k < j) => k = j)
      BY <1>0, <2>0, <2>2
    <3>2. r[k] = c[k]
      BY <1>6, <2>2
    <3> QED  BY <1>4, <3>1, <3>2
  <2>3. CASE k > j
    <3>1. /\ k - j \in 1 .. m - j + 1 /\ j + (k - j) - 1 = k - 1
          /\ ~(k <= j) /\ ~(k < j) /\ k # j
      BY <1>0, <2>0, <2>3
    <3>2. r[k] = b[k - j] /\ b[k - j] = list[k - 1]
      BY <1>2, <1>6, <3>1
    <3> QED  BY <3>1, <3>2
  <2>4. k <= j \/ k > j
    BY <1>0, <2>0
  <2> QED  BY <2>2, <2>3, <2>4
<1>8. m = Len(list)
  BY DEF m
<1> QED  BY <1>6, <1>7, <1>8 DEF r

LEMMA AddKeepsSorted ==
  ASSUME NEW S, NEW n, n \notin S, Named(S \cup {n}), NEW list, SortedList(list, S)
  PROVE  SortedList(AddToFList(list, n), S \cup {n})
<1> DEFINE D == S \cup {n}
           r == AddToFList(list, n)
           m == Len(list)
           key(x) == Nocase(x.name)
<1>0. /\ list \in Seq(S) /\ list \in Seq(D) /\ n \in D /\ m \in Nat /\ DOMAIN list = 1 .. m
      /\ \A k \in 1 .. m : list[k] \in S /\ list[k] # n
  BY LenProperties DEF SortedList
<1>1. PICK j \in 1 .. m + 1 :
        /\ r = InsertAt(list, j, n)
        /\ \A k \in 1 .. j - 1 : key(list[k]) < key(n)
        /\ j <= m => ~(key(list[j]) < key(n))
  <2> HIDE DEF D
  <2>1. Named(D)
    BY DEF D
  <2> QED  BY <1>0, <2>1, AddPlace
<1>2. /\ r \in Seq(D) /\ Len(r) = m + 1
      /\ \A k \in 1 .. m + 1 : r[k] = IF k < j THEN list[k] ELSE IF k = j THEN n ELSE list[k - 1]
  <2>1. m = Len(list)
    OBVIOUS
  <2>2. j \in 1 .. Len(list) + 1 /\ r = InsertAt(list, j, n)
    BY <1>1
  <2>3. list \in Seq(D) /\ n \in D
    BY <1>0
  <2> HIDE DEF D, r, m
  <2>4. j \in 1 .. Len(list) + 1
    BY <2>2
  <2>5. /\ InsertAt(list, j, n) \in Seq(D) /\ Len(InsertAt(list, j, n)) = Len(list) + 1
        /\ \A k \in 1 .. Len(list) + 1 :
             InsertAt(list, j, n)[k] =
               IF k < j THEN list[k] ELSE IF k = j THEN n ELSE list[k - 1]
    BY <2>3, <2>4, Inserted
  <2> QED  BY <2>1, <2>2, <2>5
<1>3. \A x \in D : key(x) \in Nat
  BY DEF Named
<1>4. \A i, k \in 1 .. m : i < k => list[i] # list[k] /\ key(list[i]) <= key(list[k])
  BY DEF SortedList
<1> HIDE DEF D, r, key
<1>5. \A k \in 1 .. m : k >= j => key(n) <= key(list[k])
  <2> SUFFICES ASSUME NEW k \in 1 .. m, k >= j PROVE key(n) <= key(list[k])
    OBVIOUS
  <2> HIDE DEF m
  <2>1. j \in 1 .. m /\ (j < k \/ j = k)
    BY <1>0
  <2>2. key(list[j]) \in Nat /\ key(list[k]) \in Nat /\ key(n) \in Nat
    BY <1>0, <1>3, <2>1 DEF D
  <2>3. key(n) <= key(list[j])
    BY <1>1, <2>1, <2>2
  <2>4. key(list[j]) <= key(list[k])
    BY <1>4, <2>1, <2>2
  <2> QED  BY <2>2, <2>3, <2>4
<1>6. \A k \in 1 .. m : k < j => key(list[k]) <= key(n)
  <2> SUFFICES ASSUME NEW k \in 1 .. m, k < j PROVE key(list[k]) <= key(n)
    OBVIOUS
  <2> HIDE DEF m
  <2>1. k \in 1 .. j - 1 /\ key(list[k]) \in Nat /\ key(n) \in Nat
    BY <1>0, <1>3 DEF D
  <2> QED  BY <1>1, <2>1
<1>7. ASSUME NEW x \in D PROVE \E i \in 1 .. m + 1 : r[i] = x
  <2>1. CASE x = n
    BY <1>0, <1>2, <2>1
  <2>2. CASE x \in S
    <3>1. PICK i \in 1 .. m : list[i] = x
      BY <2>2 DEF SortedList
    <3> HIDE DEF m
    <3>2. CASE i < j
      BY <1>0, <1>2, <3>1, <3>2
    <3>3. CASE ~(i < j)
      <4>1. i + 1 \in 1 .. m + 1 /\ ~(i + 1 < j) /\ i + 1 # j /\ (i + 1) - 1 = i
        BY <1>0, <3>3
      <4> QED  BY <1>2, <3>1, <4>1
    <3> QED  BY <3>2, <3>3
  <2> QED  BY <2>1, <2>2 DEF D
<1>8. ASSUME NEW i \in 1 .. m + 1, NEW k \in 1 .. m + 1, i < k
      PROVE  r[i] # r[k] /\ key(r[i]) <= key(r[k])
  <2> HIDE DEF m
  <2>1. CASE k < j
    <3>1. i \in 1 .. m /\ k \in 1 .. m /\ i < j
      BY <1>0, <1>8, <2>1
    <3> QED  BY <1>2, <1>4, <1>8, <2>1, <3>1
  <2>2. CASE k = j
    <3>1. i \in 1 .. m /\ i < j
      BY <1>0, <1>8, <2>2
    <3>2. r[i] = list[i] /\ r[k] = n
      BY <1>2, <2>2, <3>1
    <3> QED  BY <1>0, <1>6, <3>1, <3>2
  <2>3. CASE k > j /\ i = j
    <3>1. k - 1 \in 1 .. m /\ k - 1 >= j /\ ~(k < j) /\ k # j
      BY <1>0, <1>8, <2>3
    <3>2. r[i] = n /\ r[k] = list[k - 1]
      BY <1>2, <2>3, <3>1
    <3> QED  BY <1>0, <1>5, <3>1, <3>2
  <2>4. CASE k > j /\ i < j
    <3>1. k - 1 \in 1 .. m /\ i \in 1 .. m /\ i < k - 1 /\ ~(k < j) /\ k # j
      BY <1>0, <1>8, <2>4
    <3>2. r[i] = list[i] /\ r[k] = list[k - 1]
      BY <1>2, <2>4, <3>1
    <3> QED  BY <1>4, <3>1, <3>2
  <2>5. CASE k > j /\ i > j
    <3>1. /\ k - 1 \in 1 .. m /\ i - 1 \in 1 .. m /\ i - 1 < k - 1 /\ ~(k < j) /\ k # j
          /\ ~(i < j) /\ i # j
      BY <1>0, <1>8, <2>5
    <3>2. r[i] = list[i - 1] /\ r[k] = list[k - 1]
      BY <1>2, <2>5, <3>1
    <3> QED  BY <1>4, <3>1, <3>2
  <2> QED  BY <1>0, <2>1, <2>2, <2>3, <2>4, <2>5
<1> HIDE DEF m
<1>9. SortedList(r, D)
  BY <1>2, <1>7, <1>8 DEF SortedList, key
<1> QED  BY <1>9 DEF r, D

AllAdded(base, s) == FoldLeft(AddToFList, base, s)

\* Adding entry by entry: r[k] is the list after the first k.
Adds(r, base, s, n) ==
  /\ r[0] = base
  /\ \A k \in 1 .. n : r[k] = AddToFList(r[k - 1], s[k])

LEMMA AddsInTurn ==
  ASSUME NEW D, Named(D), NEW base \in Seq(D), NEW n \in Nat, NEW s \in [1 .. n -> D]
  PROVE  \E r : Adds(r, base, s, n) /\ AllAdded(base, s) = r[n]
<1> DEFINE L == Seq(D)
           op == [p \in L \X (1 .. n) |-> AddToFList(p[1], s[p[2]])]
<1>1. \A list \in L, i \in 1 .. n : AddToFList(list, s[i]) \in L
  <2> SUFFICES ASSUME NEW list \in Seq(D), NEW i \in 1 .. n
               PROVE  AddToFList(list, s[i]) \in Seq(D)
    OBVIOUS
  <2>1. s[i] \in D
    OBVIOUS
  <2>2. PICK j \in 1 .. Len(list) + 1 : AddToFList(list, s[i]) = InsertAt(list, j, s[i])
    BY <2>1, AddPlace
  <2>3. InsertAt(list, j, s[i]) \in Seq(D)
    BY <2>1, Inserted
  <2> QED  BY <2>2, <2>3
<1> HIDE DEF L
<1>2. op \in [L \X (1 .. n) -> L]
  BY <1>1
<1>3. base \in L
  BY DEF L
<1>4. PICK F0 \in [SUBSET (1 .. n) -> L] : IsFold(F0, base, op, n)
  <2> HIDE DEF op
  <2> QED  BY <1>2, <1>3, FoldIsDefined
<1> DEFINE Is(F) == F = [T \in SUBSET DOMAIN s |->
                           IF T = {} THEN base ELSE AddToFList(F[T \ {Max(T)}], s[Max(T)])]
           G == CHOOSE F : Is(F)
<1>5. DOMAIN s = 1 .. n
  OBVIOUS
<1>6. Is(F0)
  <2>1. ASSUME NEW T \in SUBSET (1 .. n), T # {}
        PROVE  op[<<F0[T \ {Max(T)}], Max(T)>>] = AddToFList(F0[T \ {Max(T)}], s[Max(T)])
    <3>1. Max(T) \in T
      BY <2>1, MaxOfRange
    <3>2. T \ {Max(T)} \in SUBSET (1 .. n) /\ Max(T) \in 1 .. n
      BY <3>1
    <3>3. F0[T \ {Max(T)}] \in L
      BY <1>4, <3>2
    <3> QED  BY <3>2, <3>3
  <2> HIDE DEF op
  <2>2. ASSUME NEW T \in SUBSET (1 .. n)
        PROVE  (IF T = {} THEN base ELSE op[<<F0[T \ {Max(T)}], Max(T)>>])
               = IF T = {} THEN base ELSE AddToFList(F0[T \ {Max(T)}], s[Max(T)])
    BY <2>1
  <2> QED  BY <1>4, <1>5, <2>2 DEF IsFold
<1>7. Is(G)
  <2> HIDE DEF Is
  <2> QED  BY <1>6
<1>8. AllAdded(base, s) = G[DOMAIN s]
  BY DEF AllAdded, FoldLeft, MapThenFoldSet
<1> HIDE DEF G
<1>9. G[{}] = base
  BY <1>5, <1>7
<1>10. ASSUME NEW k \in 1 .. n PROVE G[1 .. k] = AddToFList(G[1 .. k - 1], s[k])
  <2>1. /\ 1 .. k \in SUBSET (1 .. n) /\ 1 .. k # {}
        /\ Max(1 .. k) = k /\ (1 .. k) \ {Max(1 .. k)} = 1 .. k - 1
    BY FoldInOrder
  <2>2. G[1 .. k] = AddToFList(G[(1 .. k) \ {Max(1 .. k)}], s[Max(1 .. k)])
    BY <1>5, <1>7, <2>1
  <2> QED  BY <2>1, <2>2
<1> HIDE DEF Is
<1> DEFINE r == [k \in 0 .. n |-> G[1 .. k]]
<1>11. r[0] = base
  <2>1. 0 \in 0 .. n /\ 1 .. 0 = {}
    OBVIOUS
  <2> QED  BY <1>9, <2>1
<1>12. \A k \in 1 .. n : r[k] = AddToFList(r[k - 1], s[k])
  <2> SUFFICES ASSUME NEW k \in 1 .. n PROVE r[k] = AddToFList(r[k - 1], s[k])
    OBVIOUS
  <2>1. k \in 0 .. n /\ k - 1 \in 0 .. n
    OBVIOUS
  <2> QED  BY <1>10, <2>1
<1>13. AllAdded(base, s) = r[n]
  BY <1>5, <1>8
<1> HIDE DEF r
<1> QED  BY <1>11, <1>12, <1>13 DEF Adds

\* The rows of one kind, taken row by row.
LEMMA RowsInTurn ==
  ASSUME NEW D, bl_top \in Seq(D), NEW kind, NEW n \in Nat, n = Len(bl_top)
  PROVE  \E r : /\ r[0] = <<>>
                /\ \A k \in 1 .. n :
                     r[k] = IF Kind(bl_top[k]) = kind THEN Append(r[k - 1], bl_top[k]) ELSE r[k - 1]
                /\ OfKind(kind) = r[n]
<1> DEFINE L == Seq(D)
           Step(rows, x) == IF Kind(x) = kind THEN Append(rows, x) ELSE rows
           op == [p \in L \X (1 .. n) |-> Step(p[1], bl_top[p[2]])]
<1>5. DOMAIN bl_top = 1 .. n /\ \A i \in 1 .. n : bl_top[i] \in D
  BY LenProperties
<1>1. \A list \in L, i \in 1 .. n : Step(list, bl_top[i]) \in L
  <2> SUFFICES ASSUME NEW list \in L, NEW i \in 1 .. n PROVE Step(list, bl_top[i]) \in L
    OBVIOUS
  <2>1. Append(list, bl_top[i]) \in Seq(D)
    BY <1>5, AppendProperties
  <2> QED  BY <2>1
<1>3. <<>> \in L
  BY EmptySeq
<1> HIDE DEF L
<1>2. op \in [L \X (1 .. n) -> L]
  <2> HIDE DEF Step
  <2> QED  BY <1>1
<1>4. PICK F0 \in [SUBSET (1 .. n) -> L] : IsFold(F0, <<>>, op, n)
  <2> HIDE DEF op
  <2> QED  BY <1>2, <1>3, FoldIsDefined
<1> DEFINE Is(F) == F = [T \in SUBSET DOMAIN bl_top |->
                           IF T = {} THEN <<>> ELSE Step(F[T \ {Max(T)}], bl_top[Max(T)])]
           G == CHOOSE F : Is(F)
<1>6. Is(F0)
  <2> HIDE DEF Step
  <2>1. ASSUME NEW T \in SUBSET (1 .. n), T # {}
        PROVE  op[<<F0[T \ {Max(T)}], Max(T)>>] = Step(F0[T \ {Max(T)}], bl_top[Max(T)])
    <3>1. Max(T) \in T
      BY <2>1, MaxOfRange
    <3>2. T \ {Max(T)} \in SUBSET (1 .. n) /\ Max(T) \in 1 .. n
      BY <3>1
    <3>3. F0[T \ {Max(T)}] \in L
      BY <1>4, <3>2
    <3> QED  BY <3>2, <3>3
  <2> HIDE DEF op
  <2>2. ASSUME NEW T \in SUBSET (1 .. n)
        PROVE  (IF T = {} THEN <<>> ELSE op[<<F0[T \ {Max(T)}], Max(T)>>])
               = IF T = {} THEN <<>> ELSE Step(F0[T \ {Max(T)}], bl_top[Max(T)])
    BY <2>1
  <2> QED  BY <1>4, <1>5, <2>2 DEF IsFold
<1>7. Is(G)
  <2> HIDE DEF Is
  <2> QED  BY <1>6
<1>8. OfKind(kind) = G[DOMAIN bl_top]
  BY DEF OfKind, FoldLeft, MapThenFoldSet
<1> HIDE DEF G, Step
<1>9. G[{}] = <<>>
  BY <1>5, <1>7
<1>10. ASSUME NEW k \in 1 .. n PROVE G[1 .. k] = Step(G[1 .. k - 1], bl_top[k])
  <2>1. /\ 1 .. k \in SUBSET (1 .. n) /\ 1 .. k # {}
        /\ Max(1 .. k) = k /\ (1 .. k) \ {Max(1 .. k)} = 1 .. k - 1
    BY FoldInOrder
  <2>2. G[1 .. k] = Step(G[(1 .. k) \ {Max(1 .. k)}], bl_top[Max(1 .. k)])
    BY <1>5, <1>7, <2>1
  <2> QED  BY <2>1, <2>2
<1> HIDE DEF Is
<1> DEFINE r == [k \in 0 .. n |-> G[1 .. k]]
<1>11. r[0] = <<>>
  <2>1. 0 \in 0 .. n /\ 1 .. 0 = {}
    OBVIOUS
  <2> QED  BY <1>9, <2>1
<1>12. \A k \in 1 .. n : r[k] = Step(r[k - 1], bl_top[k])
  <2> SUFFICES ASSUME NEW k \in 1 .. n PROVE r[k] = Step(r[k - 1], bl_top[k])
    OBVIOUS
  <2>1. k \in 0 .. n /\ k - 1 \in 0 .. n
    OBVIOUS
  <2> QED  BY <1>10, <2>1
<1>13. OfKind(kind) = r[n]
  BY <1>5, <1>8
<1> HIDE DEF r
<1> QED  BY <1>11, <1>12, <1>13 DEF Step

LEMMA FoundSorted ==
  ASSUME NEW S, IsFiniteSet(S), NEW found \in SetToSeqs(S),
         NEW B, NEW base, SortedList(base, B), B \cap S = {}, Named(B \cup S)
  PROVE  SortedList(AllAdded(base, found), B \cup S)
<1> DEFINE n == Cardinality(S)
           D == B \cup S
           Upto(k) == B \cup {found[i] : i \in 1 .. k}
<1>1. /\ n \in Nat /\ found \in [1 .. n -> S]
      /\ \A i, j \in 1 .. n : i # j => found[i] # found[j]
  BY FS_CardinalityType DEF SetToSeqs
<1>2. \A x \in S : \E i \in 1 .. n : found[i] = x
  <2>1. found \in Injection(1 .. n, S)
    BY <1>1 DEF Injection, IsInjective
  <2>2. Cardinality(1 .. n) = n
    <3>1. 1 \in Int /\ n \in Int /\ (1 > n => n = 0) /\ n - 1 + 1 = n
      BY <1>1
    <3> HIDE DEF n
    <3> QED  BY <3>1, FS_Interval
  <2>3. found \in Surjection(1 .. n, S)
    BY <2>1, <2>2, FS_Injection
  <2> QED  BY <2>3 DEF Surjection
<1> HIDE DEF n
<1>3. base \in Seq(D) /\ found \in [1 .. n -> D]
  <2>1. base \in Seq(B)
    BY DEF SortedList
  <2> QED  BY <1>1, <2>1
<1>10. PICK r : Adds(r, base, found, n) /\ AllAdded(base, found) = r[n]
  <2>1. Named(D)
    OBVIOUS
  <2> HIDE DEF D
  <2> QED  BY <1>1, <1>3, <2>1, AddsInTurn
<1>4. /\ r[0] = base
      /\ \A k \in 1 .. n : r[k] = AddToFList(r[k - 1], found[k])
      /\ AllAdded(base, found) = r[n]
  BY <1>10 DEF Adds
<1> DEFINE K == {k \in Nat : k <= n => SortedList(r[k], Upto(k))}
<1>5. 0 \in K
  <2>1. Upto(0) = B
    OBVIOUS
  <2> HIDE DEF Upto
  <2> QED  BY <1>4, <2>1
<1>6. ASSUME NEW k \in Nat, k \in K PROVE k + 1 \in K
  <2>1. k + 1 \in Nat
    OBVIOUS
  <2>2. ASSUME k + 1 <= n PROVE SortedList(r[k + 1], Upto(k + 1))
    <3>1. k <= n /\ k + 1 \in 1 .. n /\ (k + 1) - 1 = k
      BY <1>1, <2>2
    <3>2. SortedList(r[k], Upto(k))
      BY <1>6, <3>1
    <3>3. r[k + 1] = AddToFList(r[k], found[k + 1])
      BY <1>4, <3>1
    <3>4. found[k + 1] \notin Upto(k)
      <4>1. \A i \in 1 .. k : i \in 1 .. n /\ i # k + 1
        BY <1>1, <2>2
      <4>2. found[k + 1] \in S
        BY <1>1, <3>1
      <4> QED  BY <1>1, <3>1, <4>1, <4>2
    <3>5. Upto(k + 1) = Upto(k) \cup {found[k + 1]}
      <4>1. 1 .. k + 1 = 1 .. k \cup {k + 1}
        OBVIOUS
      <4> QED  BY <4>1
    <3>6. Upto(k + 1) \subseteq D
      <4>1. \A i \in 1 .. k + 1 : i \in 1 .. n
        BY <1>1, <2>2
      <4> QED  BY <1>1, <4>1
    <3>7. Named(Upto(k) \cup {found[k + 1]})
      BY <3>5, <3>6 DEF Named
    <3> HIDE DEF Upto
    <3> QED  BY <3>2, <3>3, <3>4, <3>5, <3>7, AddKeepsSorted
  <2> HIDE DEF Upto
  <2> QED  BY <2>1, <2>2
<1>7. n \in K
  <2> HIDE DEF K
  <2> QED  BY <1>1, <1>5, <1>6, Induction
<1>8. Upto(n) = B \cup S
  BY <1>1, <1>2
<1>9. SortedList(r[n], Upto(n))
  <2>1. n <= n
    BY <1>1
  <2> HIDE DEF Upto
  <2> QED  BY <1>7, <2>1
<1> QED  BY <1>4, <1>8, <1>9

LEMMA AppendKeepsSorted ==
  ASSUME NEW S, NEW list, SortedList(list, S), NEW n,
         \A x \in S : x # n /\ Nocase(x.name) <= Nocase(n.name)
  PROVE  SortedList(Append(list, n), S \cup {n})
<1> DEFINE D == S \cup {n}
           r == Append(list, n)
           m == Len(list)
           key(x) == Nocase(x.name)
<1>1. /\ list \in Seq(S) /\ list \in Seq(D) /\ n \in D /\ m \in Nat
      /\ \A k \in 1 .. m : list[k] \in S
  BY LenProperties DEF SortedList
<1>2. r \in Seq(D) /\ Len(r) = m + 1 /\ (\A k \in 1 .. m : r[k] = list[k]) /\ r[m + 1] = n
  BY <1>1, AppendProperties
<1>3. ASSUME NEW x \in D PROVE \E i \in 1 .. m + 1 : r[i] = x
  <2>1. CASE x = n
    BY <1>1, <1>2, <2>1
  <2>2. CASE x \in S
    <3>1. PICK i \in 1 .. m : list[i] = x
      BY <2>2 DEF SortedList
    <3>2. i \in 1 .. m + 1
      BY <1>1
    <3> HIDE DEF m, r
    <3> QED  BY <1>2, <3>1, <3>2
  <2> QED  BY <2>1, <2>2
<1>4. ASSUME NEW i \in 1 .. m + 1, NEW k \in 1 .. m + 1, i < k
      PROVE  r[i] # r[k] /\ key(r[i]) <= key(r[k])
  <2>0. i \in 1 .. m /\ (k \in 1 .. m \/ k = m + 1)
    BY <1>1, <1>4
  <2>1. CASE k \in 1 .. m
    <3>1. list[i] # list[k] /\ key(list[i]) <= key(list[k])
      BY <1>4, <2>0, <2>1 DEF SortedList
    <3> QED  BY <1>2, <2>0, <2>1, <3>1
  <2>2. CASE k = m + 1
    <3>1. list[i] # n /\ key(list[i]) <= key(n)
      BY <1>1, <2>0
    <3> QED  BY <1>2, <2>0, <2>2, <3>1
  <2> QED  BY <2>0, <2>1, <2>2
<1> HIDE DEF r, m, D
<1>5. SortedList(r, D)
  BY <1>2, <1>3, <1>4 DEF SortedList
<1> QED  BY <1>5 DEF r, D

LEMMA RowsOfKindSorted ==
  ASSUME NEW S, SortedList(bl_top, S), NEW kind
  PROVE  SortedList(OfKind(kind), {x \in S : Kind(x) = kind})
<1> DEFINE n == Len(bl_top)
           Upto(k) == {x \in S : Kind(x) = kind /\ \E i \in 1 .. k : bl_top[i] = x}
<1>1. /\ bl_top \in Seq(S) /\ n \in Nat /\ \A k \in 1 .. n : bl_top[k] \in S
      /\ \A i, j \in 1 .. n : i < j =>
           bl_top[i] # bl_top[j] /\ Nocase(bl_top[i].name) <= Nocase(bl_top[j].name)
  BY LenProperties DEF SortedList
<1>2. PICK r : /\ r[0] = <<>>
               /\ \A k \in 1 .. n :
                    r[k] = IF Kind(bl_top[k]) = kind THEN Append(r[k - 1], bl_top[k]) ELSE r[k - 1]
               /\ OfKind(kind) = r[n]
  BY <1>1, RowsInTurn
<1>0. \A x \in S : \E i \in 1 .. n : bl_top[i] = x
  BY DEF SortedList
<1> HIDE DEF n
<1> DEFINE K == {k \in Nat : k <= n => SortedList(r[k], Upto(k))}
<1>3. 0 \in K
  <2>1. Upto(0) = {}
    OBVIOUS
  <2>2. SortedList(<<>>, {})
    <3>1. <<>> \in Seq({}) /\ Len(<<>>) = 0 /\ 1 .. 0 = {}
      OBVIOUS
    <3> QED  BY <3>1 DEF SortedList
  <2> HIDE DEF Upto
  <2> QED  BY <1>2, <2>1, <2>2
<1>4. ASSUME NEW k \in Nat, k \in K PROVE k + 1 \in K
  <2>1. k + 1 \in Nat
    OBVIOUS
  <2>2. ASSUME k + 1 <= n PROVE SortedList(r[k + 1], Upto(k + 1))
    <3>1. k <= n /\ k + 1 \in 1 .. n /\ (k + 1) - 1 = k
      BY <1>1, <2>2
    <3>2. SortedList(r[k], Upto(k))
      BY <1>4, <3>1
    <3>3. 1 .. k + 1 = 1 .. k \cup {k + 1}
      OBVIOUS
    <3> DEFINE x == bl_top[k + 1]
    <3>4. CASE Kind(x) = kind
      <4>1. r[k + 1] = Append(r[k], x)
        BY <1>2, <3>1, <3>4
      <4>2. Upto(k + 1) = Upto(k) \cup {x}
        BY <1>1, <3>1, <3>3, <3>4
      <4>3. ASSUME NEW y \in Upto(k) PROVE y # x /\ Nocase(y.name) <= Nocase(x.name)
        <5>1. PICK i \in 1 .. k : bl_top[i] = y
          BY <4>3
        <5>2. i \in 1 .. n /\ i < k + 1
          BY <1>1, <2>2
        <5> QED  BY <1>1, <3>1, <5>1, <5>2
      <4> HIDE DEF Upto, x
      <4> QED  BY <3>2, <4>1, <4>2, <4>3, AppendKeepsSorted
    <3>5. CASE Kind(x) # kind
      <4>1. r[k + 1] = r[k]
        BY <1>2, <3>1, <3>5
      <4>2. Upto(k + 1) = Upto(k)
        BY <3>3, <3>5
      <4> HIDE DEF Upto, x
      <4> QED  BY <3>2, <4>1, <4>2
    <3> QED  BY <3>4, <3>5
  <2> HIDE DEF Upto
  <2> QED  BY <2>1, <2>2
<1>5. n \in K
  <2> HIDE DEF K
  <2> QED  BY <1>1, <1>3, <1>4, Induction
<1>6. Upto(n) = {x \in S : Kind(x) = kind}
  BY <1>0
<1>7. SortedList(r[n], Upto(n))
  <2>1. n <= n
    BY <1>1
  <2> HIDE DEF Upto
  <2> QED  BY <1>5, <2>1
<1> QED  BY <1>2, <1>6, <1>7

\* Rows that show S: each entry once, kind by kind and by name.
InRowOrder(x, y) ==
  \/ Kind(x) < Kind(y)
  \/ Kind(x) = Kind(y) /\ Nocase(x.name) <= Nocase(y.name)

Shows(rows, S) ==
  /\ rows \in Seq(S)
  /\ \A x \in S : \E i \in 1 .. Len(rows) : rows[i] = x
  /\ \A i, j \in 1 .. Len(rows) : i < j => rows[i] # rows[j] /\ InRowOrder(rows[i], rows[j])

LEMMA ConcatShows ==
  ASSUME NEW A, NEW a, Shows(a, A), NEW B, NEW b, Shows(b, B),
         \A x \in A, y \in B : Kind(x) < Kind(y) /\ x # y
  PROVE  Shows(a \o b, A \cup B)
<1> DEFINE D == A \cup B
           r == a \o b
           m == Len(a)
           l == Len(b)
<1>1. /\ a \in Seq(D) /\ b \in Seq(D) /\ m \in Nat /\ l \in Nat
      /\ \A k \in 1 .. m : a[k] \in A
      /\ \A k \in 1 .. l : b[k] \in B
  BY LenProperties DEF Shows
<1>2. r \in Seq(D) /\ Len(r) = m + l /\ \A k \in 1 .. m + l : r[k] = IF k <= m THEN a[k] ELSE b[k - m]
  <2> HIDE DEF D
  <2> QED  BY <1>1, ConcatProperties
<1> HIDE DEF r
<1>3. \A k \in 1 .. m + l : \/ k \in 1 .. m /\ r[k] = a[k]
                            \/ k > m /\ k - m \in 1 .. l /\ r[k] = b[k - m]
  <2> SUFFICES ASSUME NEW k \in 1 .. m + l
               PROVE  \/ k \in 1 .. m /\ r[k] = a[k]
                      \/ k > m /\ k - m \in 1 .. l /\ r[k] = b[k - m]
    OBVIOUS
  <2> HIDE DEF m, l
  <2>1. CASE k <= m
    BY <1>1, <1>2, <2>1
  <2>2. CASE ~(k <= m)
    <3>1. k > m /\ k - m \in 1 .. l
      BY <1>1, <2>2
    <3> QED  BY <1>2, <2>2, <3>1
  <2> QED  BY <2>1, <2>2
<1>4. ASSUME NEW x \in D PROVE \E i \in 1 .. m + l : r[i] = x
  <2>1. CASE x \in A
    <3>1. PICK i \in 1 .. m : a[i] = x
      BY <2>1 DEF Shows
    <3> HIDE DEF m, l
    <3>2. i \in 1 .. m + l /\ i <= m
      BY <1>1
    <3> QED  BY <1>2, <3>1, <3>2
  <2>2. CASE x \in B
    <3>1. PICK i \in 1 .. l : b[i] = x
      BY <2>2 DEF Shows
    <3> HIDE DEF m, l
    <3>2. m + i \in 1 .. m + l /\ ~(m + i <= m) /\ (m + i) - m = i
      BY <1>1
    <3>3. r[m + i] = b[i]
      BY <1>2, <3>2
    <3> QED  BY <3>1, <3>2, <3>3
  <2> QED  BY <2>1, <2>2
<1>5. ASSUME NEW i \in 1 .. m + l, NEW k \in 1 .. m + l, i < k
      PROVE  r[i] # r[k] /\ InRowOrder(r[i], r[k])
  <2>1. CASE i \in 1 .. m /\ r[i] = a[i] /\ k \in 1 .. m /\ r[k] = a[k]
    BY <1>5, <2>1 DEF Shows
  <2>2. CASE /\ i \in 1 .. m /\ r[i] = a[i]
             /\ k > m /\ k - m \in 1 .. l /\ r[k] = b[k - m]
    BY <1>1, <2>2 DEF InRowOrder
  <2>3. CASE /\ i > m /\ i - m \in 1 .. l /\ r[i] = b[i - m]
             /\ k > m /\ k - m \in 1 .. l /\ r[k] = b[k - m]
    <3>1. i - m < k - m
      BY <1>1, <1>5
    <3>2. b[i - m] # b[k - m] /\ InRowOrder(b[i - m], b[k - m])
      BY <2>3, <3>1 DEF Shows
    <3> QED  BY <2>3, <3>2
  <2>4. CASE i > m /\ k \in 1 .. m
    BY <1>1, <1>5, <2>4
  <2> QED  BY <1>3, <2>1, <2>2, <2>3, <2>4
<1> HIDE DEF m, l, D
<1>6. Shows(r, D)
  BY <1>2, <1>4, <1>5 DEF Shows
<1> QED  BY <1>6 DEF r, D

LEMMA RowsShow ==
  ASSUME NEW S, SortedList(bl_top, S)
  PROVE  Shows(Rows, S)
<1> DEFINE Of(k) == {x \in S : Kind(x) = k}
<1>1. ASSUME NEW k PROVE Shows(OfKind(k), Of(k))
  <2>1. SortedList(OfKind(k), Of(k))
    BY RowsOfKindSorted
  <2>2. \A i \in 1 .. Len(OfKind(k)) : OfKind(k)[i] \in Of(k)
    <3> HIDE DEF Of
    <3> QED  BY <2>1, LenProperties DEF SortedList
  <2>3. \A i \in 1 .. Len(OfKind(k)) : Kind(OfKind(k)[i]) = k
    BY <2>2
  <2> HIDE DEF Of
  <2> QED  BY <2>1, <2>3 DEF SortedList, Shows, InRowOrder
<1>2. Shows(OfKind(0) \o OfKind(1), Of(0) \cup Of(1))
  <2>1. \A x \in Of(0), y \in Of(1) : Kind(x) < Kind(y) /\ x # y
    OBVIOUS
  <2> HIDE DEF Of
  <2> QED  BY <1>1, <2>1, ConcatShows
<1>3. Shows((OfKind(0) \o OfKind(1)) \o OfKind(2), (Of(0) \cup Of(1)) \cup Of(2))
  <2>1. \A x \in Of(0) \cup Of(1), y \in Of(2) : Kind(x) < Kind(y) /\ x # y
    OBVIOUS
  <2> HIDE DEF Of
  <2> QED  BY <1>1, <1>2, <2>1, ConcatShows
<1>4. (Of(0) \cup Of(1)) \cup Of(2) = S
  BY DEF Kind
<1> HIDE DEF Of
<1> QED  BY <1>3, <1>4 DEF Rows

\* What Shows says is what MenuShowsFolder asks of the rows.
LEMMA ShownOnce ==
  ASSUME NEW S, NEW rows, Shows(rows, S)
  PROVE  /\ ToSet(rows) = S
         /\ Len(rows) = Cardinality(ToSet(rows))
         /\ DOMAIN rows = 1 .. Len(rows)
<1> DEFINE n == Len(rows)
<1>1. /\ n \in Nat /\ DOMAIN rows = 1 .. n /\ rows \in [1 .. n -> S]
      /\ \A i, j \in 1 .. n : i < j => rows[i] # rows[j]
  BY LenProperties DEF Shows
<1>2. ToSet(rows) = S
  BY <1>1 DEF Shows, ToSet
<1>3. \A x \in S : \E i \in 1 .. n : rows[i] = x
  BY DEF Shows
<1> HIDE DEF n
<1>4. \A i, j \in 1 .. n : i # j => rows[i] # rows[j]
  <2>1. \A i, j \in 1 .. n : i # j => i < j \/ j < i
    BY <1>1
  <2> QED  BY <1>1, <2>1
<1>5. rows \in Bijection(1 .. n, S)
  <2>1. rows \in Injection(1 .. n, S)
    BY <1>1, <1>4 DEF Injection, IsInjective
  <2>2. rows \in Surjection(1 .. n, S)
    BY <1>1, <1>3 DEF Surjection
  <2> QED  BY <2>1, <2>2 DEF Bijection
<1>6. IsFiniteSet(1 .. n) /\ Cardinality(1 .. n) = n
  <2>1. 1 \in Int /\ n \in Int /\ (1 > n => n = 0) /\ n - 1 + 1 = n
    BY <1>1
  <2> QED  BY <2>1, FS_Interval
<1>7. Cardinality(S) = n
  BY <1>5, <1>6, FS_Bijection DEF ExistsBijection
<1> QED  BY <1>1, <1>2, <1>7 DEF n

-----------------------------------------------------------------------------
(***************************************************************************)
(* The bookmarks on the disk.                                              *)
(***************************************************************************)

IsEntry(n) ==
  /\ n = [dir |-> n.dir, name |-> n.name, ext |-> n.ext, link |-> n.link, meant |-> n.meant]
  /\ n.name \in Names
  /\ n.ext \in {"dir", "url", "oms", "none"}
  /\ n.ext # "url" => n.link = <<>> /\ n.meant = <<>>

FoldersOf(D) == {Root} \cup {Nocase(n.name) : n \in {m \in D : m.ext = "dir"}}

\* Every entry is in a folder that is there, and no two have one path.
Files(D) ==
  /\ IsFiniteSet(D)
  /\ \A n \in D : /\ IsEntry(n) /\ n.dir \in FoldersOf(D)
                  /\ n.ext = "dir" => n.dir = Root
  /\ \A n, o \in D : PathOf(n) = PathOf(o) => n = o

\* What the list of folder d is made of.
Here(d, D) == {n \in D : n.dir = d} \cup (IF d = Root THEN {} ELSE {Back})

\* The entry options and dialog work on: what they need to know of it.
Held ==
  gui \in {"options", "edit"} /\ bl \notin {Null, Back} =>
    /\ IsEntry(bl) /\ bl.dir = bookmarks_current_folder
    /\ bl.ext = "dir" => bl \in disk /\ bl.dir = Root
    /\ bl.ext = "none" => \A o \in disk : PathOf(o) = PathOf(bl) => o.ext = "none"

Modes ==
  gui = "edit" =>
    /\ bl # Null
    /\ edit_mode \in {"EditBookmark", "RenameFolder", "CreateBookmark", "CreateFolder"}
    /\ edit_mode = "EditBookmark" => bl.ext = "url"
    /\ edit_mode = "RenameFolder" => bl.ext \in {"dir", "oms"}
    /\ edit_mode = "CreateFolder" => bookmarks_current_folder = Root

\* No request is open but in the options and the dialog.
Requests ==
  /\ gui \in {"page", "menu"} => bl = Null /\ edit_mode = "none"
  /\ gui = "options" => edit_mode = "none"

MenuOK ==
  /\ gui \in {"page", "menu", "options", "edit"}
  /\ bookmarks_current_folder \in FoldersOf(disk)
  /\ gui = "menu" => SortedList(bl_top, Here(bookmarks_current_folder, disk))
  /\ Held
  /\ Modes
  /\ Requests

BookmarksInv == Files(disk) /\ MenuOK

LEMMA NameNumbers ==
  ASSUME NEW name \in Names
  PROVE  Nocase(name) \in Nat /\ Nocase(name) # Root /\ Nocase(name) # 0
BY NamesAssumption DEF Nocase, Root

LEMMA PathParts ==
  ASSUME NEW n, NEW o
  PROVE  /\ PathOf(n)[2] = Nocase(n.name)
         /\ PathOf(n) = PathOf(o) <=>
              /\ n.dir = o.dir /\ Nocase(n.name) = Nocase(o.name)
              /\ (IF n.ext = "dir" THEN "none" ELSE n.ext) = (IF o.ext = "dir" THEN "none" ELSE o.ext)
<1> DEFINE kn == IF n.ext = "dir" THEN "none" ELSE n.ext
           ko == IF o.ext = "dir" THEN "none" ELSE o.ext
<1>1. PathOf(n) = <<n.dir, Nocase(n.name), kn>> /\ PathOf(o) = <<o.dir, Nocase(o.name), ko>>
  BY DEF PathOf
<1> HIDE DEF kn, ko
<1>2. /\ PathOf(n)[2] = Nocase(n.name)
      /\ PathOf(n) = PathOf(o) <=> n.dir = o.dir /\ Nocase(n.name) = Nocase(o.name) /\ kn = ko
  BY <1>1
<1> QED  BY <1>2 DEF kn, ko

LEMMA FileAdded ==
  ASSUME NEW D, Files(D), NEW n, IsEntry(n), n.dir \in FoldersOf(D),
         n.ext = "dir" => n.dir = Root,
         \A o \in D : PathOf(o) # PathOf(n)
  PROVE  Files(D \cup {n}) /\ FoldersOf(D) \subseteq FoldersOf(D \cup {n})
<1>1. IsFiniteSet(D \cup {n})
  BY FS_AddElement DEF Files
<1>2. FoldersOf(D) \subseteq FoldersOf(D \cup {n})
  BY DEF FoldersOf
<1>3. \A x \in D \cup {n} : /\ IsEntry(x) /\ x.dir \in FoldersOf(D \cup {n})
                            /\ x.ext = "dir" => x.dir = Root
  BY <1>2 DEF Files
<1>4. \A x, y \in D \cup {n} : PathOf(x) = PathOf(y) => x = y
  BY DEF Files
<1> QED  BY <1>1, <1>2, <1>3, <1>4 DEF Files

LEMMA FileRemoved ==
  ASSUME NEW D, Files(D), NEW o \in D,
         o.ext = "dir" => \A n \in D : n.dir # Nocase(o.name)
  PROVE  /\ Files(D \ {o})
         /\ \A d \in FoldersOf(D) : (d = Nocase(o.name) /\ o.ext = "dir") \/ d \in FoldersOf(D \ {o})
<1>1. IsFiniteSet(D \ {o})
  BY FS_RemoveElement DEF Files
<1>2. \A d \in FoldersOf(D) : (d = Nocase(o.name) /\ o.ext = "dir") \/ d \in FoldersOf(D \ {o})
  BY DEF FoldersOf
<1>3. \A x \in D \ {o} : /\ IsEntry(x) /\ x.dir \in FoldersOf(D \ {o})
                         /\ x.ext = "dir" => x.dir = Root
  BY <1>2 DEF Files
<1>4. \A x, y \in D \ {o} : PathOf(x) = PathOf(y) => x = y
  BY DEF Files
<1> QED  BY <1>1, <1>2, <1>3, <1>4 DEF Files

\* A folder moves with all it holds.
Moved(x, f, new) ==
  IF x = f THEN new
  ELSE IF x.dir = Nocase(f.name) THEN [x EXCEPT !.dir = Nocase(new.name)] ELSE x

LEMMA FolderMoved ==
  ASSUME NEW D, Files(D), NEW f \in D, f.ext = "dir",
         NEW new, IsEntry(new), new.ext = "dir", new.dir = Root,
         \A o \in D : PathOf(o) # PathOf(new)
  PROVE  Files({Moved(x, f, new) : x \in D})
<1> DEFINE E == {Moved(x, f, new) : x \in D}
           M(x) == Moved(x, f, new)
<1>1. IsFiniteSet(E)
  <2>1. [x \in D |-> M(x)] \in Surjection(D, E)
    BY DEF Surjection
  <2> HIDE DEF E, M
  <2> QED  BY <2>1, FS_Surjection DEF Files
<1>2. /\ f.name \in Names /\ f.dir = Root
      /\ new.name \in Names /\ Nocase(f.name) # Root /\ Nocase(new.name) # Root
      /\ Nocase(f.name) # Nocase(new.name)
  <2>1. /\ f.name \in Names /\ f.dir = Root /\ new.name \in Names
    BY DEF Files, IsEntry
  <2> QED  BY <2>1, NameNumbers, PathParts
<1>3. ASSUME NEW x \in D
      PROVE  /\ x.dir \in FoldersOf(D) /\ (x.ext = "dir" => x.dir = Root)
             /\ x = f => M(x) = new
             /\ x # f => /\ IsEntry(M(x)) /\ M(x).name = x.name /\ M(x).ext = x.ext
                         /\ x.dir # Nocase(f.name) => M(x) = x
                         /\ x.dir = Nocase(f.name) => M(x).dir = Nocase(new.name) /\ x.ext # "dir"
  <2>1. IsEntry(x) /\ x.dir \in FoldersOf(D) /\ (x.ext = "dir" => x.dir = Root)
    BY DEF Files
  <2>2. x # f /\ x.dir = Nocase(f.name) =>
          /\ IsEntry(M(x)) /\ M(x).name = x.name /\ M(x).ext = x.ext
          /\ M(x).dir = Nocase(new.name) /\ x.ext # "dir"
    BY <1>2, <2>1 DEF IsEntry, Moved
  <2>3. x # f /\ x.dir # Nocase(f.name) => M(x) = x
    BY DEF Moved
  <2>4. x = f => M(x) = new
    BY DEF Moved
  <2> HIDE DEF M
  <2> QED  BY <2>1, <2>2, <2>3, <2>4
<1>4. ASSUME NEW x \in D PROVE x.dir = Nocase(f.name) \/ x.dir \in FoldersOf(E)
  <2>1. CASE x.dir = Root
    BY <2>1 DEF FoldersOf
  <2>2. CASE x.dir # Root
    <3>1. PICK g \in D : g.ext = "dir" /\ x.dir = Nocase(g.name)
      BY <1>3, <2>2 DEF FoldersOf
    <3>2. CASE g = f
      BY <3>1, <3>2
    <3>3. CASE g # f
      <4>1. M(g) = g
        BY <1>2, <1>3, <3>1, <3>3
      <4>2. g \in E
        BY <4>1
      <4> QED  BY <3>1, <4>2 DEF FoldersOf
    <3> QED  BY <3>2, <3>3
  <2> QED  BY <2>1, <2>2
<1>5. Nocase(new.name) \in FoldersOf(E) /\ Root \in FoldersOf(E)
  <2>1. new \in E
    <3>1. M(f) = new
      BY <1>3
    <3> QED  BY <3>1
  <2> QED  BY <2>1 DEF FoldersOf
<1>6. ASSUME NEW x \in D
      PROVE  /\ IsEntry(M(x)) /\ M(x).dir \in FoldersOf(E)
             /\ M(x).ext = "dir" => M(x).dir = Root
  <2> HIDE DEF M, E
  <2>1. CASE x = f
    BY <1>3, <1>5, <2>1
  <2>2. CASE x # f /\ x.dir = Nocase(f.name)
    BY <1>3, <1>5, <2>2
  <2>3. CASE x # f /\ x.dir # Nocase(f.name)
    BY <1>3, <1>4, <2>3
  <2> QED  BY <2>1, <2>2, <2>3
<1>7. ASSUME NEW x \in D, NEW y \in D, PathOf(M(x)) = PathOf(M(y)) PROVE x = y
  <2>1. ASSUME NEW u \in D, NEW v \in D, PathOf(M(u)) = PathOf(M(v)), u = f, v # f PROVE FALSE
    <3>1. CASE v.dir = Nocase(f.name)
      <4>1. M(u).dir = Root /\ M(v).dir = Nocase(new.name)
        BY <1>3, <2>1, <3>1
      <4> HIDE DEF M
      <4> QED  BY <1>2, <2>1, <4>1, PathParts
    <3>2. CASE v.dir # Nocase(f.name)
      <4>1. M(u) = new /\ M(v) = v
        BY <1>3, <2>1, <3>2
      <4> HIDE DEF M
      <4> QED  BY <2>1, <4>1
    <3> QED  BY <3>1, <3>2
  <2>2. ASSUME NEW u \in D, NEW v \in D, PathOf(M(u)) = PathOf(M(v)), u # f, v # f,
               u.dir = Nocase(f.name), v.dir # Nocase(f.name)
        PROVE  FALSE
    <3>1. M(u).dir = Nocase(new.name) /\ M(v) = v
      BY <1>3, <2>2
    <3>2. v.dir = Nocase(new.name)
      <4> HIDE DEF M
      <4> QED  BY <2>2, <3>1, PathParts
    <3>3. PICK g \in D : g.ext = "dir" /\ Nocase(g.name) = Nocase(new.name)
      BY <1>2, <1>3, <3>2 DEF FoldersOf
    <3>4. g.dir = Root
      BY <1>3, <3>3
    <3> QED  BY <3>3, <3>4, PathParts
  <2>3. CASE x # f /\ y # f /\ (x.dir = Nocase(f.name) <=> y.dir = Nocase(f.name))
    <3>1. PathOf(x) = PathOf(y)
      <4>1. /\ M(x).name = x.name /\ M(x).ext = x.ext /\ M(y).name = y.name /\ M(y).ext = y.ext
            /\ x.dir = Nocase(f.name) \/ (M(x) = x /\ M(y) = y)
        BY <1>3, <2>3
      <4> HIDE DEF M
      <4> QED  BY <1>7, <2>3, <4>1, PathParts
    <3> QED  BY <3>1 DEF Files
  <2> QED  BY <1>7, <2>1, <2>2, <2>3
<1>8. /\ \A z \in E : /\ IsEntry(z) /\ z.dir \in FoldersOf(E)
                      /\ z.ext = "dir" => z.dir = Root
      /\ \A z, w \in E : PathOf(z) = PathOf(w) => z = w
  <2>1. \A z \in E : \E x \in D : z = M(x)
    OBVIOUS
  <2> HIDE DEF E, M
  <2> QED  BY <1>6, <1>7, <2>1
<1> HIDE DEF E, M
<1>9. Files(E)
  BY <1>1, <1>8 DEF Files
<1> QED  BY <1>9 DEF E

-----------------------------------------------------------------------------
(***************************************************************************)
(* The steps of the bookmark menus.                                        *)
(***************************************************************************)

LEMMA FindFilesShow ==
  ASSUME NEW d, FindFiles(d), Files(disk')
  PROVE  bookmarks_current_folder' = d /\ SortedList(bl_top', Here(d, disk'))
<1> DEFINE S == {n \in disk' : n.dir = d}
           B == IF d = Root THEN {} ELSE {Back}
           base == IF d = Root THEN <<>> ELSE <<Back>>
<1>1. PICK found \in SetToSeqs(S) : bl_top' = AllAdded(base, found)
  BY DEF FindFiles, AllAdded
<1>2. IsFiniteSet(S)
  <2>1. S \in SUBSET (disk') /\ IsFiniteSet(disk')
    BY DEF Files
  <2> HIDE DEF S
  <2> QED  BY <2>1, FS_Subset
<1>3. Nocase(Back.name) \in Nat /\ Back.ext = "back"
  BY DEF Back, Nocase
<1>4. \A x \in S : Nocase(x.name) \in Nat /\ x.ext # "back"
  BY NameNumbers DEF Files, IsEntry
<1>5. B \cap S = {} /\ Named(B \cup S)
  BY <1>3, <1>4 DEF Named
<1>6. SortedList(base, B)
  <2>1. CASE d = Root
    <3>1. <<>> \in Seq({}) /\ Len(<<>>) = 0 /\ 1 .. 0 = {}
      OBVIOUS
    <3> QED  BY <2>1, <3>1 DEF SortedList
  <2>2. CASE d # Root
    <3>1. <<Back>> \in Seq({Back}) /\ Len(<<Back>>) = 1 /\ 1 .. 1 = {1} /\ <<Back>>[1] = Back
      OBVIOUS
    <3> QED  BY <2>2, <3>1 DEF SortedList
  <2> QED  BY <2>1, <2>2
<1>7. SortedList(AllAdded(base, found), B \cup S)
  <2> HIDE DEF S, B, base
  <2> QED  BY <1>2, <1>5, <1>6, FoundSorted
<1>8. B \cup S = Here(d, disk')
  BY DEF Here
<1> HIDE DEF S, B, base
<1> QED  BY <1>1, <1>7, <1>8 DEF FindFiles

LEMMA MenuReads ==
  ASSUME NEW d, FindFiles(d), Files(disk'), d \in FoldersOf(disk'),
         gui' = "menu", bl' = Null, edit_mode' = "none"
  PROVE  MenuOK'
<1>1. bookmarks_current_folder' = d /\ SortedList(bl_top', Here(d, disk'))
  BY FindFilesShow
<1>2. Held' /\ Modes' /\ Requests'
  BY DEF Held, Modes, Requests
<1> QED  BY <1>1, <1>2 DEF MenuOK

LEMMA FocusReads ==
  ASSUME Focus, Files(disk'), bookmarks_current_folder \in FoldersOf(disk')
  PROVE  MenuOK'
BY MenuReads DEF Focus

LEMMA ClosedOK ==
  ASSUME Closed, bl' = Null, edit_mode' = "none"
  PROVE  MenuOK'
BY DEF Closed, MenuOK, Held, Modes, Requests, FoldersOf

\* What a step that answers no request has to show, and what one that does.
Asks == Files(disk') /\ MenuOK' /\ (disk' = disk \/ Store!Outside)
Answers == Files(disk') /\ MenuOK' /\ Store!Next

LEMMA CreateMenuAsks == ASSUME BookmarksInv, CreateBookmarksMenu PROVE Asks
<1>1. disk' = disk /\ gui' = "menu" /\ FindFiles(Root) /\ bl' = Null /\ edit_mode' = "none"
  BY DEF CreateBookmarksMenu, BookmarksInv, MenuOK, Requests
<1>2. Files(disk') /\ Root \in FoldersOf(disk')
  BY <1>1 DEF BookmarksInv, FoldersOf
<1> QED  BY <1>1, <1>2, MenuReads DEF Asks

LEMMA CloseMenuAsks == ASSUME BookmarksInv, CloseMenu PROVE Asks
BY ClosedOK DEF BookmarksInv, CloseMenu, MenuOK, Requests, Asks

\* A row of the menu is an entry of its list.
LEMMA RowIsHere ==
  ASSUME BookmarksInv, gui = "menu", NEW i \in DOMAIN Rows
  PROVE  Rows[i] \in Here(bookmarks_current_folder, disk)
<1>1. Shows(Rows, Here(bookmarks_current_folder, disk))
  BY RowsShow DEF BookmarksInv, MenuOK
<1> QED  BY <1>1, LenProperties DEF Shows

LEMMA EnterAsks ==
  ASSUME BookmarksInv, NEW i \in DOMAIN Rows, Enter(i)
  PROVE  Asks
<1> DEFINE n == Rows[i]
           d == IF n.ext = "back" THEN Root ELSE Nocase(n.name)
<1>1. /\ gui = "menu" /\ disk' = disk /\ Files(disk) /\ Files(disk')
      /\ bl' = Null /\ edit_mode' = "none"
  BY DEF Enter, BookmarksInv, MenuOK, Requests
<1>2. CASE n.ext \in {"back", "dir"}
  <2>1. FindFiles(d) /\ gui' = gui
    BY <1>2 DEF Enter
  <2>2. n = Back \/ n \in disk
    BY <1>1, RowIsHere DEF Here
  <2>3. d \in FoldersOf(disk')
    BY <1>1, <1>2, <2>2 DEF FoldersOf, Back, Root
  <2> HIDE DEF d, n
  <2> QED  BY <1>1, <2>1, <2>3, MenuReads DEF Asks
<1>3. CASE n.ext \notin {"back", "dir"}
  <2>1. Closed
    BY <1>3 DEF Enter
  <2> QED  BY <1>1, <2>1, ClosedOK DEF Asks
<1> QED  BY <1>2, <1>3

LEMMA ShowOptionsAsks ==
  ASSUME BookmarksInv, NEW n, ShowOptions(n)
  PROVE  Asks
<1> DEFINE cur == bookmarks_current_folder
<1>1. /\ gui = "menu" /\ gui' = "options" /\ bl' = n /\ disk' = disk
      /\ bookmarks_current_folder' = cur /\ edit_mode' = edit_mode
      /\ n \in IF bl_top = <<>> THEN {Null} ELSE ToSet(bl_top)
  BY DEF ShowOptions
<1>2. Files(disk) /\ cur \in FoldersOf(disk) /\ SortedList(bl_top, Here(cur, disk))
  BY <1>1 DEF BookmarksInv, MenuOK
<1>3. n \in {Null, Back} \/ (n \in disk /\ n.dir = cur)
  <2>1. CASE bl_top = <<>>
    BY <1>1, <2>1
  <2>2. CASE bl_top # <<>>
    <3>1. n \in ToSet(bl_top) /\ bl_top \in Seq(Here(cur, disk))
      BY <1>1, <1>2, <2>2 DEF SortedList
    <3>2. n \in Here(cur, disk)
      BY <3>1, LenProperties DEF ToSet
    <3> QED  BY <3>2 DEF Here
  <2> QED  BY <2>1, <2>2
<1>4. n \in disk => /\ IsEntry(n) /\ (n.ext = "dir" => n.dir = Root)
                    /\ \A o \in disk : PathOf(o) = PathOf(n) => o = n
  BY <1>2 DEF Files
<1>5. Held'
  BY <1>1, <1>3, <1>4 DEF Held
<1>6. Modes' /\ Requests'
  BY <1>1 DEF BookmarksInv, MenuOK, Modes, Requests
<1> QED  BY <1>1, <1>2, <1>5, <1>6 DEF MenuOK, Asks

LEMMA CloseOptionsAsks ==
  ASSUME BookmarksInv, CloseOptions \/ CancelDialog
  PROVE  Asks
<1>1. disk' = disk /\ Focus
  BY DEF CloseOptions, CancelDialog
<1> QED  BY <1>1, FocusReads DEF BookmarksInv, MenuOK, Asks

LEMMA ShowDialogAsks ==
  ASSUME BookmarksInv,
         NEW mode \in {"EditBookmark", "RenameFolder", "CreateBookmark", "CreateFolder"},
         ShowDialog(mode)
  PROVE  Asks
<1>1. /\ gui = "options" /\ bl # Null /\ gui' = "edit" /\ edit_mode' = mode
      /\ disk' = disk /\ bookmarks_current_folder' = bookmarks_current_folder /\ bl' = bl
      /\ mode = "EditBookmark" => bl.ext = "url"
      /\ mode = "RenameFolder" => bl.ext \in {"dir", "oms"}
      /\ mode = "CreateFolder" => bookmarks_current_folder = Root
  BY DEF ShowDialog
<1>2. Held'
  BY <1>1 DEF BookmarksInv, MenuOK, Held
<1>3. Modes' /\ Requests'
  BY <1>1 DEF Modes, Requests
<1> QED  BY <1>1, <1>2, <1>3 DEF BookmarksInv, MenuOK, Asks

LEMMA StoreAdds ==
  ASSUME NEW n, \A o \in disk : PathOf(o) # PathOf(n), disk' = disk \cup {n}
  PROVE  n \in disk' /\ Store!Add(n)
BY DEF Store!Add, Store!Free

LEMMA StoreRemoves ==
  ASSUME NEW o \in disk, disk' = disk \ {o},
         o.ext = "dir" => \A n \in disk : n.dir # Nocase(o.name)
  PROVE  Store!Remove(o)
<1>1. PathOf(o)[2] = Nocase(o.name)
  BY PathParts
<1> QED  BY <1>1 DEF Store!Remove, Store!Inside

\* The entry an entry's path names, if there is one.
LEMMA AtPath ==
  ASSUME NEW D, Files(D), NEW b
  PROVE  \/ {o \in D : PathOf(o) # PathOf(b)} = D
         \/ \E o \in D : /\ PathOf(o) = PathOf(b)
                         /\ \A x \in D : PathOf(x) = PathOf(b) => x = o
                         /\ {x \in D : PathOf(x) # PathOf(b)} = D \ {o}
BY DEF Files

LEMMA DeleteAnswers ==
  ASSUME BookmarksInv, NEW ok \in BOOLEAN, Delete(ok)
  PROVE  Answers
<1> DEFINE cur == bookmarks_current_folder
           gone == ok /\ Exists(bl) /\ ~(bl.ext = "dir" /\ \E n \in disk : n.dir = Nocase(bl.name))
<1>1. /\ gui = "options" /\ bl.ext \notin {"null", "back"} /\ Focus
      /\ disk' = (IF gone THEN Without(bl) ELSE disk)
      /\ answer' = IF gone THEN "done" ELSE "failed"
  BY DEF Delete, Answered
<1>8. edit_mode = "none"
  BY <1>1 DEF BookmarksInv, MenuOK, Requests
<1>2. /\ Files(disk) /\ cur \in FoldersOf(disk)
      /\ IsEntry(bl) /\ bl.dir = cur
      /\ bl.ext = "dir" => bl \in disk /\ bl.dir = Root
      /\ bl.ext = "none" => \A o \in disk : PathOf(o) = PathOf(bl) => o.ext = "none"
  BY <1>1 DEF BookmarksInv, MenuOK, Held, Null, Back
<1>3. CASE ~gone
  <2>1. disk' = disk /\ answer' = "failed"
    BY <1>1, <1>3
  <2>2. Store!Next
    BY <2>1 DEF Store!Next, Store!Failed
  <2> QED  BY <1>1, <1>2, <2>1, <2>2, FocusReads DEF Answers
<1>4. CASE gone
  <2>1. /\ disk' = Without(bl) /\ answer' = "done"
        /\ bl.ext = "dir" => \A n \in disk : n.dir # Nocase(bl.name)
        /\ \E o \in disk : PathOf(o) = PathOf(bl)
    BY <1>1, <1>4 DEF Exists
  <2>2. PICK o \in disk : /\ PathOf(o) = PathOf(bl)
                          /\ \A x \in disk : PathOf(x) = PathOf(bl) => x = o
                          /\ disk' = disk \ {o}
    BY <1>2, <2>1 DEF Files, Without
  <2>3. Nocase(o.name) = Nocase(bl.name) /\ (o.ext = "dir" => bl.ext = "dir")
    BY <1>2, <2>2, PathParts DEF IsEntry
  <2>4. o.ext = "dir" => \A n \in disk : n.dir # Nocase(o.name)
    BY <2>1, <2>3
  <2>5. Files(disk') /\ Store!Remove(o)
    BY <1>2, <2>2, <2>4, FileRemoved, StoreRemoves
  <2>7. Store!Next
    BY <1>8, <2>1, <2>2, <2>5 DEF Store!Next, Store!Done
  <2>6. cur \in FoldersOf(disk')
    <3>1. CASE o.ext = "dir"
      BY <1>2, <2>3, <3>1 DEF FoldersOf
    <3>2. CASE o.ext # "dir"
      BY <1>2, <2>2, <3>2, FileRemoved
    <3> QED  BY <3>1, <3>2
  <2> QED  BY <1>1, <2>5, <2>6, <2>7, FocusReads DEF Answers
<1> QED  BY <1>3, <1>4

LEMMA ElsewhereAsks == ASSUME BookmarksInv, Elsewhere PROVE Asks
<1> DEFINE cur == bookmarks_current_folder
           rest == <<gui, bookmarks_current_folder, bl_top, bl, edit_mode>>
<1>1. Files(disk) /\ cur \in FoldersOf(disk)
  BY DEF BookmarksInv, MenuOK
<1> DEFINE Changes ==
             /\ Files(disk') /\ cur \in FoldersOf(disk')
             /\ \/ \E n \in disk' : Store!Add(n)
                \/ \E o \in disk : Store!Remove(o)
             /\ \A o \in disk : o.ext = "dir" => o \in disk'
             /\ \A o \in disk' : o \in disk \/ o.ext \in {"oms", "url"}
<1>2. Changes
  <2> DEFINE P == {Root} \cup {Nocase(n.name) : n \in {o \in disk : o.ext = "dir"}}
             N(d, name, ext) == [UrlFile(d, name, <<>>, <<>>) EXCEPT !.ext = ext]
  <2>1. ASSUME NEW d \in P, NEW name \in Names, NEW ext \in Saved, NEW n, n = N(d, name, ext),
               ~Exists(n), disk' = disk \cup {n}
        PROVE  Changes
    <3>1. ext \in {"oms", "url"}
      BY SavedAssumption
    <3>2. IsEntry(n) /\ n.dir = d /\ n.ext = ext
      BY <2>1, <3>1 DEF IsEntry, UrlFile
    <3>3. d \in FoldersOf(disk)
      BY DEF FoldersOf
    <3>4. \A o \in disk : PathOf(o) # PathOf(n)
      BY <2>1 DEF Exists
    <3>5. Files(disk') /\ FoldersOf(disk) \subseteq FoldersOf(disk')
      BY <1>1, <2>1, <3>1, <3>2, <3>3, <3>4, FileAdded
    <3>6. \E x \in disk' : Store!Add(x)
      BY <2>1, <3>4, StoreAdds
    <3> QED  BY <1>1, <2>1, <3>1, <3>2, <3>5, <3>6
  <2>2. ASSUME NEW n \in disk, n.ext # "dir", disk' = disk \ {n}
        PROVE  Changes
    <3>1. Files(disk') /\ cur \in FoldersOf(disk')
      BY <1>1, <2>2, FileRemoved
    <3>2. Store!Remove(n)
      BY <2>2, StoreRemoves
    <3> QED  BY <2>2, <3>1, <3>2
  <2>3. \/ \E d \in P, name \in Names, ext \in Saved :
             ~Exists(N(d, name, ext)) /\ disk' = disk \cup {N(d, name, ext)}
        \/ \E n \in disk : n.ext # "dir" /\ disk' = disk \ {n}
    BY DEF Elsewhere
  <2> HIDE DEF N, P, Changes
  <2> QED  BY <2>1, <2>2, <2>3
<1>3. CASE gui = "menu"
  <2>1. Focus
    BY <1>3 DEF Elsewhere
  <2>2. bl' = bl /\ edit_mode' = edit_mode
    BY <1>3, <2>1 DEF Focus, BookmarksInv, MenuOK, Requests
  <2>3. Store!Outside
    BY <1>2, <2>2 DEF Store!Outside
  <2> QED  BY <1>2, <2>1, <2>3, FocusReads DEF Asks
<1>4. CASE gui # "menu"
  <2>1. /\ gui' = gui /\ bookmarks_current_folder' = cur /\ bl' = bl
        /\ bl_top' = bl_top /\ edit_mode' = edit_mode
    BY <1>4 DEF Elsewhere
  <2>2. Held'
    <3>1. \A o \in disk' : o.ext = "none" \/ o \notin disk =>
             o.ext = "none" \/ o.ext \in {"oms", "url"}
      BY <1>2
    <3>2. ASSUME gui \in {"options", "edit"}, bl \notin {Null, Back}, bl.ext = "none",
                 NEW o \in disk', PathOf(o) = PathOf(bl)
          PROVE  o.ext = "none"
      <4>1. CASE o \in disk
        BY <3>2, <4>1 DEF BookmarksInv, MenuOK, Held
      <4>2. CASE o.ext \in {"oms", "url"}
        BY <3>2, <4>2, PathParts
      <4> QED  BY <1>2, <4>1, <4>2
    <3>3. gui \in {"options", "edit"} /\ bl \notin {Null, Back} =>
            /\ IsEntry(bl) /\ bl.dir = cur
            /\ bl.ext = "dir" => bl \in disk' /\ bl.dir = Root
      BY <1>2 DEF BookmarksInv, MenuOK, Held
    <3> QED  BY <2>1, <3>2, <3>3 DEF Held
  <2>3. Modes' /\ Requests'
    BY <2>1 DEF BookmarksInv, MenuOK, Modes, Requests
  <2>4. Store!Outside
    BY <1>2, <2>1 DEF Store!Outside
  <2> QED  BY <1>2, <1>4, <2>1, <2>2, <2>3, <2>4 DEF BookmarksInv, MenuOK, Asks
<1> QED  BY <1>3, <1>4

\* A bookmark with another address in it.
LEMMA Rewritten ==
  ASSUME NEW n, NEW link, NEW meant,
         n = [dir |-> n.dir, name |-> n.name, ext |-> n.ext, link |-> n.link, meant |-> n.meant]
  PROVE  [n EXCEPT !.link = link, !.meant = meant] =
           [dir |-> n.dir, name |-> n.name, ext |-> n.ext, link |-> link, meant |-> meant]
<1>1. ASSUME NEW d, NEW m, NEW x, NEW l, NEW t
      PROVE  /\ [[dir |-> d, name |-> m, ext |-> x, link |-> l, meant |-> t] EXCEPT !.link = link] =
                  [dir |-> d, name |-> m, ext |-> x, link |-> link, meant |-> t]
             /\ [[dir |-> d, name |-> m, ext |-> x, link |-> l, meant |-> t] EXCEPT !.meant = meant] =
                  [dir |-> d, name |-> m, ext |-> x, link |-> l, meant |-> meant]
  OBVIOUS
<1> DEFINE r == [n EXCEPT !.link = link]
<1>2. r = [dir |-> n.dir, name |-> n.name, ext |-> n.ext, link |-> link, meant |-> n.meant]
  BY <1>1
<1> HIDE DEF r
<1>3. [r EXCEPT !.meant = meant] =
        [dir |-> n.dir, name |-> n.name, ext |-> n.ext, link |-> link, meant |-> meant]
  BY <1>1, <1>2
<1> QED  BY <1>3 DEF r

LEMMA BookmarkOkAnswers ==
  ASSUME BookmarksInv, NEW name \in Names, NEW text, NEW removed \in BOOLEAN,
         NEW stored \in {"no file", "empty", "whole"}, BookmarkOk(name, text, removed, stored)
  PROVE  Answers
<1> DEFINE cur == bookmarks_current_folder
           edited == edit_mode = "EditBookmark"
           link == URL_reencode_escapes(text)
           meant == IF edited /\ bl.link # <<>> /\ text = Shown THEN bl.meant ELSE link
           new == UrlFile(cur, name, <<>>, <<>>)
           left == IF edited /\ removed THEN Without(bl) ELSE disk
           there == {o \in left : PathOf(o) = PathOf(new)}
           opened == IF there = {} THEN {new} ELSE there
           full(o) == [o EXCEPT !.link = Over(link, @),
                                !.meant = IF there = {} THEN meant ELSE Over(link, o.link)]
           done == (edited => removed) /\ stored = "whole"
<1>1. /\ gui = "edit" /\ edit_mode \in {"CreateBookmark", "EditBookmark"} /\ Focus
      /\ ~edited \/ bl.name # name => ~Exists(new)
      /\ disk' = CASE stored = "no file" -> left
                   [] stored = "empty" -> left \cup opened
                   [] OTHER -> (left \ there) \cup {full(o) : o \in opened}
      /\ answer' = IF done THEN "done" ELSE "failed"
  BY DEF BookmarkOk, Answered
<1>2. Files(disk) /\ cur \in FoldersOf(disk)
  BY DEF BookmarksInv, MenuOK
<1>3. new.dir = cur /\ new.name = name /\ new.ext = "url" /\ IsEntry(new)
  BY DEF UrlFile, IsEntry
<1>4. edited => /\ bl.ext = "url" /\ bl.dir = cur /\ IsEntry(bl)
  <2>1. gui = "edit" /\ Held /\ (edited => bl.ext = "url")
    BY <1>1 DEF BookmarksInv, MenuOK, Modes
  <2>2. Null.ext # "url" /\ Back.ext # "url"
    BY DEF Null, Back
  <2> HIDE DEF edited
  <2> QED  BY <2>1, <2>2 DEF Held
<1>5. ASSUME NEW n, IsEntry(n), n.ext = "url"
      PROVE  /\ IsEntry(full(n)) /\ full(n).ext = "url" /\ full(n).dir = n.dir
             /\ PathOf(full(n)) = PathOf(n)
  <2>1. \E l, t : full(n) = [n EXCEPT !.link = l, !.meant = t]
    OBVIOUS
  <2> HIDE DEF full
  <2>2. PICK l, t : full(n) = [dir |-> n.dir, name |-> n.name, ext |-> n.ext, link |-> l, meant |-> t]
    BY <1>5, <2>1, Rewritten DEF IsEntry
  <2> DEFINE r == [dir |-> n.dir, name |-> n.name, ext |-> n.ext, link |-> l, meant |-> t]
  <2>3. r.dir = n.dir /\ r.name = n.name /\ r.ext = n.ext /\ IsEntry(r)
    BY <1>5 DEF IsEntry
  <2> HIDE DEF r
  <2>4. PathOf(r) = PathOf(n)
    BY <2>3, PathParts
  <2> QED  BY <1>5, <2>2, <2>3, <2>4 DEF r
<1> HIDE DEF full, link, meant
<1>6. edited /\ bl.name = name => PathOf(new) = PathOf(bl)
  <2> HIDE DEF new
  <2> QED  BY <1>3, <1>4, PathParts
<1> HIDE DEF new
\* If something is there, it is the old file that could not be removed.
<1>7. ASSUME there # {}
      PROVE  /\ edited /\ ~removed /\ left = disk
             /\ \E o \in disk : there = {o} /\ PathOf(o) = PathOf(new) /\ PathOf(o) = PathOf(bl)
  <2>1. PICK o \in left : PathOf(o) = PathOf(new)
    BY <1>7
  <2>2. o \in disk
    BY <2>1 DEF Without
  <2>3. edited /\ bl.name = name
    BY <1>1, <2>1, <2>2 DEF Exists
  <2>4. PathOf(o) = PathOf(bl) /\ ~removed
    BY <1>6, <2>1, <2>3 DEF Without
  <2>5. there = {o} /\ left = disk
    BY <1>2, <2>1, <2>2, <2>4 DEF Files
  <2> QED  BY <2>1, <2>2, <2>3, <2>4, <2>5
<1>8. \/ left = disk
      \/ \E o \in disk : left = disk \ {o} /\ o.ext = "url" /\ o.dir = cur
  <2>1. CASE ~(edited /\ removed)
    BY <2>1
  <2>2. CASE edited /\ removed
    <3>1. ASSUME NEW o \in disk, PathOf(o) = PathOf(bl) PROVE o.ext = "url" /\ o.dir = cur
      BY <1>4, <2>2, <3>1, PathParts
    <3>2. left = {o \in disk : PathOf(o) # PathOf(bl)}
      BY <2>2 DEF Without
    <3>3. left = disk \/ \E o \in disk : PathOf(o) = PathOf(bl) /\ left = disk \ {o}
      <4> HIDE DEF left
      <4>1. CASE \A o \in disk : PathOf(o) # PathOf(bl)
        BY <3>2, <4>1
      <4>2. ASSUME NEW o \in disk, PathOf(o) = PathOf(bl) PROVE left = disk \ {o}
        <5>1. \A p \in disk : PathOf(p) = PathOf(bl) => p = o
          BY <1>2, <4>2 DEF Files
        <5> QED  BY <3>2, <4>2, <5>1
      <4> QED  BY <4>1, <4>2
    <3> HIDE DEF left
    <3> QED  BY <3>1, <3>3
  <2> QED  BY <2>1, <2>2
<1>9. Files(left) /\ cur \in FoldersOf(left)
  <2> HIDE DEF left
  <2>1. ASSUME NEW o \in disk, left = disk \ {o}, o.ext = "url" PROVE Files(left) /\ cur \in FoldersOf(left)
    BY <1>2, <2>1, FileRemoved
  <2> QED  BY <1>2, <1>8, <2>1
<1>10. left = IF edited /\ removed THEN Store!Rest ELSE disk
  BY DEF Without, Store!Rest
<1> HIDE DEF left
\* What the step leaves, and the file it wrote.
<1>11. CASE there = {}
  <2>1. \/ disk' = left /\ stored # "whole"
        \/ disk' = left \cup {new} /\ stored # "whole"
        \/ disk' = left \cup {full(new)}
    <3>1. opened = {new} /\ left \ there = left
      BY <1>11
    <3> HIDE DEF there, opened
    <3> QED  BY <1>1, <3>1
  <2>2. ASSUME NEW n \in {new, full(new)}, disk' = left \cup {n}
        PROVE  Answers
    <3>1. /\ IsEntry(n) /\ n.dir = cur /\ n.ext = "url"
          /\ \A o \in left : PathOf(o) # PathOf(n)
      BY <1>3, <1>5, <1>11
    <3>2. Files(disk') /\ cur \in FoldersOf(disk') /\ n \in disk'
      BY <1>9, <2>2, <3>1, FileAdded
    <3>3. CASE edited /\ removed
      <4>1. Store!Edit(n)
        BY <1>4, <1>10, <2>2, <3>1, <3>3 DEF Store!Edit, Store!Free
      <4>2. Store!Done /\ Store!Failed
        BY <3>2, <3>3, <4>1 DEF Store!Done, Store!Failed
      <4> QED  BY <1>1, <3>2, <4>2, FocusReads DEF Answers, Store!Next
    <3>4. CASE ~(edited /\ removed)
      <4>1. Store!Add(n)
        BY <1>10, <2>2, <3>1, <3>4 DEF Store!Add, Store!Free
      <4>2. Store!Failed /\ (done => Store!Done)
        BY <1>1, <3>1, <3>2, <3>4, <4>1 DEF Store!Done, Store!Failed
      <4> QED  BY <1>1, <3>2, <4>2, FocusReads DEF Answers, Store!Next
    <3> QED  BY <3>3, <3>4
  <2>3. CASE disk' = left /\ stored # "whole"
    <3>1. Store!Failed /\ answer' = "failed"
      BY <1>1, <1>10, <2>3 DEF Store!Failed
    <3> QED  BY <1>1, <1>9, <2>3, <3>1, FocusReads DEF Answers, Store!Next
  <2> HIDE DEF there, opened
  <2> QED  BY <2>1, <2>2, <2>3
<1>12. CASE there # {}
  <2>1. PICK o \in disk : /\ there = {o} /\ PathOf(o) = PathOf(new) /\ PathOf(o) = PathOf(bl)
                          /\ left = disk /\ edited /\ ~removed
    BY <1>7, <1>12
  <2>2. /\ answer' = "failed"
        /\ disk' = disk \/ disk' = (disk \ {o}) \cup {full(o)}
    <3>1. opened = {o}
      BY <1>12, <2>1
    <3> HIDE DEF there, opened
    <3> QED  BY <1>1, <2>1, <3>1
  <2>3. CASE disk' = disk
    <3>1. Store!Failed
      BY <2>3 DEF Store!Failed
    <3> QED  BY <1>1, <1>2, <2>2, <2>3, <3>1, FocusReads DEF Answers, Store!Next
  <2>4. CASE disk' = (disk \ {o}) \cup {full(o)}
    <3>1. o.ext = "url" /\ o.dir = cur /\ IsEntry(o)
      BY <1>2, <1>4, <2>1, PathParts DEF Files
    <3>2. /\ IsEntry(full(o)) /\ full(o).ext = "url" /\ full(o).dir = cur
          /\ PathOf(full(o)) = PathOf(o)
      BY <1>5, <3>1
    <3>3. Files(disk \ {o}) /\ cur \in FoldersOf(disk \ {o})
      BY <1>2, <3>1, FileRemoved
    <3>4. \A x \in disk \ {o} : PathOf(x) # PathOf(full(o))
      BY <1>2, <3>2 DEF Files
    <3>5. Files(disk') /\ cur \in FoldersOf(disk')
      <4> DEFINE n == full(o)
      <4> HIDE DEF n
      <4> QED  BY <2>4, <3>2, <3>3, <3>4, FileAdded DEF n
    <3>6. Store!Rest = disk \ {o}
      BY <1>2, <2>1 DEF Store!Rest, Files
    <3>7. Store!Edit(full(o)) /\ full(o) \in disk'
      BY <1>4, <2>1, <2>4, <3>2, <3>4, <3>6 DEF Store!Edit, Store!Free
    <3>8. Store!Failed
      BY <2>1, <3>7 DEF Store!Failed
    <3> QED  BY <1>1, <2>2, <3>5, <3>8, FocusReads DEF Answers, Store!Next
  <2> QED  BY <2>2, <2>3, <2>4
<1> QED  BY <1>11, <1>12

\* A request that could not be met changes nothing.
LEMMA NothingDone ==
  ASSUME BookmarksInv, Focus, disk' = disk, answer' = "failed"
  PROVE  Answers
BY FocusReads DEF BookmarksInv, MenuOK, Answers, Store!Next, Store!Failed

LEMMA CreateFolderAnswers ==
  ASSUME BookmarksInv, NEW name \in Names, NEW ok \in BOOLEAN, FolderOk(name, ok),
         edit_mode = "CreateFolder"
  PROVE  Answers
<1> DEFINE cur == bookmarks_current_folder
           new == Folder(cur, name)
           works == ok /\ ~Exists(new)
<1>1. /\ gui = "edit" /\ Focus /\ disk' = (IF works THEN disk \cup {new} ELSE disk)
      /\ answer' = IF works THEN "done" ELSE "failed"
  BY DEF FolderOk, Answered
<1>2. Files(disk) /\ cur \in FoldersOf(disk) /\ cur = Root
  BY <1>1 DEF BookmarksInv, MenuOK, Modes
<1>3. new.dir = cur /\ new.ext = "dir" /\ IsEntry(new)
  BY DEF Folder, IsEntry
<1> HIDE DEF new
<1>4. CASE ~works
  BY <1>1, <1>4, NothingDone
<1>5. CASE works
  <2>1. disk' = disk \cup {new} /\ answer' = "done" /\ \A o \in disk : PathOf(o) # PathOf(new)
    BY <1>1, <1>5 DEF Exists
  <2>2. Files(disk') /\ FoldersOf(disk) \subseteq FoldersOf(disk')
    BY <1>2, <1>3, <2>1, FileAdded
  <2>3. Store!Next
    BY <1>3, <2>1, StoreAdds DEF Store!Next, Store!Done
  <2> QED  BY <1>1, <1>2, <2>2, <2>3, FocusReads DEF Answers
<1> QED  BY <1>4, <1>5

LEMMA Renamed ==
  ASSUME NEW n, NEW name, NEW ext,
         n = [dir |-> n.dir, name |-> n.name, ext |-> n.ext, link |-> n.link, meant |-> n.meant]
  PROVE  [n EXCEPT !.name = name, !.ext = ext] =
           [dir |-> n.dir, name |-> name, ext |-> ext, link |-> n.link, meant |-> n.meant]
<1>1. ASSUME NEW d, NEW m, NEW x, NEW l, NEW t
      PROVE  /\ [[dir |-> d, name |-> m, ext |-> x, link |-> l, meant |-> t] EXCEPT !.name = name] =
                  [dir |-> d, name |-> name, ext |-> x, link |-> l, meant |-> t]
             /\ [[dir |-> d, name |-> m, ext |-> x, link |-> l, meant |-> t] EXCEPT !.ext = ext] =
                  [dir |-> d, name |-> m, ext |-> ext, link |-> l, meant |-> t]
  OBVIOUS
<1> DEFINE r == [n EXCEPT !.name = name]
<1>2. r = [dir |-> n.dir, name |-> name, ext |-> n.ext, link |-> n.link, meant |-> n.meant]
  BY <1>1
<1> HIDE DEF r
<1>3. [r EXCEPT !.ext = ext] =
        [dir |-> n.dir, name |-> name, ext |-> ext, link |-> n.link, meant |-> n.meant]
  BY <1>1, <1>2
<1> QED  BY <1>3 DEF r

LEMMA RenameAnswers ==
  ASSUME BookmarksInv, NEW name \in Names, NEW ok \in BOOLEAN, FolderOk(name, ok),
         edit_mode = "RenameFolder"
  PROVE  Answers
<1> DEFINE cur == bookmarks_current_folder
           new == [bl EXCEPT !.name = name, !.ext = IF @ = "dir" THEN "dir" ELSE "none"]
           moved(n) == IF PathOf(n) = PathOf(bl) THEN new
                       ELSE IF bl.ext = "dir" /\ n.dir = Nocase(bl.name)
                            THEN [n EXCEPT !.dir = Nocase(name)] ELSE n
           works == ok /\ ~Exists(new) /\ Exists(bl)
<1>1. /\ gui = "edit" /\ Focus /\ disk' = (IF works THEN {moved(n) : n \in disk} ELSE disk)
      /\ answer' = IF works THEN "done" ELSE "failed"
  BY DEF FolderOk, Answered
<1>2. /\ Files(disk) /\ cur \in FoldersOf(disk)
      /\ bl.ext \in {"dir", "oms"} /\ IsEntry(bl) /\ bl.dir = cur
      /\ bl.ext = "dir" => bl \in disk /\ bl.dir = Root
  BY <1>1 DEF BookmarksInv, MenuOK, Held, Modes, Null, Back
<1>3. /\ new.dir = bl.dir /\ new.name = name /\ new.link = bl.link /\ new.meant = bl.meant
      /\ new.ext = (IF bl.ext = "dir" THEN "dir" ELSE "none") /\ IsEntry(new)
  <2>1. bl = [dir |-> bl.dir, name |-> bl.name, ext |-> bl.ext, link |-> bl.link, meant |-> bl.meant]
    BY <1>2 DEF IsEntry
  <2>2. new = [dir |-> bl.dir, name |-> name, ext |-> (IF bl.ext = "dir" THEN "dir" ELSE "none"),
               link |-> bl.link, meant |-> bl.meant]
    BY <2>1, Renamed
  <2> HIDE DEF new
  <2> QED  BY <1>2, <2>2 DEF IsEntry
<1> HIDE DEF new
<1>4. CASE ~works
  <2>1. disk' = disk /\ answer' = "failed"
    BY <1>1, <1>4
  <2> QED  BY <1>1, <2>1, NothingDone
<1>5. CASE works /\ bl.ext = "dir"
  <2>1. /\ disk' = {moved(n) : n \in disk} /\ \A o \in disk : PathOf(o) # PathOf(new)
        /\ answer' = "done"
    BY <1>1, <1>5 DEF Exists
  <2>2. \A n \in disk : moved(n) = Moved(n, bl, new)
    <3> SUFFICES ASSUME NEW n \in disk PROVE moved(n) = Moved(n, bl, new)
      OBVIOUS
    <3>1. PathOf(n) = PathOf(bl) <=> n = bl
      BY <1>2, <1>5 DEF Files
    <3> QED  BY <1>3, <1>5, <3>1 DEF Moved
  <2>3. disk' = {Moved(n, bl, new) : n \in disk}
    <3> HIDE DEF moved
    <3> QED  BY <2>1, <2>2
  <2>4. Files(disk')
    BY <1>2, <1>3, <1>5, <2>1, <2>3, FolderMoved
  <2>5. Store!Move(bl, new) /\ new \in disk'
    <3>1. /\ PathOf(new)[2] = Nocase(name) /\ PathOf(bl)[2] = Nocase(bl.name)
      BY <1>3, PathParts
    <3>2. disk' = {IF x = bl THEN new
                   ELSE IF bl.ext = "dir" /\ x \in Store!Inside(bl)
                        THEN [x EXCEPT !.dir = PathOf(new)[2]] ELSE x : x \in disk}
      <4>1. \A x \in disk : Moved(x, bl, new) =
                   IF x = bl THEN new
                   ELSE IF bl.ext = "dir" /\ x \in Store!Inside(bl)
                        THEN [x EXCEPT !.dir = PathOf(new)[2]] ELSE x
        BY <1>3, <1>5, <3>1 DEF Moved, Store!Inside
      <4> QED  BY <2>3, <4>1
    <3>3. new \in disk'
      BY <1>2, <1>5, <2>3 DEF Moved
    <3>4. Store!Free(new, disk \ {bl})
      BY <2>1 DEF Store!Free
    <3> QED  BY <1>3, <3>2, <3>3, <3>4 DEF Store!Move
  <2>6. Store!Next
    BY <1>2, <1>5, <2>1, <2>5 DEF Store!Next, Store!Done
  <2>7. cur \in FoldersOf(disk')
    BY <1>2, <1>5 DEF FoldersOf
  <2> QED  BY <1>1, <2>4, <2>6, <2>7, FocusReads DEF Answers
<1>6. CASE works /\ bl.ext = "oms"
  <2>1. /\ disk' = {moved(n) : n \in disk} /\ \A o \in disk : PathOf(o) # PathOf(new)
        /\ answer' = "done" /\ \E o \in disk : PathOf(o) = PathOf(bl)
    BY <1>1, <1>6 DEF Exists
  <2>2. \A n \in disk : moved(n) = IF PathOf(n) = PathOf(bl) THEN new ELSE n
    BY <1>6
  <2> HIDE DEF moved
  <2>4. ASSUME NEW o \in disk, PathOf(o) = PathOf(bl) PROVE Answers
    <3>1. \A x \in disk : PathOf(x) = PathOf(bl) <=> x = o
      BY <1>2, <2>4 DEF Files
    <3>2. \A n \in disk : moved(n) = IF n = o THEN new ELSE n
      BY <2>2, <3>1
    <3>3. disk' = (disk \ {o}) \cup {new}
      BY <2>1, <3>2
    <3>4. /\ o.ext = "oms" /\ o.dir = cur /\ IsEntry(o)
      BY <1>2, <1>6, <2>4, PathParts DEF Files
    <3>5. Files(disk \ {o}) /\ cur \in FoldersOf(disk \ {o})
      BY <1>2, <3>4, FileRemoved
    <3>6. Files(disk') /\ cur \in FoldersOf(disk')
      BY <1>2, <1>3, <1>6, <2>1, <3>3, <3>5, FileAdded
    <3>7. Store!Move(o, new)
      <4>1. new.dir = o.dir /\ new.link = o.link /\ new.meant = o.meant
        BY <1>2, <1>3, <1>6, <3>4 DEF IsEntry
      <4>2. Store!Free(new, disk \ {o})
        BY <2>1 DEF Store!Free
      <4>3. disk' = {IF x = o THEN new
                     ELSE IF o.ext = "dir" /\ x \in Store!Inside(o)
                          THEN [x EXCEPT !.dir = PathOf(new)[2]] ELSE x : x \in disk}
        <5>1. \A x \in disk : moved(x) =
                     IF x = o THEN new
                     ELSE IF o.ext = "dir" /\ x \in Store!Inside(o)
                          THEN [x EXCEPT !.dir = PathOf(new)[2]] ELSE x
          BY <3>2, <3>4
        <5> QED  BY <2>1, <5>1
      <4> QED  BY <4>1, <4>2, <4>3 DEF Store!Move
    <3>8. Store!Next
      BY <2>1, <2>4, <3>3, <3>7 DEF Store!Next, Store!Done
    <3> QED  BY <1>1, <3>6, <3>8, FocusReads DEF Answers
  <2> QED  BY <2>1, <2>4
<1> QED  BY <1>2, <1>4, <1>5, <1>6

\* A step that answers no request is one of the store, or leaves it alone.
LEMMA AskingIsNext ==
  ASSUME Asks, answer' = "none"
  PROVE  Answers
BY DEF Asks, Answers, Store!Next

LEMMA AskingAsks == ASSUME BookmarksInv, Asking PROVE Asks
<1>1. CASE CreateBookmarksMenu
  BY <1>1, CreateMenuAsks
<1>2. CASE CloseMenu
  BY <1>2, CloseMenuAsks
<1>3. ASSUME NEW i \in DOMAIN Rows, Enter(i) PROVE Asks
  BY <1>3, EnterAsks
<1>4. ASSUME NEW n, ShowOptions(n) PROVE Asks
  BY <1>4, ShowOptionsAsks
<1>5. CASE CloseOptions \/ CancelDialog
  BY <1>5, CloseOptionsAsks
<1>6. ASSUME NEW mode \in {"EditBookmark", "RenameFolder", "CreateBookmark", "CreateFolder"},
             ShowDialog(mode)
      PROVE  Asks
  BY <1>6, ShowDialogAsks
<1>7. CASE Elsewhere
  BY <1>7, ElsewhereAsks
<1> HIDE DEF Asks
<1> QED  BY <1>1, <1>2, <1>3, <1>4, <1>5, <1>6, <1>7 DEF Asking

LEMMA BookmarksStep == ASSUME BookmarksInv, BoundedNext PROVE Answers
<1>1. CASE Asking /\ answer' = "none"
  BY <1>1, AskingAsks, AskingIsNext
<1>2. ASSUME NEW ok \in BOOLEAN, Delete(ok) PROVE Answers
  BY <1>2, DeleteAnswers
<1>3. ASSUME NEW name \in Names, NEW ok \in BOOLEAN, FolderOk(name, ok) PROVE Answers
  <2>1. edit_mode \in {"CreateFolder", "RenameFolder"}
    BY <1>3 DEF FolderOk
  <2> QED  BY <1>3, <2>1, CreateFolderAnswers, RenameAnswers
<1>4. ASSUME NEW name \in Names, NEW text, NEW removed \in BOOLEAN,
             NEW stored \in {"no file", "empty", "whole"},
             BookmarkOk(name, text, removed, stored)
      PROVE  Answers
  BY <1>4, BookmarkOkAnswers
<1> HIDE DEF Answers
<1> QED  BY <1>1, <1>2, <1>3, <1>4 DEF BoundedNext, Next

LEMMA BookmarksInit == ASSUME Init PROVE BookmarksInv /\ Store!Init
<1>1. Files(disk)
  BY FS_EmptySet DEF Init, Files
<1>2. MenuOK
  BY DEF Init, MenuOK, Held, Modes, Requests, FoldersOf
<1> QED  BY <1>1, <1>2 DEF BookmarksInv, Init, Store!Init

\* The same in a behaviour of the stores: each is about one of them.
LEMMA BookmarksKept ==
  ASSUME BookmarksInv, [MCNext]_<<chosen, vars, historyVars, textVars>>
  PROVE  BookmarksInv' /\ [Store!Next]_Store!vars
<1>1. CASE BoundedNext
  BY <1>1, BookmarksStep DEF Answers, BookmarksInv
<1>2. CASE UNCHANGED vars
  <2>1. /\ disk' = disk /\ gui' = gui /\ bl' = bl /\ bl_top' = bl_top /\ edit_mode' = edit_mode
        /\ bookmarks_current_folder' = bookmarks_current_folder /\ answer' = answer
    BY <1>2 DEF vars
  <2> QED  BY <2>1 DEF BookmarksInv, MenuOK, Held, Modes, Requests, Store!vars
<1>3. BoundedNext \/ UNCHANGED vars
  BY DEF MCNext
<1> QED  BY <1>1, <1>2, <1>3

\* Each request of the bookmark menus that is done changes just the entry it names,
\* as asked; one of which a file call fails spoils no other: no entry is written
\* over by an edit of another, and a folder keeps what it holds, also when the
\* disk changed since the menu read it (edit_bookmark_onkey, mainmenu.c:137-186,
\* and bookmarks_options_delete).
THEOREM BookmarksImplementStore == MCSpec => ImplementsStore
<1>1. MCInit => BookmarksInv /\ Store!Init
  BY BookmarksInit DEF MCInit
<1>2. BookmarksInv /\ [MCNext]_<<chosen, vars, historyVars, textVars>> =>
        BookmarksInv' /\ [Store!Next]_Store!vars
  BY BookmarksKept
<1>3. MCSpec => Store!Init /\ [][Store!Next]_Store!vars
  BY <1>1, <1>2, PTL DEF MCSpec
<1> QED  BY <1>3 DEF ImplementsStore, Store!Spec

\* The menu in front shows its folder as the disk holds it: each entry on one
\* row, the way back first, folders before files and each by name, after every
\* dialog and on the way back from another program (FindFiles, FindBListByN).
THEOREM MenuAlwaysShowsFolder == MCSpec => []MenuShowsFolder
<1>1. MCInit => BookmarksInv
  BY BookmarksInit DEF MCInit
<1>2. BookmarksInv /\ [MCNext]_<<chosen, vars, historyVars, textVars>> => BookmarksInv'
  BY BookmarksKept
<1>3. BookmarksInv => MenuShowsFolder
  <2> DEFINE S == Here(bookmarks_current_folder, disk)
  <2> SUFFICES ASSUME BookmarksInv, gui = "menu"
               PROVE  /\ ToSet(Rows) = S
                      /\ Len(Rows) = Cardinality(ToSet(Rows))
                      /\ \A i, j \in DOMAIN Rows : i < j =>
                           \/ Kind(Rows[i]) < Kind(Rows[j])
                           \/ /\ Kind(Rows[i]) = Kind(Rows[j])
                              /\ Nocase(Rows[i].name) <= Nocase(Rows[j].name)
    BY DEF MenuShowsFolder, Here, Kind
  <2>1. Shows(Rows, S)
    BY RowsShow DEF BookmarksInv, MenuOK
  <2> HIDE DEF S
  <2>2. /\ ToSet(Rows) = S /\ Len(Rows) = Cardinality(ToSet(Rows))
        /\ DOMAIN Rows = 1 .. Len(Rows)
    BY <2>1, ShownOnce
  <2> QED  BY <2>1, <2>2 DEF Shows, InRowOrder
<1> QED  BY <1>1, <1>2, <1>3, PTL DEF MCSpec
-----------------------------------------------------------------------------
(***************************************************************************)
(* Texts.  Each conversion walks over its text (UrlText, Walk), and what   *)
(* it makes of a text is what it makes of the first character, and then of *)
(* the rest: so the theorems are shown from the end of a text backwards.   *)
(***************************************************************************)

\* Each of n places puts out a text and reads up to four characters.
Reads(n, out, read) == out \in [1 .. n -> Seq(Nat)] /\ read \in [1 .. n -> 1 .. 4]

LEMMA ReadOn ==
  ASSUME NEW n \in Nat, NEW out, NEW read, Reads(n, out, read), NEW i \in 1 .. n
  PROVE  out[i] \in Seq(Nat) /\ read[i] \in 1 .. 4 /\ i + read[i] \in i + 1 .. n + 4
<1>1. read[i] \in 1 .. 4 /\ out[i] \in Seq(Nat)
  BY DEF Reads
<1> DEFINE r == read[i]
<1> HIDE DEF r
<1>2. r \in 1 .. 4
  BY <1>1 DEF r
<1>3. i + r \in i + 1 .. n + 4
  BY <1>2
<1> QED  BY <1>1, <1>3 DEF r

\* f[i] is what a walk over n characters puts out from place i on.
WalkFrom(f, lo, n, out, read) ==
  /\ f \in [lo .. n + 4 -> Seq(Nat)]
  /\ \A i \in lo .. n : f[i] = out[i] \o f[i + read[i]]
  /\ \A i \in n + 1 .. n + 4 : f[i] = <<>>

Walks(f, n, out, read) ==
  f = [i \in 1 .. n + 4 |-> IF i > n THEN <<>> ELSE out[i] \o f[i + read[i]]]

LEMMA WalkIsDefined ==
  ASSUME NEW n \in Nat, NEW out, NEW read, Reads(n, out, read)
  PROVE  \E f : WalkFrom(f, 1, n, out, read)
<1> DEFINE K == {m \in Nat : m <= n => \E f : WalkFrom(f, n + 1 - m, n, out, read)}
<1>1. 0 \in K
  <2> DEFINE f == [i \in n + 1 .. n + 4 |-> <<>>]
  <2>1. f \in [n + 1 .. n + 4 -> Seq(Nat)]
    OBVIOUS
  <2>2. \A i \in n + 1 .. n + 4 : f[i] = <<>>
    OBVIOUS
  <2>3. n + 1 - 0 = n + 1 /\ \A i \in n + 1 .. n : FALSE
    OBVIOUS
  <2> HIDE DEF f
  <2>4. WalkFrom(f, n + 1 - 0, n, out, read)
    BY <2>1, <2>2, <2>3 DEF WalkFrom
  <2> QED  BY <2>4
<1>2. ASSUME NEW m \in Nat, m \in K, m + 1 <= n
      PROVE  \E f : WalkFrom(f, n + 1 - (m + 1), n, out, read)
  <2> DEFINE j == n - m
  <2>1. /\ j \in 1 .. n /\ n + 1 - m = j + 1 /\ n + 1 - (m + 1) = j /\ j \in Nat
        /\ j \notin j + 1 .. n + 4 /\ j .. n + 4 = {j} \cup (j + 1 .. n + 4)
    BY <1>2
  <2>2. PICK f : WalkFrom(f, j + 1, n, out, read)
    <3>1. m <= n
      BY <1>2
    <3>2. PICK f : WalkFrom(f, n + 1 - m, n, out, read)
      BY <1>2, <3>1
    <3> HIDE DEF j
    <3>3. WalkFrom(f, j + 1, n, out, read)
      BY <2>1, <3>2
    <3> QED  BY <3>3
  <2> HIDE DEF j, K
  <2> DEFINE x == out[j] \o f[j + read[j]]
             g == [i \in j .. n + 4 |-> IF i = j THEN x ELSE f[i]]
  <2>3. /\ f \in [j + 1 .. n + 4 -> Seq(Nat)]
        /\ \A i \in j + 1 .. n : f[i] = out[i] \o f[i + read[i]]
        /\ \A i \in n + 1 .. n + 4 : f[i] = <<>>
    BY <2>2 DEF WalkFrom
  <2>4. out[j] \in Seq(Nat) /\ j + read[j] \in j + 1 .. n + 4
    BY <2>1, ReadOn
  <2>5. x \in Seq(Nat)
    BY <2>3, <2>4
  <2>6. ASSUME NEW i \in j + 1 .. n PROVE i + read[i] \in j + 1 .. n + 4
    <3>1. i \in 1 .. n
      BY <2>1
    <3>2. i + read[i] \in i + 1 .. n + 4
      BY <3>1, ReadOn
    <3> DEFINE k == i + read[i]
    <3> HIDE DEF k
    <3>3. k \in i + 1 .. n + 4
      BY <3>2 DEF k
    <3>4. k \in j + 1 .. n + 4
      BY <2>1, <3>3
    <3> QED  BY <3>4 DEF k
  <2> HIDE DEF x
  <2>7. g \in [j .. n + 4 -> Seq(Nat)]
    BY <2>1, <2>3, <2>5
  <2>8. g[j] = x /\ \A i \in j + 1 .. n + 4 : g[i] = f[i]
    BY <2>1
  <2> HIDE DEF g
  <2>9. ASSUME NEW i \in j .. n PROVE g[i] = out[i] \o g[i + read[i]]
    <3>1. CASE i = j
      <4>1. g[j + read[j]] = f[j + read[j]]
        BY <2>4, <2>8
      <4>2. g[j] = out[j] \o g[j + read[j]]
        BY <2>8, <4>1 DEF x
      <4> QED  BY <3>1, <4>2
    <3>2. CASE i # j
      <4>1. i \in j + 1 .. n /\ i \in j + 1 .. n + 4
        BY <2>1, <3>2
      <4>2. g[i] = f[i] /\ f[i] = out[i] \o f[i + read[i]]
        BY <2>3, <2>8, <4>1
      <4>3. g[i + read[i]] = f[i + read[i]]
        BY <2>6, <2>8, <4>1
      <4> QED  BY <4>2, <4>3
    <3> QED  BY <3>1, <3>2
  <2>10. \A i \in n + 1 .. n + 4 : g[i] = <<>>
    <3>1. \A i \in n + 1 .. n + 4 : i \in j + 1 .. n + 4
      BY <2>1
    <3> QED  BY <2>3, <2>8, <3>1
  <2>11. WalkFrom(g, j, n, out, read)
    BY <2>7, <2>9, <2>10 DEF WalkFrom
  <2> QED  BY <2>1, <2>11
<1>3. n \in K
  <2>1. \A m \in Nat : m \in K => m + 1 \in K
    BY <1>2
  <2> HIDE DEF K
  <2> QED  BY <1>1, <2>1, Induction
<1>4. n <= n /\ n + 1 - n = 1
  OBVIOUS
<1> QED  BY <1>3, <1>4

\* A walk, place by place.
LEMMA WalkValues ==
  ASSUME NEW s, NEW n \in Nat, n = Len(s), NEW out, NEW read, Reads(n, out, read)
  PROVE  \E f : WalkFrom(f, 1, n, out, read) /\ Walk(s, out, read) = f[1]
<1> DEFINE f == CHOOSE f : Walks(f, n, out, read)
<1>1. PICK g : WalkFrom(g, 1, n, out, read)
  BY WalkIsDefined
<1>2. Walks(g, n, out, read)
  <2>1. g = [i \in 1 .. n + 4 |-> g[i]]
    BY <1>1 DEF WalkFrom
  <2>2. ASSUME NEW i \in 1 .. n + 4
        PROVE  g[i] = IF i > n THEN <<>> ELSE out[i] \o g[i + read[i]]
    <3>1. CASE i > n
      <4>1. i \in n + 1 .. n + 4
        BY <3>1
      <4> QED  BY <1>1, <3>1, <4>1 DEF WalkFrom
    <3>2. CASE ~(i > n)
      <4>1. i \in 1 .. n
        BY <3>2
      <4> QED  BY <1>1, <3>2, <4>1 DEF WalkFrom
    <3> QED  BY <3>1, <3>2
  <2> QED  BY <2>1, <2>2 DEF Walks
<1>3. Walk(s, out, read) = f[1]
  BY DEF Walk, Walks
<1>4. Walks(f, n, out, read)
  BY <1>2
<1> HIDE DEF f
<1>5. ASSUME NEW i \in 1 .. n + 4
      PROVE  f[i] = IF i > n THEN <<>> ELSE out[i] \o f[i + read[i]]
  BY <1>4 DEF Walks
<1>6. DOMAIN f = 1 .. n + 4 /\ f = [i \in DOMAIN f |-> f[i]]
  BY <1>4 DEF Walks
<1>7. ASSUME NEW i \in 1 .. n PROVE f[i] = out[i] \o f[i + read[i]]
  <2>1. i \in 1 .. n + 4 /\ ~(i > n)
    OBVIOUS
  <2> QED  BY <1>5, <2>1
<1>8. ASSUME NEW i \in n + 1 .. n + 4 PROVE f[i] = <<>>
  <2>1. i \in 1 .. n + 4 /\ i > n
    OBVIOUS
  <2> QED  BY <1>5, <2>1
<1> DEFINE K == {m \in Nat : m <= n => \A i \in n + 1 - m .. n + 4 : f[i] \in Seq(Nat)}
<1>9. 0 \in K
  <2>1. <<>> \in Seq(Nat) /\ n + 1 - 0 = n + 1
    OBVIOUS
  <2> QED  BY <1>8, <2>1
<1>10. ASSUME NEW m \in Nat, m \in K PROVE m + 1 \in K
  <2> SUFFICES ASSUME m + 1 <= n, NEW i \in n + 1 - (m + 1) .. n + 4 PROVE f[i] \in Seq(Nat)
    OBVIOUS
  <2>1. m <= n /\ \A k \in n + 1 - m .. n + 4 : f[k] \in Seq(Nat)
    BY <1>10
  <2> HIDE DEF K
  <2>2. CASE i = n - m
    <3>1. i \in 1 .. n
      BY <2>2
    <3>2. out[i] \in Seq(Nat) /\ i + read[i] \in i + 1 .. n + 4
      BY <3>1, ReadOn
    <3>3. i + 1 = n + 1 - m
      BY <2>2
    <3>4. f[i + read[i]] \in Seq(Nat) /\ f[i] = out[i] \o f[i + read[i]]
      BY <1>7, <2>1, <3>1, <3>2, <3>3
    <3> QED  BY <3>2, <3>4
  <2>3. CASE i # n - m
    <3>1. i \in n + 1 - m .. n + 4
      BY <2>3
    <3> QED  BY <2>1, <3>1
  <2> QED  BY <2>2, <2>3
<1>11. n \in K
  <2> HIDE DEF K
  <2> QED  BY <1>9, <1>10, Induction
<1>12. \A i \in 1 .. n + 4 : f[i] \in Seq(Nat)
  <2>1. n <= n /\ n + 1 - n = 1
    OBVIOUS
  <2> QED  BY <1>11, <2>1
<1>13. f \in [1 .. n + 4 -> Seq(Nat)]
  BY <1>6, <1>12
<1>14. WalkFrom(f, 1, n, out, read)
  BY <1>7, <1>8, <1>13 DEF WalkFrom
<1> QED  BY <1>3, <1>14

\* What a walk puts out is a text.
LEMMA WalkIsText ==
  ASSUME NEW s, NEW n \in Nat, n = Len(s), NEW out, NEW read, Reads(n, out, read)
  PROVE  Walk(s, out, read) \in Seq(Nat) /\ (n = 0 => Walk(s, out, read) = <<>>)
<1>1. PICK f : WalkFrom(f, 1, n, out, read) /\ Walk(s, out, read) = f[1]
  BY WalkValues
<1>2. 1 \in 1 .. n + 4 /\ (n = 0 => 1 \in n + 1 .. n + 4)
  OBVIOUS
<1> QED  BY <1>1, <1>2 DEF WalkFrom

\* A walk over n places whose first step reads r characters goes on as one over m.
Continues(n, m, r, out, read, out2, read2) ==
  /\ n = r + m /\ Reads(n, out, read) /\ Reads(m, out2, read2) /\ read[1] = r
  /\ \A i \in 1 .. m : out[r + i] = out2[i] /\ read[r + i] = read2[i]

LEMMA WalkOn ==
  ASSUME NEW s, NEW t, NEW r \in 1 .. 4, Len(t) \in Nat,
         NEW out, NEW read, NEW out2, NEW read2,
         Continues(Len(s), Len(t), r, out, read, out2, read2)
  PROVE  Walk(s, out, read) = out[1] \o Walk(t, out2, read2)
<1> DEFINE n == Len(s)
           m == Len(t)
<1>0. /\ m \in Nat /\ n = r + m /\ Reads(n, out, read) /\ Reads(m, out2, read2)
      /\ read[1] = r /\ \A i \in 1 .. m : out[r + i] = out2[i] /\ read[r + i] = read2[i]
  BY DEF Continues
<1>a. n \in Nat /\ n = Len(s) /\ Reads(n, out, read)
  BY <1>0
<1>b. m \in Nat /\ m = Len(t) /\ Reads(m, out2, read2)
  BY <1>0
<1> HIDE DEF n, m
<1>1. PICK f : WalkFrom(f, 1, n, out, read) /\ Walk(s, out, read) = f[1]
  BY ONLY <1>a, WalkValues
<1>2. PICK g : WalkFrom(g, 1, m, out2, read2) /\ Walk(t, out2, read2) = g[1]
  BY ONLY <1>b, WalkValues
<1> USE <1>0, <1>a
<1>3. /\ \A i \in 1 .. n : f[i] = out[i] \o f[i + read[i]]
      /\ \A i \in n + 1 .. n + 4 : f[i] = <<>>
      /\ \A i \in 1 .. m : g[i] = out2[i] \o g[i + read2[i]]
      /\ \A i \in m + 1 .. m + 4 : g[i] = <<>>
  BY <1>1, <1>2 DEF WalkFrom
<1> DEFINE K == {k \in Nat : k <= m => \A i \in m + 1 - k .. m + 4 : g[i] = f[r + i]}
<1>4. 0 \in K
  <2>1. \A i \in m + 1 .. m + 4 : r + i \in n + 1 .. n + 4
    OBVIOUS
  <2>2. m + 1 - 0 = m + 1
    OBVIOUS
  <2> QED  BY <1>3, <2>1, <2>2
<1>5. ASSUME NEW k \in Nat, k \in K PROVE k + 1 \in K
  <2>0. k + 1 \in Nat
    OBVIOUS
  <2> SUFFICES k + 1 <= m => \A i \in m + 1 - (k + 1) .. m + 4 : g[i] = f[r + i]
    BY <2>0
  <2> SUFFICES ASSUME k + 1 <= m, NEW i \in m + 1 - (k + 1) .. m + 4 PROVE g[i] = f[r + i]
    OBVIOUS
  <2>1. k <= m /\ \A j \in m + 1 - k .. m + 4 : g[j] = f[r + j]
    BY <1>5
  <2> HIDE DEF K
  <2>2. CASE i = m - k
    <3>1. i \in 1 .. m /\ r + i \in 1 .. n /\ i + 1 = m + 1 - k
      BY <2>2
    <3> DEFINE d == read2[i]
    <3>2. d \in 1 .. 4 /\ i + d \in i + 1 .. m + 4
      BY <3>1, ReadOn
    <3>3. out[r + i] = out2[i] /\ read[r + i] = d
      BY <3>1
    <3>4. g[i] = out2[i] \o g[i + d]
      BY <1>3, <3>1
    <3> HIDE DEF d
    <3>5. r + (i + d) = (r + i) + d
      BY <3>1, <3>2
    <3>6. g[i + d] = f[r + (i + d)]
      BY <2>1, <3>1, <3>2
    <3>7. f[r + i] = out[r + i] \o f[(r + i) + read[r + i]]
      BY <1>3, <3>1
    <3> QED  BY <3>3, <3>4, <3>5, <3>6, <3>7
  <2>3. CASE i # m - k
    <3>1. i \in m + 1 - k .. m + 4
      BY <2>3
    <3> QED  BY <2>1, <3>1
  <2> QED  BY <2>2, <2>3
<1>6. m \in K
  <2> HIDE DEF K
  <2> QED  BY <1>4, <1>5, Induction
<1>7. g[1] = f[r + 1]
  <2>1. m <= m /\ 1 \in m + 1 - m .. m + 4
    OBVIOUS
  <2> QED  BY <1>6, <2>1
<1>8. 1 \in 1 .. n /\ 1 + r = r + 1
  OBVIOUS
<1>9. f[1] = out[1] \o f[1 + read[1]]
  BY <1>3, <1>8
<1> QED  BY <1>1, <1>2, <1>7, <1>8, <1>9

\* A text with one character put before it.
LEMMA PutBefore ==
  ASSUME NEW S, NEW c \in S, NEW t \in Seq(S)
  PROVE  /\ <<c>> \o t \in Seq(S) /\ Len(<<c>> \o t) = 1 + Len(t) /\ (<<c>> \o t)[1] = c
         /\ \A i \in 1 .. Len(t) : (<<c>> \o t)[1 + i] = t[i]
         /\ \A k \in 2 .. 1 + Len(t) : (<<c>> \o t)[k] = t[k - 1]
OBVIOUS

LEMMA FirstAndRest ==
  ASSUME NEW S, NEW s \in Seq(S), Len(s) > 0
  PROVE  \E c \in S : \E t \in Seq(S) : s = <<c>> \o t /\ Len(t) = Len(s) - 1
<1> DEFINE t == Tail(s)
<1>1. s[1] \in S /\ t \in Seq(S) /\ Len(t) = Len(s) - 1
  OBVIOUS
<1>2. <<s[1]>> \o t = s
  OBVIOUS
<1> QED  BY <1>1, <1>2

LEMMA ConcatRegroups ==
  ASSUME NEW S, NEW s \in Seq(S), NEW t \in Seq(S), NEW u \in Seq(S)
  PROVE  (s \o t) \o u = s \o (t \o u) /\ s \o t \in Seq(S)
OBVIOUS

\* What an escape is at a place is what it is further on, behind r characters.
LEMMA EscapeBehind ==
  ASSUME NEW t \in Seq(Nat), NEW s \in Seq(Nat), NEW r \in Nat, Len(s) = r + Len(t),
         \A i \in 1 .. Len(t) : s[r + i] = t[i], NEW i \in 1 .. Len(t)
  PROVE  /\ IsEscape(s, r + i) <=> IsEscape(t, i)
         /\ IsEscape(t, i) => EscapeValue(s, r + i) = EscapeValue(t, i)
<1>1. s[r + i] = t[i] /\ (r + i + 2 <= Len(s) <=> i + 2 <= Len(t))
  OBVIOUS
<1>2. CASE ~(i + 2 <= Len(t))
  BY <1>1, <1>2 DEF IsEscape
<1>3. CASE i + 2 <= Len(t)
  <2>1. i + 1 \in 1 .. Len(t) /\ i + 2 \in 1 .. Len(t)
    BY <1>3
  <2>2. s[r + (i + 1)] = t[i + 1] /\ s[r + (i + 2)] = t[i + 2]
    BY <2>1
  <2>3. r + (i + 1) = r + i + 1 /\ r + (i + 2) = r + i + 2
    OBVIOUS
  <2> QED  BY <1>1, <2>2, <2>3 DEF IsEscape, EscapeValue
<1> QED  BY <1>2, <1>3

LEMMA EscapedIsText ==
  ASSUME NEW c \in Nat, NEW a \in Nat, a > 10
  PROVE  Escaped(c, a) \in Seq(Nat)
<1>1. c \div 16 \in Nat /\ c % 16 \in Nat
  OBVIOUS
<1>2. \A v \in Nat : Digit(v, a) \in Nat
  BY DEF Digit
<1> QED  BY <1>1, <1>2 DEF Escaped, Percent

\* URL_reencode_escapes, character by character.
LEMMA ReencodeFirst ==
  ASSUME NEW c \in Nat, NEW t \in Seq(Nat), NEW s, s = <<c>> \o t
  PROVE  /\ URL_reencode_escapes(s) =
              (IF CharNeedsEscaping(s, 1) THEN Escaped(c, 65) ELSE <<c>>)
                \o URL_reencode_escapes(t)
         /\ URL_reencode_escapes(t) \in Seq(Nat)
<1> DEFINE Out(x) == [i \in DOMAIN x |->
                        IF CharNeedsEscaping(x, i) THEN Escaped(x[i], 65) ELSE <<x[i]>>]
           Read(x) == [i \in DOMAIN x |-> 1]
<1>1. /\ s \in Seq(Nat) /\ Len(s) = 1 + Len(t) /\ s[1] = c
      /\ \A i \in 1 .. Len(t) : s[1 + i] = t[i]
  BY PutBefore
<1>2. ASSUME NEW x \in Seq(Nat) PROVE Reads(Len(x), Out(x), Read(x))
  <2>1. ASSUME NEW i \in 1 .. Len(x) PROVE Escaped(x[i], 65) \in Seq(Nat) /\ <<x[i]>> \in Seq(Nat)
    <3>1. x[i] \in Nat
      OBVIOUS
    <3>2. <<x[i]>> \in Seq(Nat)
      BY <3>1
    <3>3. 65 \in Nat /\ 65 > 10
      OBVIOUS
    <3> QED  BY ONLY <3>1, <3>2, <3>3, EscapedIsText
  <2> QED  BY <2>1 DEF Reads
<1>3. ASSUME NEW i \in 1 .. Len(t)
      PROVE  Out(s)[1 + i] = Out(t)[i] /\ Read(s)[1 + i] = Read(t)[i]
  <2>1. 1 + i \in DOMAIN s /\ i \in DOMAIN t /\ s[1 + i] = t[i]
    BY <1>1
  <2>2. CharNeedsEscaping(s, 1 + i) <=> CharNeedsEscaping(t, i)
    BY <1>1, <2>1, EscapeBehind DEF CharNeedsEscaping
  <2> QED  BY <2>1, <2>2
<1>4. Read(s)[1] = 1 /\ Out(s)[1] = IF CharNeedsEscaping(s, 1) THEN Escaped(c, 65) ELSE <<c>>
  BY <1>1
<1>5. \A x : URL_reencode_escapes(x) = Walk(x, Out(x), Read(x))
  BY DEF URL_reencode_escapes
<1>6. Reads(Len(s), Out(s), Read(s)) /\ Reads(Len(t), Out(t), Read(t))
  BY <1>1, <1>2
<1> HIDE DEF Out, Read
<1>7. Walk(s, Out(s), Read(s)) = Out(s)[1] \o Walk(t, Out(t), Read(t))
  <2>1. Continues(Len(s), Len(t), 1, Out(s), Read(s), Out(t), Read(t))
    BY <1>1, <1>3, <1>4, <1>6 DEF Continues
  <2>2. Len(t) \in Nat /\ 1 \in 1 .. 4
    OBVIOUS
  <2> QED  BY ONLY <2>1, <2>2, WalkOn
<1>8. Walk(t, Out(t), Read(t)) \in Seq(Nat)
  BY <1>6, WalkIsText
<1> QED  BY <1>4, <1>5, <1>7, <1>8

LEMMA DigitValueIsNat ==
  ASSUME NEW d, ISXDIGIT(d)
  PROVE  d \in Nat /\ DigitValue(d) \in 0 .. 15 /\ d # Percent /\ ~UnsafeOnly(d)
BY DEF ISXDIGIT, DigitValue, Percent, UnsafeOnly

\* The character %de stands for.
Hex(d, e) == 16 * DigitValue(d) + DigitValue(e)

LEMMA HexIsByte ==
  ASSUME NEW d, NEW e, ISXDIGIT(d), ISXDIGIT(e)
  PROVE  Hex(d, e) \in 0 .. 255
<1>1. DigitValue(d) \in 0 .. 15 /\ DigitValue(e) \in 0 .. 15
  BY DigitValueIsNat
<1>2. \A x, y \in 0 .. 15 : 16 * x + y \in 0 .. 255
  OBVIOUS
<1> QED  BY ONLY <1>1, <1>2 DEF Hex

LEMMA ConcatShape ==
  ASSUME NEW S, NEW p \in Seq(S), NEW t \in Seq(S)
  PROVE  /\ p \o t \in Seq(S) /\ Len(p \o t) = Len(p) + Len(t)
         /\ \A k \in 1 .. Len(p) + Len(t) :
              (p \o t)[k] = IF k <= Len(p) THEN p[k] ELSE t[k - Len(p)]
BY ConcatProperties

LEMMA ThreeBefore ==
  ASSUME NEW a \in Nat, NEW b \in Nat, NEW c \in Nat, NEW t \in Seq(Nat)
  PROVE  <<a, b, c>> \o t = <<a>> \o (<<b>> \o (<<c>> \o t))
<1> DEFINE x == <<a, b, c>>
           y1 == <<c>> \o t
           y2 == <<b>> \o y1
           y3 == <<a>> \o y2
<1>1. x \in Seq(Nat) /\ Len(x) = 3 /\ x[1] = a /\ x[2] = b /\ x[3] = c
  OBVIOUS
<1>2. /\ y1 \in Seq(Nat) /\ Len(y1) = 1 + Len(t) /\ y1[1] = c
      /\ \A k \in 2 .. 1 + Len(t) : y1[k] = t[k - 1]
  BY PutBefore
<1> HIDE DEF x, y1
<1>3. /\ y2 \in Seq(Nat) /\ Len(y2) = 1 + Len(y1) /\ y2[1] = b
      /\ \A k \in 2 .. 1 + Len(y1) : y2[k] = y1[k - 1]
  BY <1>2, PutBefore
<1> HIDE DEF y2
<1>4. /\ y3 \in Seq(Nat) /\ Len(y3) = 1 + Len(y2) /\ y3[1] = a
      /\ \A k \in 2 .. 1 + Len(y2) : y3[k] = y2[k - 1]
  BY <1>3, PutBefore
<1> HIDE DEF y3
<1> DEFINE z == x \o t
           n == Len(t)
<1>a. /\ z \in Seq(Nat) /\ Len(z) = Len(x) + Len(t)
      /\ \A k \in 1 .. Len(x) + Len(t) : z[k] = IF k <= Len(x) THEN x[k] ELSE t[k - Len(x)]
  BY <1>1, ConcatShape
<1>5. z \in Seq(Nat) /\ Len(z) = 3 + n /\ n \in Nat
  BY <1>1, <1>a
<1>6. \A k \in 1 .. 3 + n : z[k] = IF k <= 3 THEN x[k] ELSE t[k - 3]
  BY <1>1, <1>a
<1> HIDE DEF z, n
<1>7. Len(y1) = 1 + n /\ Len(y2) = 2 + n /\ Len(y3) = 3 + n
  BY <1>2, <1>3, <1>4, <1>5 DEF n
<1>8. ASSUME NEW k \in 1 .. 3 + n PROVE z[k] = y3[k]
  <2>1. CASE k = 1
    BY <1>1, <1>4, <1>6, <2>1
  <2>2. CASE k = 2
    <3>1. 2 \in 2 .. 1 + Len(y2) /\ 2 - 1 = 1
      BY <1>5, <1>7
    <3> QED  BY <1>1, <1>3, <1>4, <1>6, <2>2, <3>1
  <2>3. CASE k = 3
    <3>1. 3 \in 2 .. 1 + Len(y2) /\ 2 \in 2 .. 1 + Len(y1) /\ 3 - 1 = 2 /\ 2 - 1 = 1
      BY <1>5, <1>7
    <3>2. y3[3] = c
      BY <1>2, <1>3, <1>4, <3>1
    <3>3. z[3] = c
      BY <1>1, <1>5, <1>6
    <3> QED  BY <2>3, <3>2, <3>3
  <2>4. CASE k > 3
    <3>1. /\ k \in 2 .. 1 + Len(y2) /\ k - 1 \in 2 .. 1 + Len(y1) /\ k - 2 \in 2 .. 1 + Len(t)
          /\ (k - 1) - 1 = k - 2 /\ (k - 2) - 1 = k - 3
      BY <1>5, <1>7, <2>4 DEF n
    <3>2. y3[k] = t[k - 3]
      BY <1>2, <1>3, <1>4, <3>1
    <3> QED  BY <1>6, <2>4, <3>2
  <2>5. k = 1 \/ k = 2 \/ k = 3 \/ k > 3
    BY <1>5
  <2> QED  BY <2>1, <2>2, <2>3, <2>4, <2>5
<1>9. z = y3
  BY <1>4, <1>5, <1>7, <1>8, SameElements
<1> QED  BY <1>9 DEF x, y1, y2, y3, z

\* An escape put before a text.
EscapeBefore(d, e, t) == <<Percent, d, e>> \o t

LEMMA EscapeIsText ==
  ASSUME NEW t \in Seq(Nat), NEW d, NEW e, ISXDIGIT(d), ISXDIGIT(e)
  PROVE  LET s == EscapeBefore(d, e, t) IN
         /\ s \in Seq(Nat) /\ Len(s) = 3 + Len(t) /\ \A i \in 1 .. Len(t) : s[3 + i] = t[i]
         /\ s[1] = Percent /\ s[2] = d /\ s[3] = e
         /\ IsEscape(s, 1) /\ EscapeValue(s, 1) = Hex(d, e)
<1>1. d \in Nat /\ e \in Nat /\ Percent \in Nat
  BY DigitValueIsNat DEF Percent
<1> DEFINE p == <<Percent, d, e>>
           s == EscapeBefore(d, e, t)
<1>2. p \in Seq(Nat) /\ Len(p) = 3 /\ p[1] = Percent /\ p[2] = d /\ p[3] = e /\ s = p \o t
  BY <1>1 DEF EscapeBefore
<1> HIDE DEF p, s
<1>a. /\ s \in Seq(Nat) /\ Len(s) = Len(p) + Len(t)
      /\ \A k \in 1 .. Len(p) + Len(t) : s[k] = IF k <= Len(p) THEN p[k] ELSE t[k - Len(p)]
  BY <1>2, ConcatShape
<1>b. Len(t) \in Nat
  OBVIOUS
<1>3. s \in Seq(Nat) /\ Len(s) = 3 + Len(t) /\ s[1] = p[1] /\ s[2] = p[2] /\ s[3] = p[3]
  BY <1>2, <1>a, <1>b
<1>4. ASSUME NEW i \in 1 .. Len(t) PROVE s[3 + i] = t[i]
  <2> DEFINE k == 3 + i
  <2>1. k \in 1 .. Len(p) + Len(t) /\ ~(k <= Len(p)) /\ k - Len(p) = i
    BY <1>2, <1>b
  <2> HIDE DEF k
  <2>2. s[k] = t[i]
    BY <1>a, <2>1
  <2> QED  BY <2>2 DEF k
<1>5. 1 + 1 = 2 /\ 1 + 2 = 3 /\ 1 + 2 <= Len(s)
  BY <1>3
<1> QED  BY <1>2, <1>3, <1>4, <1>5 DEF IsEscape, EscapeValue, Hex, s

\* The places of URL_unescape, as URL_unescape gives them to its walk.
Decoded(s, i) == IsEscape(s, i) /\ EscapeValue(s, i) # 0
UnescapeOut(s) == [i \in DOMAIN s |-> IF Decoded(s, i) THEN <<EscapeValue(s, i)>> ELSE <<s[i]>>]
UnescapeRead(s) == [i \in DOMAIN s |-> IF Decoded(s, i) THEN 3 ELSE 1]

LEMMA UnescapeReads ==
  ASSUME NEW s \in Seq(Nat)
  PROVE  /\ Reads(Len(s), UnescapeOut(s), UnescapeRead(s))
         /\ URL_unescape(s) = Walk(s, UnescapeOut(s), UnescapeRead(s))
<1>1. URL_unescape(s) = Walk(s, UnescapeOut(s), UnescapeRead(s))
  BY DEF URL_unescape, Decoded, UnescapeOut, UnescapeRead
<1>2. ASSUME NEW i \in 1 .. Len(s), Decoded(s, i) PROVE EscapeValue(s, i) \in Nat
  <2>1. ISXDIGIT(s[i + 1]) /\ ISXDIGIT(s[i + 2])
    BY <1>2 DEF Decoded, IsEscape
  <2>2. \A d : ISXDIGIT(d) => DigitValue(d) \in Nat
    BY DEF ISXDIGIT, DigitValue
  <2>3. DigitValue(s[i + 1]) \in Nat /\ DigitValue(s[i + 2]) \in Nat
    BY <2>1, <2>2
  <2> QED  BY <2>3 DEF EscapeValue
<1>3. UnescapeOut(s) \in [1 .. Len(s) -> Seq(Nat)]
  BY <1>2 DEF UnescapeOut
<1>4. UnescapeRead(s) \in [1 .. Len(s) -> 1 .. 4]
  BY DEF UnescapeRead
<1> QED  BY <1>1, <1>3, <1>4 DEF Reads

\* Behind r characters a text is read as it is alone.
LEMMA UnescapeBehind ==
  ASSUME NEW t \in Seq(Nat), NEW s \in Seq(Nat), NEW r \in 1 .. 4, Len(s) = r + Len(t),
         \A i \in 1 .. Len(t) : s[r + i] = t[i], UnescapeRead(s)[1] = r
  PROVE  /\ URL_unescape(s) = UnescapeOut(s)[1] \o URL_unescape(t)
         /\ URL_unescape(t) \in Seq(Nat)
<1>1. ASSUME NEW i \in 1 .. Len(t)
      PROVE  /\ UnescapeOut(s)[r + i] = UnescapeOut(t)[i]
             /\ UnescapeRead(s)[r + i] = UnescapeRead(t)[i]
  <2>1. r + i \in DOMAIN s /\ i \in DOMAIN t /\ s[r + i] = t[i]
    OBVIOUS
  <2>2. /\ Decoded(s, r + i) <=> Decoded(t, i)
        /\ Decoded(t, i) => EscapeValue(s, r + i) = EscapeValue(t, i)
    <3>1. /\ t \in Seq(Nat) /\ s \in Seq(Nat) /\ r \in Nat /\ Len(s) = r + Len(t)
          /\ i \in 1 .. Len(t) /\ \A k \in 1 .. Len(t) : s[r + k] = t[k]
      OBVIOUS
    <3>2. /\ IsEscape(s, r + i) <=> IsEscape(t, i)
          /\ IsEscape(t, i) => EscapeValue(s, r + i) = EscapeValue(t, i)
      BY ONLY <3>1, EscapeBehind
    <3> QED  BY <3>2 DEF Decoded
  <2> QED  BY <2>1, <2>2 DEF UnescapeOut, UnescapeRead
<1>2. Continues(Len(s), Len(t), r, UnescapeOut(s), UnescapeRead(s), UnescapeOut(t), UnescapeRead(t))
  BY <1>1, UnescapeReads DEF Continues
<1>3. Len(t) \in Nat /\ r \in 1 .. 4
  OBVIOUS
<1>4. Walk(s, UnescapeOut(s), UnescapeRead(s))
        = UnescapeOut(s)[1] \o Walk(t, UnescapeOut(t), UnescapeRead(t))
  BY ONLY <1>2, <1>3, WalkOn
<1>5. Walk(t, UnescapeOut(t), UnescapeRead(t)) \in Seq(Nat)
  BY UnescapeReads, WalkIsText
<1> QED  BY <1>4, <1>5, UnescapeReads

\* URL_unescape: a character that begins no escape, and an escape.
LEMMA UnescapeFirst ==
  ASSUME NEW c \in Nat, NEW t \in Seq(Nat), NEW s, s = <<c>> \o t, ~Decoded(s, 1)
  PROVE  URL_unescape(s) = <<c>> \o URL_unescape(t) /\ URL_unescape(t) \in Seq(Nat)
<1>1. /\ s \in Seq(Nat) /\ Len(s) = 1 + Len(t) /\ s[1] = c
      /\ \A i \in 1 .. Len(t) : s[1 + i] = t[i]
  BY PutBefore
<1>2. UnescapeRead(s)[1] = 1 /\ UnescapeOut(s)[1] = <<c>>
  BY <1>1 DEF UnescapeRead, UnescapeOut
<1>3. 1 \in 1 .. 4
  OBVIOUS
<1> QED  BY <1>1, <1>2, <1>3, UnescapeBehind

LEMMA UnescapeEscape ==
  ASSUME NEW t \in Seq(Nat), NEW d, NEW e, ISXDIGIT(d), ISXDIGIT(e)
  PROVE  /\ URL_unescape(EscapeBefore(d, e, t))
              = (IF Hex(d, e) = 0 THEN <<Percent, d, e>> ELSE <<Hex(d, e)>>) \o URL_unescape(t)
         /\ URL_unescape(t) \in Seq(Nat)
<1> DEFINE s == EscapeBefore(d, e, t)
           v == Hex(d, e)
<1>1. /\ s \in Seq(Nat) /\ Len(s) = 3 + Len(t) /\ \A i \in 1 .. Len(t) : s[3 + i] = t[i]
      /\ s[1] = Percent /\ s[2] = d /\ s[3] = e /\ IsEscape(s, 1) /\ EscapeValue(s, 1) = v
  BY EscapeIsText
<1> HIDE DEF s, v
<1>2. d \in Nat /\ e \in Nat /\ v \in Nat /\ Percent \in Nat
  <2>1. d \in Nat /\ e \in Nat
    BY DigitValueIsNat
  <2>2. v \in 0 .. 255
    BY HexIsByte DEF v
  <2> QED  BY <2>1, <2>2 DEF Percent
<1>3. CASE v # 0
  <2>1. UnescapeRead(s)[1] = 3 /\ UnescapeOut(s)[1] = <<v>>
    BY <1>1, <1>3 DEF UnescapeRead, UnescapeOut, Decoded
  <2>2. 3 \in 1 .. 4
    OBVIOUS
  <2>3. URL_unescape(s) = <<v>> \o URL_unescape(t) /\ URL_unescape(t) \in Seq(Nat)
    BY <1>1, <2>1, <2>2, UnescapeBehind
  <2> QED  BY <1>2, <1>3, <2>3 DEF s, v
<1>4. CASE v = 0
  <2> DEFINE e1 == <<e>> \o t
             d1 == <<d>> \o e1
  <2>1. e1 \in Seq(Nat) /\ d1 \in Seq(Nat) /\ e1[1] = e /\ d1[1] = d
    BY <1>2, PutBefore
  <2>2. s = <<Percent>> \o d1
    BY <1>2, ThreeBefore DEF s, EscapeBefore
  <2>3. d # Percent /\ e # Percent
    BY DigitValueIsNat
  <2>4. ~Decoded(e1, 1) /\ ~Decoded(d1, 1)
    BY <2>1, <2>3 DEF Decoded, IsEscape
  <2>5. ~Decoded(s, 1)
    BY <1>1, <1>4 DEF Decoded
  <2>6. URL_unescape(e1) = <<e>> \o URL_unescape(t) /\ URL_unescape(t) \in Seq(Nat)
    BY <1>2, <2>4, UnescapeFirst
  <2>7. URL_unescape(d1) = <<d>> \o URL_unescape(e1)
    BY <1>2, <2>1, <2>4, UnescapeFirst
  <2>8. URL_unescape(s) = <<Percent>> \o URL_unescape(d1)
    BY <1>2, <2>1, <2>2, <2>5, UnescapeFirst
  <2> DEFINE u == URL_unescape(t)
  <2>9. u \in Seq(Nat) /\ URL_unescape(s) = <<Percent>> \o (<<d>> \o (<<e>> \o u))
    BY <2>6, <2>7, <2>8
  <2> HIDE DEF u
  <2>10. <<Percent>> \o (<<d>> \o (<<e>> \o u)) = <<Percent, d, e>> \o u
    BY <1>2, <2>9, ThreeBefore
  <2>11. URL_unescape(s) = <<Percent, d, e>> \o u
    BY <2>9, <2>10
  <2> QED  BY <1>4, <2>9, <2>11 DEF s, u, v
<1> QED  BY <1>3, <1>4

LEMMA ReencodeEmpty ==
  URL_reencode_escapes(<<>>) = <<>> /\ URL_unescape(<<>>) = <<>>
<1> DEFINE e == <<>>
           out == [i \in DOMAIN e |->
                     IF CharNeedsEscaping(e, i) THEN Escaped(e[i], 65) ELSE <<e[i]>>]
           read == [i \in DOMAIN e |-> 1]
<1>1. Len(e) = 0 /\ DOMAIN e = {} /\ 1 .. Len(e) = {} /\ e \in Seq(Nat)
  OBVIOUS
<1>2. Reads(Len(e), out, read)
  BY <1>1 DEF Reads
<1>3. URL_reencode_escapes(e) = Walk(e, out, read)
  BY DEF URL_reencode_escapes
<1> HIDE DEF out, read, e
<1>4. Len(e) \in Nat
  BY <1>1
<1>5. Walk(e, out, read) = <<>>
  BY <1>1, <1>2, <1>4, WalkIsText
<1>6. Reads(Len(e), UnescapeOut(e), UnescapeRead(e))
      /\ URL_unescape(e) = Walk(e, UnescapeOut(e), UnescapeRead(e))
  BY <1>1, UnescapeReads
<1>7. Walk(e, UnescapeOut(e), UnescapeRead(e)) = <<>>
  BY <1>1, <1>4, <1>6, WalkIsText
<1> QED  BY <1>3, <1>5, <1>6, <1>7 DEF e

LEMMA ReencodeIsText ==
  ASSUME NEW t \in Seq(Nat)
  PROVE  URL_reencode_escapes(t) \in Seq(Nat) /\ URL_unescape(t) \in Seq(Nat)
<1>1. Percent \in Nat
  BY DEF Percent
<1>2. URL_reencode_escapes(t) \in Seq(Nat)
  BY <1>1, ReencodeFirst
<1>3. URL_unescape(t) \in Seq(Nat)
  <2>1. Len(t) \in Nat
    OBVIOUS
  <2> QED  BY <2>1, UnescapeReads, WalkIsText
<1> QED  BY <1>2, <1>3

\* An escape stays as it is, and so does what is behind it.
LEMMA ReencodeEscape ==
  ASSUME NEW t \in Seq(Nat), NEW d, NEW e, ISXDIGIT(d), ISXDIGIT(e)
  PROVE  URL_reencode_escapes(EscapeBefore(d, e, t)) = EscapeBefore(d, e, URL_reencode_escapes(t))
<1> DEFINE e1 == <<e>> \o t
           d1 == <<d>> \o e1
           s == EscapeBefore(d, e, t)
           u == URL_reencode_escapes(t)
<1>1. d \in Nat /\ e \in Nat /\ Percent \in Nat /\ u \in Seq(Nat)
  BY DigitValueIsNat, ReencodeIsText DEF Percent
<1>2. e1 \in Seq(Nat) /\ d1 \in Seq(Nat) /\ e1[1] = e /\ d1[1] = d
  BY <1>1, PutBefore
<1>3. s = <<Percent>> \o d1
  BY <1>1, ThreeBefore DEF EscapeBefore
<1>4. ~CharNeedsEscaping(e1, 1) /\ ~CharNeedsEscaping(d1, 1)
  BY <1>2, DigitValueIsNat DEF CharNeedsEscaping
<1>5. ~CharNeedsEscaping(s, 1)
  BY EscapeIsText DEF CharNeedsEscaping
<1>6. URL_reencode_escapes(e1) = <<e>> \o u
  BY <1>1, <1>4, ReencodeFirst
<1>a. d1 = <<d>> \o e1
  OBVIOUS
<1> HIDE DEF u, s, d1, e1
<1>7. URL_reencode_escapes(d1) = <<d>> \o (<<e>> \o u)
  <2>1. URL_reencode_escapes(d1) = <<d>> \o URL_reencode_escapes(e1)
    BY <1>1, <1>2, <1>4, <1>a, ReencodeFirst
  <2> QED  BY <1>6, <2>1
<1>8. URL_reencode_escapes(s) = <<Percent>> \o (<<d>> \o (<<e>> \o u))
  <2>1. URL_reencode_escapes(s) = <<Percent>> \o URL_reencode_escapes(d1)
    BY <1>1, <1>2, <1>3, <1>5, ReencodeFirst
  <2> QED  BY <1>7, <2>1
<1>9. <<Percent>> \o (<<d>> \o (<<e>> \o u)) = EscapeBefore(d, e, u)
  BY <1>1, ThreeBefore DEF EscapeBefore
<1> QED  BY <1>8, <1>9 DEF s, u

Bytes == 1 .. 255
HexLetters == {65, 97}

\* The two digits of a byte, in either case, are its value.
LEMMA EscapedIsHex ==
  ASSUME NEW c \in Bytes, NEW a \in HexLetters
  PROVE  \E d, e : /\ ISXDIGIT(d) /\ ISXDIGIT(e) /\ Hex(d, e) = c
                   /\ Escaped(c, a) = <<Percent, d, e>>
<1>0. c \in 0 .. 255 /\ a \in {65, 97}
  BY DEF Bytes, HexLetters
<1>1. ASSUME NEW v \in 0 .. 15 PROVE ISXDIGIT(Digit(v, a)) /\ DigitValue(Digit(v, a)) = v
  BY <1>0 DEF ISXDIGIT, Digit, DigitValue
<1>2. c \div 16 \in 0 .. 15 /\ c % 16 \in 0 .. 15 /\ 16 * (c \div 16) + (c % 16) = c
  BY <1>0
<1> DEFINE d == Digit(c \div 16, a)
           e == Digit(c % 16, a)
<1>3. ISXDIGIT(d) /\ ISXDIGIT(e) /\ Hex(d, e) = c /\ Escaped(c, a) = <<Percent, d, e>>
  BY <1>1, <1>2 DEF Hex, Escaped
<1> HIDE DEF d, e
<1> QED  BY <1>3

\* What a second writing makes of a text written once, and what it decodes to.
Stable(s) ==
  /\ URL_reencode_escapes(URL_reencode_escapes(s)) = URL_reencode_escapes(s)
  /\ URL_unescape(URL_reencode_escapes(s)) = URL_unescape(s)

LEMMA BytesAreNats ==
  ASSUME NEW t \in Seq(Bytes)
  PROVE  t \in Seq(Nat)
<1>1. t \in [1 .. Len(t) -> Bytes] /\ Len(t) \in Nat
  OBVIOUS
<1>a. Bytes \subseteq Nat
  BY DEF Bytes
<1>2. t \in [1 .. Len(t) -> Nat]
  BY <1>1, <1>a
<1> QED  BY <1>1, <1>2

\* A byte's escape is put before a text, and decodes to the byte.
LEMMA EscapedFirst ==
  ASSUME NEW c \in Bytes, NEW t \in Seq(Nat), NEW a \in HexLetters
  PROVE  /\ \E d, e : ISXDIGIT(d) /\ ISXDIGIT(e) /\ Escaped(c, a) \o t = EscapeBefore(d, e, t)
                      /\ Escaped(c, a) = <<Percent, d, e>>
         /\ URL_unescape(Escaped(c, a) \o t) = <<c>> \o URL_unescape(t)
<1>1. c \in 0 .. 255 /\ c # 0
  BY DEF Bytes
<1>2. PICK d, e : ISXDIGIT(d) /\ ISXDIGIT(e) /\ Hex(d, e) = c /\ Escaped(c, a) = <<Percent, d, e>>
  BY EscapedIsHex
<1>3. Escaped(c, a) \o t = EscapeBefore(d, e, t)
  BY <1>2 DEF EscapeBefore
<1>4. URL_unescape(EscapeBefore(d, e, t)) = <<c>> \o URL_unescape(t)
  BY <1>1, <1>2, UnescapeEscape
<1> QED  BY <1>2, <1>3, <1>4

\* The first character of a text escaped, and the rest of it stable: the text is.
LEMMA StableEscaped ==
  ASSUME NEW c \in Bytes, NEW t \in Seq(Bytes), Stable(t), NEW s, s = <<c>> \o t,
         CharNeedsEscaping(s, 1)
  PROVE  Stable(s)
<1> DEFINE r == URL_reencode_escapes(t)
<1>1. c \in Nat /\ t \in Seq(Nat) /\ s \in Seq(Nat) /\ s[1] = c
  <2>1. c \in Nat /\ t \in Seq(Nat)
    BY BytesAreNats DEF Bytes
  <2> QED  BY <2>1, PutBefore
<1>2. r \in Seq(Nat) /\ URL_reencode_escapes(s) = Escaped(c, 65) \o r
  BY <1>1, ReencodeFirst
<1>3. URL_reencode_escapes(r) = r /\ URL_unescape(r) = URL_unescape(t)
  BY DEF Stable
<1>a. 65 \in HexLetters
  BY DEF HexLetters
<1> HIDE DEF r
<1>4. PICK d, e : /\ ISXDIGIT(d) /\ ISXDIGIT(e) /\ Escaped(c, 65) \o r = EscapeBefore(d, e, r)
                  /\ Escaped(c, 65) = <<Percent, d, e>>
  BY <1>2, <1>a, EscapedFirst
<1>5. URL_reencode_escapes(EscapeBefore(d, e, r)) = EscapeBefore(d, e, r)
  BY <1>2, <1>3, <1>4, ReencodeEscape
<1>6. URL_unescape(Escaped(c, 65) \o r) = <<c>> \o URL_unescape(r)
  BY <1>2, <1>a, EscapedFirst
<1>7. ~Decoded(s, 1)
  BY DEF CharNeedsEscaping, Decoded, IsEscape
<1>8. URL_unescape(s) = <<c>> \o URL_unescape(t)
  BY <1>1, <1>7, UnescapeFirst
<1> QED  BY <1>2, <1>3, <1>4, <1>5, <1>6, <1>8 DEF Stable

\* A character that stays as it is, and begins no escape.
LEMMA StableSafe ==
  ASSUME NEW c \in Bytes, NEW t \in Seq(Bytes), Stable(t), NEW s, s = <<c>> \o t,
         c # Percent, ~CharNeedsEscaping(s, 1)
  PROVE  Stable(s)
<1> DEFINE r == URL_reencode_escapes(t)
           x == <<c>> \o r
<1>1. c \in Nat /\ t \in Seq(Nat) /\ s \in Seq(Nat) /\ s[1] = c
  <2>1. c \in Nat /\ t \in Seq(Nat)
    BY BytesAreNats DEF Bytes
  <2> QED  BY <2>1, PutBefore
<1>2. r \in Seq(Nat) /\ URL_reencode_escapes(s) = x
  BY <1>1, ReencodeFirst
<1>3. URL_reencode_escapes(r) = r /\ URL_unescape(r) = URL_unescape(t)
  BY DEF Stable
<1> HIDE DEF r
<1>4. x[1] = c /\ x = <<c>> \o r
  BY <1>1, <1>2, PutBefore
<1> HIDE DEF x
<1>5. ~CharNeedsEscaping(x, 1)
  BY <1>1, <1>4 DEF CharNeedsEscaping
<1>6. URL_reencode_escapes(x) = x
  <2>1. URL_reencode_escapes(x) = <<c>> \o URL_reencode_escapes(r)
    BY <1>1, <1>2, <1>4, <1>5, ReencodeFirst
  <2> QED  BY <1>3, <1>4, <2>1
<1>7. ~Decoded(s, 1) /\ ~Decoded(x, 1)
  BY <1>1, <1>4 DEF Decoded, IsEscape
<1>8. URL_unescape(x) = <<c>> \o URL_unescape(r) /\ URL_unescape(s) = <<c>> \o URL_unescape(t)
  BY <1>1, <1>2, <1>4, <1>7, UnescapeFirst
<1> QED  BY <1>2, <1>3, <1>6, <1>8 DEF Stable

\* An escape the text came with.
LEMMA StableEscape ==
  ASSUME NEW t \in Seq(Bytes), Stable(t), NEW d, NEW e, ISXDIGIT(d), ISXDIGIT(e)
  PROVE  Stable(EscapeBefore(d, e, t))
<1> DEFINE r == URL_reencode_escapes(t)
<1>1. t \in Seq(Nat)
  BY BytesAreNats
<1>2. r \in Seq(Nat)
  BY <1>1, ReencodeIsText
<1>3. URL_reencode_escapes(EscapeBefore(d, e, t)) = EscapeBefore(d, e, r)
  BY <1>1, ReencodeEscape
<1>4. URL_reencode_escapes(r) = r /\ URL_unescape(r) = URL_unescape(t)
  BY DEF Stable
<1> HIDE DEF r
<1>5. URL_reencode_escapes(EscapeBefore(d, e, r)) = EscapeBefore(d, e, r)
  BY <1>2, <1>4, ReencodeEscape
<1>6. URL_unescape(EscapeBefore(d, e, r)) = URL_unescape(EscapeBefore(d, e, t))
  <2> DEFINE p == IF Hex(d, e) = 0 THEN <<Percent, d, e>> ELSE <<Hex(d, e)>>
  <2>1. URL_unescape(EscapeBefore(d, e, t)) = p \o URL_unescape(t)
    BY <1>1, UnescapeEscape
  <2>2. URL_unescape(EscapeBefore(d, e, r)) = p \o URL_unescape(r)
    BY <1>2, UnescapeEscape
  <2> HIDE DEF p
  <2> QED  BY <1>4, <2>1, <2>2
<1> QED  BY <1>3, <1>5, <1>6 DEF Stable

\* A text that begins with an escape, cut behind it.
LEMMA EscapeAndRest ==
  ASSUME NEW s \in Seq(Bytes), Len(s) > 0, IsEscape(s, 1)
  PROVE  \E d, e : \E t \in Seq(Bytes) :
           ISXDIGIT(d) /\ ISXDIGIT(e) /\ s = EscapeBefore(d, e, t) /\ Len(t) = Len(s) - 3
<1> DEFINE t == SubSeq(s, 4, Len(s))
           d == s[2]
           e == s[3]
           x == EscapeBefore(d, e, t)
<1>1. s[1] = Percent /\ 3 <= Len(s) /\ ISXDIGIT(d) /\ ISXDIGIT(e)
  <2>1. 1 + 1 = 2 /\ 1 + 2 = 3
    OBVIOUS
  <2> QED  BY <2>1 DEF IsEscape
<1>2. t \in Seq(Bytes) /\ Len(t) = Len(s) - 3 /\ \A i \in 1 .. Len(t) : t[i] = s[3 + i]
  <2>1. 4 \in Int /\ Len(s) \in Int /\ \A i \in 4 .. Len(s) : s[i] \in Bytes
    OBVIOUS
  <2>2. /\ t \in Seq(Bytes) /\ Len(t) = (IF 4 <= Len(s) THEN Len(s) - 4 + 1 ELSE 0)
        /\ \A i \in 1 .. Len(s) - 4 + 1 : t[i] = s[4 + i - 1]
    BY <2>1, SubSeqProperties
  <2> HIDE DEF t
  <2>3. Len(t) = Len(s) - 3 /\ Len(s) - 4 + 1 = Len(t)
    <3> DEFINE n == Len(s)
    <3>1. n \in Int /\ 3 <= n /\ Len(t) = IF 4 <= n THEN n - 4 + 1 ELSE 0
      BY <1>1, <2>1, <2>2
    <3> HIDE DEF n
    <3>2. Len(t) = n - 3 /\ n - 4 + 1 = n - 3
      BY <3>1
    <3> QED  BY <3>2 DEF n
  <2>4. ASSUME NEW i \in 1 .. Len(t) PROVE t[i] = s[3 + i]
    <3>1. 4 + i - 1 = 3 + i
      BY <2>1, <2>3
    <3> QED  BY <2>2, <2>3, <3>1
  <2> QED  BY <2>2, <2>3, <2>4
<1>a. d = s[2] /\ e = s[3]
  OBVIOUS
<1> HIDE DEF t, d, e
<1>3. t \in Seq(Nat) /\ s \in Seq(Nat)
  BY <1>2, BytesAreNats
<1>4. /\ x \in Seq(Nat) /\ Len(x) = 3 + Len(t) /\ \A i \in 1 .. Len(t) : x[3 + i] = t[i]
      /\ x[1] = Percent /\ x[2] = d /\ x[3] = e
  BY <1>1, <1>3, EscapeIsText
<1> HIDE DEF x
<1>5. ASSUME NEW k \in 1 .. Len(s) PROVE s[k] = x[k]
  <2>1. CASE k <= 3
    <3>1. k = 1 \/ k = 2 \/ k = 3
      BY <2>1
    <3> QED  BY <1>1, <1>4, <1>a, <3>1
  <2>2. CASE k > 3
    <3> DEFINE i == k - 3
    <3>1. i \in 1 .. Len(t) /\ 3 + i = k
      BY <1>2, <2>2
    <3> HIDE DEF i
    <3> QED  BY <1>2, <1>4, <3>1
  <2> QED  BY <2>1, <2>2
<1>6. s = x
  <2>1. Len(s) = Len(x)
    BY <1>2, <1>4
  <2> QED  BY <1>3, <1>4, <1>5, <2>1, SameElements
<1> QED  BY <1>1, <1>2, <1>6 DEF x

LEMMA AllStable ==
  ASSUME NEW s \in Seq(Bytes)
  PROVE  Stable(s)
<1> DEFINE K == {n \in Nat : \A x \in Seq(Bytes) : Len(x) <= n => Stable(x)}
<1>1. 0 \in K
  <2>1. Stable(<<>>)
    BY ReencodeEmpty DEF Stable
  <2>2. \A x \in Seq(Bytes) : Len(x) <= 0 => x = <<>>
    OBVIOUS
  <2> QED  BY <2>1, <2>2
<1>2. ASSUME NEW n \in Nat, n \in K PROVE n + 1 \in K
  <2> SUFFICES ASSUME NEW x \in Seq(Bytes), Len(x) <= n + 1 PROVE Stable(x)
    OBVIOUS
  <2>1. \A y \in Seq(Bytes) : Len(y) <= n => Stable(y)
    BY <1>2
  <2> HIDE DEF K
  <2>2. CASE Len(x) = 0
    <3>1. Len(x) <= n
      BY <2>2
    <3> QED  BY <2>1, <3>1
  <2>3. CASE Len(x) > 0
    <3>1. PICK c \in Bytes : \E t \in Seq(Bytes) : x = <<c>> \o t /\ Len(t) = Len(x) - 1
      BY <2>3, FirstAndRest
    <3>2. PICK t \in Seq(Bytes) : x = <<c>> \o t /\ Len(t) = Len(x) - 1
      BY <3>1
    <3>3. Stable(t)
      BY <2>1, <3>2
    <3>4. x[1] = c
      BY <3>2, PutBefore
    <3>5. CASE CharNeedsEscaping(x, 1)
      BY <3>2, <3>3, <3>5, StableEscaped
    <3>6. CASE ~CharNeedsEscaping(x, 1) /\ c # Percent
      BY <3>2, <3>3, <3>6, StableSafe
    <3>7. CASE ~CharNeedsEscaping(x, 1) /\ c = Percent
      <4>1. IsEscape(x, 1)
        BY <3>4, <3>7 DEF CharNeedsEscaping
      <4>2. PICK d, e : \E u \in Seq(Bytes) :
              ISXDIGIT(d) /\ ISXDIGIT(e) /\ x = EscapeBefore(d, e, u) /\ Len(u) = Len(x) - 3
        BY <2>3, <4>1, EscapeAndRest
      <4>3. PICK u \in Seq(Bytes) :
              ISXDIGIT(d) /\ ISXDIGIT(e) /\ x = EscapeBefore(d, e, u) /\ Len(u) = Len(x) - 3
        BY <4>2
      <4>4. Stable(u)
        BY <2>1, <4>3
      <4> QED  BY <4>3, <4>4, StableEscape
    <3> QED  BY <3>5, <3>6, <3>7
  <2> QED  BY <2>2, <2>3
<1>3. Len(s) \in K
  <2>1. Len(s) \in Nat
    OBVIOUS
  <2>2. \A n \in Nat : n \in K => n + 1 \in K
    BY <1>2
  <2> HIDE DEF K
  <2> QED  BY <1>1, <2>1, <2>2, Induction
<1>4. Len(s) <= Len(s)
  OBVIOUS
<1> QED  BY <1>3, <1>4

\* The address grows by bytes.
AddressInv == url \in Seq(Bytes)

LEMMA AddressIsText ==
  MCSpec => []AddressInv
<1>1. MCInit => AddressInv
  BY DEF MCInit, AddressInv
<1>2. AddressInv /\ [MCNext]_<<chosen, vars, historyVars, textVars>> => AddressInv'
  <2> SUFFICES ASSUME AddressInv, [MCNext]_<<chosen, vars, historyVars, textVars>>
               PROVE  AddressInv'
    OBVIOUS
  <2>1. CASE url' = url
    BY <2>1 DEF AddressInv
  <2>2. CASE GrowText(url, UrlChars)
    <3>1. UrlChars \subseteq Bytes
      BY CharsAssumption DEF Bytes
    <3>2. PICK c \in UrlChars : url' = Append(url, c)
      BY <2>2 DEF GrowText
    <3> QED  BY <3>1, <3>2 DEF AddressInv
  <2>3. url' = url \/ GrowText(url, UrlChars)
    <3>1. CASE MCNext
      BY <3>1 DEF MCNext, textVars
    <3>2. CASE UNCHANGED <<chosen, vars, historyVars, textVars>>
      BY <3>2 DEF textVars
    <3> QED  BY <3>1, <3>2
  <2> QED  BY <2>1, <2>2, <2>3
<1> QED  BY <1>1, <1>2, PTL DEF MCSpec

\* Whatever bytes an address is made of, writing a bookmark again changes
\* nothing more, and what the address decodes to stays what it was
\* (URL_reencode_escapes, url_utils.c:339-385).
THEOREM AddressesKept ==
  MCSpec => []ReencodeKeeps
<1>1. AddressInv => ReencodeKeeps
  BY AllStable DEF Stable, AddressInv, ReencodeKeeps
<1> QED  BY <1>1, AddressIsText, PTL

-----------------------------------------------------------------------------
(***************************************************************************)
(* Typed text: what a conversion that reads one character at a time makes  *)
(* of a text.                                                              *)
(***************************************************************************)

EachRead(s) == [i \in DOMAIN s |-> 1]

LEMMA EachReads ==
  ASSUME NEW s \in Seq(Nat), NEW out \in [1 .. Len(s) -> Seq(Nat)]
  PROVE  Reads(Len(s), out, EachRead(s)) /\ Walk(s, out, EachRead(s)) \in Seq(Nat)
<1>1. Reads(Len(s), out, EachRead(s))
  BY DEF Reads, EachRead
<1>2. Len(s) \in Nat
  OBVIOUS
<1> QED  BY <1>1, <1>2, WalkIsText

\* out is for a character and t what out2 is for t.
OneMore(s, c, t, out, out2) ==
  /\ c \in Nat /\ t \in Seq(Nat) /\ s = <<c>> \o t
  /\ out \in [1 .. Len(s) -> Seq(Nat)] /\ out2 \in [1 .. Len(t) -> Seq(Nat)]
  /\ \A i \in 1 .. Len(t) : out[1 + i] = out2[i]

LEMMA EachFirst ==
  ASSUME NEW s, NEW c, NEW t, NEW out, NEW out2, OneMore(s, c, t, out, out2)
  PROVE  /\ Walk(s, out, EachRead(s)) = out[1] \o Walk(t, out2, EachRead(t))
         /\ Walk(t, out2, EachRead(t)) \in Seq(Nat)
<1>0. /\ c \in Nat /\ t \in Seq(Nat) /\ s = <<c>> \o t
      /\ out \in [1 .. Len(s) -> Seq(Nat)] /\ out2 \in [1 .. Len(t) -> Seq(Nat)]
      /\ \A i \in 1 .. Len(t) : out[1 + i] = out2[i]
  BY DEF OneMore
<1>1. s \in Seq(Nat) /\ Len(s) = 1 + Len(t)
  BY <1>0, PutBefore
<1>2. /\ Reads(Len(s), out, EachRead(s)) /\ Reads(Len(t), out2, EachRead(t))
      /\ Walk(t, out2, EachRead(t)) \in Seq(Nat)
  BY <1>0, <1>1, EachReads
<1>3. EachRead(s)[1] = 1 /\ \A i \in 1 .. Len(t) : EachRead(s)[1 + i] = EachRead(t)[i]
  BY <1>0, <1>1 DEF EachRead
<1>4. Continues(Len(s), Len(t), 1, out, EachRead(s), out2, EachRead(t))
  BY <1>0, <1>1, <1>2, <1>3 DEF Continues
<1>5. Len(t) \in Nat /\ 1 \in 1 .. 4
  BY <1>0
<1> DEFINE p == EachRead(s)
           q == EachRead(t)
<1>6. Continues(Len(s), Len(t), 1, out, p, out2, q)
  BY <1>4
<1> HIDE DEF p, q
<1>7. Walk(s, out, p) = out[1] \o Walk(t, out2, q)
  BY ONLY <1>5, <1>6, WalkOn
<1> QED  BY <1>2, <1>7 DEF p, q

Letters == (1 .. 127) \cup (1040 .. 1103) \cup {1025, 1105}

LEMMA LettersAreNats ==
  ASSUME NEW t \in Seq(Letters)
  PROVE  t \in Seq(Nat)
<1>1. t \in [1 .. Len(t) -> Letters] /\ Len(t) \in Nat
  OBVIOUS
<1>a. Letters \subseteq Nat
  BY DEF Letters
<1>2. t \in [1 .. Len(t) -> Nat]
  BY <1>1, <1>a
<1> QED  BY <1>1, <1>2

LEMMA Utf8Shape ==
  ASSUME NEW c \in Letters
  PROVE  /\ c < 128 => c \in Bytes /\ Utf8(c) = <<c>>
         /\ c >= 128 => /\ Utf8(c) = <<192 + c \div 64, 128 + (c % 64)>>
                        /\ 192 + c \div 64 \in {208, 209} /\ 128 + (c % 64) \in 128 .. 191
         /\ Utf8(c) \in Seq(Nat) /\ c \in Nat
<1>1. c \in Nat /\ (c < 128 => c \in Bytes) /\ (c >= 128 => c \in 1025 .. 1105)
  BY DEF Letters, Bytes
<1>2. CASE c < 128
  BY <1>1, <1>2 DEF Utf8
<1>3. CASE c >= 128
  <2>1. c \div 64 \in {16, 17} /\ c % 64 \in 0 .. 63
    BY <1>1, <1>3
  <2>2. Utf8(c) = <<192 + c \div 64, 128 + (c % 64)>>
    BY <1>1, <1>3 DEF Utf8
  <2> DEFINE x == c \div 64
             y == c % 64
  <2> HIDE DEF x, y
  <2>3. 192 + x \in {208, 209} /\ 128 + y \in 128 .. 191
    BY <2>1 DEF x, y
  <2>4. <<192 + x, 128 + y>> \in Seq(Nat)
    BY <2>3
  <2> QED  BY <1>1, <1>3, <2>2, <2>3, <2>4 DEF x, y
<1> QED  BY <1>1, <1>2, <1>3

LEMMA Utf8First ==
  ASSUME NEW c \in Letters, NEW t \in Seq(Letters)
  PROVE  Utf8Of(<<c>> \o t) = Utf8(c) \o Utf8Of(t) /\ Utf8Of(t) \in Seq(Nat)
<1> DEFINE Out(x) == [i \in DOMAIN x |-> Utf8(x[i])]
           s == <<c>> \o t
<1>1. s \in Seq(Letters) /\ Len(s) = 1 + Len(t) /\ s[1] = c /\ \A i \in 1 .. Len(t) : s[1 + i] = t[i]
  BY PutBefore
<1>2. c \in Nat /\ t \in Seq(Nat) /\ s \in Seq(Nat) /\ s = <<c>> \o t
  BY <1>1, Utf8Shape, LettersAreNats
<1> HIDE DEF s
<1>3. ASSUME NEW x \in Seq(Letters)
      PROVE  Out(x) \in [1 .. Len(x) -> Seq(Nat)] /\ Utf8Of(x) = Walk(x, Out(x), EachRead(x))
  <2>1. \A i \in 1 .. Len(x) : x[i] \in Letters
    OBVIOUS
  <2>2. \A i \in 1 .. Len(x) : Utf8(x[i]) \in Seq(Nat)
    BY <2>1, Utf8Shape
  <2> QED  BY <2>2 DEF Utf8Of, EachRead
<1>4. Out(s)[1] = Utf8(c) /\ \A i \in 1 .. Len(t) : Out(s)[1 + i] = Out(t)[i]
  <2>1. 1 \in DOMAIN s /\ DOMAIN t = 1 .. Len(t) /\ \A i \in 1 .. Len(t) : 1 + i \in DOMAIN s
    BY <1>1
  <2> QED  BY <1>1, <2>1
<1>5. /\ Out(s) \in [1 .. Len(s) -> Seq(Nat)] /\ Out(t) \in [1 .. Len(t) -> Seq(Nat)]
      /\ Utf8Of(s) = Walk(s, Out(s), EachRead(s)) /\ Utf8Of(t) = Walk(t, Out(t), EachRead(t))
  BY <1>1, <1>3
<1> DEFINE a == Out(s)
           b == Out(t)
<1> HIDE DEF Out
<1>6. OneMore(s, c, t, a, b)
  BY <1>2, <1>4, <1>5 DEF OneMore
<1> HIDE DEF a, b
<1>7. /\ Walk(s, a, EachRead(s)) = a[1] \o Walk(t, b, EachRead(t))
      /\ Walk(t, b, EachRead(t)) \in Seq(Nat)
  BY <1>6, EachFirst
<1> QED  BY <1>4, <1>5, <1>7 DEF a, b, s

\* The 8-bit form of a letter, and what ToWeb with "special" puts out for a byte.
Narrow(s) == [i \in DOMAIN s |-> char16to8(s[i])]
WebOf(b) == IF b >= 128 \/ b \in Symbols THEN char_win2utf8(b, Symbols) ELSE <<b>>

LEMMA NarrowLetter ==
  ASSUME NEW c \in Letters
  PROVE  /\ char16to8(c) \in Bytes
         /\ c < 128 => char16to8(c) = c
         /\ c \in 1040 .. 1103 => char16to8(c) = c - 848
         /\ c = 1025 => char16to8(c) = 168
         /\ c = 1105 => char16to8(c) = 184
BY DEF Letters, Bytes, char16to8

LEMMA NarrowFirst ==
  ASSUME NEW c \in Letters, NEW t \in Seq(Letters)
  PROVE  /\ Narrow(<<c>> \o t) = <<char16to8(c)>> \o Narrow(t)
         /\ Narrow(t) \in Seq(Bytes) /\ Len(Narrow(t)) = Len(t)
<1> DEFINE s == <<c>> \o t
           b == char16to8(c)
           n == Narrow(t)
           x == <<b>> \o n
           z == Narrow(s)
<1>1. s \in Seq(Letters) /\ Len(s) = 1 + Len(t) /\ s[1] = c /\ \A k \in 2 .. 1 + Len(t) : s[k] = t[k - 1]
  BY PutBefore
<1>2. ASSUME NEW y \in Seq(Letters)
      PROVE  /\ Narrow(y) \in Seq(Bytes) /\ Len(Narrow(y)) = Len(y)
             /\ \A i \in 1 .. Len(y) : Narrow(y)[i] = char16to8(y[i])
  <2>1. \A i \in 1 .. Len(y) : y[i] \in Letters
    OBVIOUS
  <2>2. \A i \in 1 .. Len(y) : char16to8(y[i]) \in Bytes
    BY <2>1, NarrowLetter
  <2> QED  BY <2>2 DEF Narrow
<1>3. b \in Bytes
  BY NarrowLetter
<1>4. n \in Seq(Bytes) /\ Len(n) = Len(t) /\ \A i \in 1 .. Len(t) : n[i] = char16to8(t[i])
  BY <1>2
<1>5. z \in Seq(Bytes) /\ Len(z) = Len(s) /\ \A i \in 1 .. Len(s) : z[i] = char16to8(s[i])
  BY <1>1, <1>2
<1>a. b = char16to8(c)
  OBVIOUS
<1> HIDE DEF s, n, z, b
<1>6. x \in Seq(Bytes) /\ Len(x) = 1 + Len(n) /\ x[1] = b /\ \A k \in 2 .. 1 + Len(n) : x[k] = n[k - 1]
  BY <1>3, <1>4, PutBefore
<1> HIDE DEF x
<1>7. ASSUME NEW k \in 1 .. Len(z) PROVE z[k] = x[k]
  <2>0. Len(t) \in Nat
    OBVIOUS
  <2>1. CASE k = 1
    BY <1>1, <1>5, <1>6, <1>a, <2>1
  <2>2. CASE k # 1
    <3>1. k \in 2 .. 1 + Len(t) /\ k - 1 \in 1 .. Len(t) /\ k \in 1 .. Len(s)
      BY <1>1, <1>5, <2>0, <2>2
    <3>2. z[k] = char16to8(s[k]) /\ s[k] = t[k - 1]
      BY <1>1, <1>5, <3>1
    <3>3. x[k] = n[k - 1] /\ n[k - 1] = char16to8(t[k - 1])
      BY <1>4, <1>6, <3>1
    <3> QED  BY <3>2, <3>3
  <2> QED  BY <2>1, <2>2
<1>8. z = x
  <2>1. Len(z) = Len(x)
    BY <1>1, <1>4, <1>5, <1>6
  <2> QED  BY <1>5, <1>6, <1>7, <2>1, SameElements
<1> QED  BY <1>4, <1>8 DEF z, x, s, n, b

LEMMA WebIsText ==
  ASSUME NEW b \in Bytes
  PROVE  WebOf(b) \in Seq(Nat) /\ Len(WebOf(b)) <= IF b >= 128 THEN 7 ELSE IF b \in Symbols THEN 4 ELSE 1
<1>0. b \in Nat
  BY DEF Bytes
<1>1. ASSUME NEW x \in Nat PROVE Escaped(x, 97) \in Seq(Nat) /\ Len(Escaped(x, 97)) = 3
  <2>1. Escaped(x, 97) \in Seq(Nat)
    <3>1. 97 \in Nat /\ 97 > 10
      OBVIOUS
    <3> QED  BY <3>1, EscapedIsText
  <2>2. Len(Escaped(x, 97)) = 3
    BY DEF Escaped
  <2> QED  BY <2>1, <2>2
<1>2. ASSUME NEW x \in Nat, NEW y \in Nat
      PROVE  /\ Escaped(x, 97) \o Escaped(y, 97) \in Seq(Nat)
             /\ Len(Escaped(x, 97) \o Escaped(y, 97)) = 6
  <2> DEFINE p == Escaped(x, 97)
             q == Escaped(y, 97)
  <2>1. p \in Seq(Nat) /\ q \in Seq(Nat) /\ Len(p) = 3 /\ Len(q) = 3
    BY <1>1
  <2> HIDE DEF p, q
  <2>2. p \o q \in Seq(Nat) /\ Len(p \o q) = Len(p) + Len(q)
    BY <2>1, ConcatProperties
  <2>3. Len(p \o q) = 6
    BY <2>1, <2>2
  <2> QED  BY <2>2, <2>3 DEF p, q
<1>3. CASE b \in Symbols
  <2>1. WebOf(b) = Escaped(b, 97)
    BY <1>3 DEF WebOf, char_win2utf8
  <2>2. b < 128
    BY <1>0, <1>3 DEF Symbols
  <2>3. WebOf(b) \in Seq(Nat) /\ Len(WebOf(b)) = 3
    BY <1>0, <1>1, <2>1
  <2> QED  BY <1>0, <1>3, <2>2, <2>3
<1>4. CASE b \notin Symbols /\ b < 128
  <2>1. WebOf(b) = <<b>>
    BY <1>0, <1>4 DEF WebOf
  <2> QED  BY <1>0, <1>4, <2>1
<1>5. CASE b \notin Symbols /\ b >= 192
  <2> DEFINE x == 192 + (((b + 848) \div 64) % 32)
             y == 128 + ((b + 848) % 64)
  <2>1. x \in Nat /\ y \in Nat
    BY <1>0
  <2>2. WebOf(b) = Escaped(x, 97) \o Escaped(y, 97)
    BY <1>0, <1>5 DEF WebOf, char_win2utf8
  <2> HIDE DEF x, y
  <2>3. WebOf(b) \in Seq(Nat) /\ Len(WebOf(b)) = 6
    BY <1>2, <2>1, <2>2
  <2>4. b >= 128
    BY <1>0, <1>5
  <2> QED  BY <2>3, <2>4
<1>6. CASE b \notin Symbols /\ b >= 128 /\ b < 192
  <2>1. WebOf(b) = IF b = 168 THEN Escaped(208, 97) \o Escaped(129, 97)
                   ELSE IF b = 184 THEN Escaped(209, 97) \o Escaped(145, 97) ELSE <<>>
    BY <1>0, <1>6 DEF WebOf, char_win2utf8
  <2>3. CASE b = 168 \/ b = 184
    <3> DEFINE x == IF b = 168 THEN 208 ELSE 209
               y == IF b = 168 THEN 129 ELSE 145
    <3>1. x \in Nat /\ y \in Nat /\ WebOf(b) = Escaped(x, 97) \o Escaped(y, 97)
      BY <2>1, <2>3
    <3> HIDE DEF x, y
    <3>2. WebOf(b) \in Seq(Nat) /\ Len(WebOf(b)) = 6
      BY <1>2, <3>1
    <3> QED  BY <1>6, <3>2
  <2>4. CASE b # 168 /\ b # 184
    <3>1. WebOf(b) = <<>>
      BY <2>1, <2>4
    <3> QED  BY <1>6, <3>1
  <2> QED  BY <2>3, <2>4
<1> QED  BY <1>0, <1>3, <1>4, <1>5, <1>6

WebOut(s) == [i \in DOMAIN s |-> WebOf(s[i])]

\* ToWeb for a query, as a walk.
LEMMA WebWalks ==
  ASSUME NEW s \in Seq(Bytes)
  PROVE  /\ ToWeb(s, TRUE, FALSE) = Walk(s, WebOut(s), EachRead(s))
         /\ WebOut(s) \in [1 .. Len(s) -> Seq(Nat)]
         /\ s \in Seq(Nat)
<1>1. \A i \in 1 .. Len(s) : s[i] \in Bytes
  OBVIOUS
<1>2. \A i \in 1 .. Len(s) : WebOf(s[i]) \in Seq(Nat)
  BY <1>1, WebIsText
<1>3. WebOut(s) = [i \in DOMAIN s |-> IF s[i] >= 128 \/ s[i] \in Symbols
                                       THEN char_win2utf8(s[i], Symbols) ELSE <<s[i]>>]
  BY DEF WebOut, WebOf
<1>4. ToWeb(s, TRUE, FALSE) = Walk(s, WebOut(s), EachRead(s))
  BY <1>3 DEF ToWeb, EachRead
<1>5. WebOut(s) \in [1 .. Len(s) -> Seq(Nat)]
  BY <1>2 DEF WebOut
<1> QED  BY <1>4, <1>5, BytesAreNats

LEMMA WebFirst ==
  ASSUME NEW b \in Bytes, NEW t \in Seq(Bytes)
  PROVE  /\ ToWeb(<<b>> \o t, TRUE, FALSE) = WebOf(b) \o ToWeb(t, TRUE, FALSE)
         /\ ToWeb(t, TRUE, FALSE) \in Seq(Nat)
<1> DEFINE s == <<b>> \o t
<1>1. /\ s \in Seq(Bytes) /\ Len(s) = 1 + Len(t) /\ s[1] = b
      /\ \A i \in 1 .. Len(t) : s[1 + i] = t[i]
  BY PutBefore
<1>2. s = <<b>> \o t /\ b \in Nat /\ t \in Seq(Nat)
  BY BytesAreNats DEF Bytes
<1> HIDE DEF s
<1>3. WebOut(s)[1] = WebOf(b) /\ \A i \in 1 .. Len(t) : WebOut(s)[1 + i] = WebOut(t)[i]
  <2>1. 1 \in DOMAIN s /\ DOMAIN t = 1 .. Len(t) /\ \A i \in 1 .. Len(t) : 1 + i \in DOMAIN s
    BY <1>1
  <2> QED  BY <1>1, <2>1 DEF WebOut
<1>4. WebOut(s) \in [1 .. Len(s) -> Seq(Nat)] /\ WebOut(t) \in [1 .. Len(t) -> Seq(Nat)]
  BY <1>1, WebWalks
<1>5. OneMore(s, b, t, WebOut(s), WebOut(t))
  BY <1>2, <1>3, <1>4 DEF OneMore
<1>6. /\ Walk(s, WebOut(s), EachRead(s)) = WebOut(s)[1] \o Walk(t, WebOut(t), EachRead(t))
      /\ Walk(t, WebOut(t), EachRead(t)) \in Seq(Nat)
  BY <1>5, EachFirst
<1>7. /\ ToWeb(s, TRUE, FALSE) = Walk(s, WebOut(s), EachRead(s))
      /\ ToWeb(t, TRUE, FALSE) = Walk(t, WebOut(t), EachRead(t))
  BY <1>1, WebWalks
<1> QED  BY <1>3, <1>6, <1>7 DEF s

LEMMA WalkOfNothing ==
  Utf8Of(<<>>) = <<>> /\ ToWeb(<<>>, TRUE, FALSE) = <<>> /\ Narrow(<<>>) = <<>>
<1> DEFINE e == <<>>
           out == [i \in DOMAIN e |-> Utf8(e[i])]
<1>1. Len(e) = 0 /\ DOMAIN e = {} /\ 1 .. Len(e) = {} /\ e \in Seq(Bytes) /\ e \in Seq(Nat)
  OBVIOUS
<1>2. out \in [1 .. Len(e) -> Seq(Nat)]
  BY <1>1
<1>3. Utf8Of(e) = Walk(e, out, EachRead(e))
  BY DEF Utf8Of, EachRead
<1>4. Narrow(e) = e
  BY DEF Narrow
<1> HIDE DEF e, out
<1>5. Reads(Len(e), out, EachRead(e)) /\ Reads(Len(e), WebOut(e), EachRead(e))
  BY <1>1, <1>2, WebWalks, EachReads
<1>6. ToWeb(e, TRUE, FALSE) = Walk(e, WebOut(e), EachRead(e))
  BY <1>1, WebWalks
<1>7. Len(e) \in Nat
  BY <1>1
<1>8. Walk(e, out, EachRead(e)) = <<>> /\ Walk(e, WebOut(e), EachRead(e)) = <<>>
  BY <1>1, <1>5, <1>7, WalkIsText
<1> QED  BY <1>3, <1>4, <1>6, <1>8 DEF e

LEMMA TwoBefore ==
  ASSUME NEW a \in Nat, NEW b \in Nat, NEW t \in Seq(Nat)
  PROVE  <<a, b>> \o t = <<a>> \o (<<b>> \o t)
<1> DEFINE x == <<a, b>>
           y1 == <<b>> \o t
           y2 == <<a>> \o y1
           z == x \o t
           n == Len(t)
<1>1. x \in Seq(Nat) /\ Len(x) = 2 /\ x[1] = a /\ x[2] = b
  OBVIOUS
<1>2. /\ y1 \in Seq(Nat) /\ Len(y1) = 1 + Len(t) /\ y1[1] = b
      /\ \A k \in 2 .. 1 + Len(t) : y1[k] = t[k - 1]
  BY PutBefore
<1> HIDE DEF x, y1
<1>3. /\ y2 \in Seq(Nat) /\ Len(y2) = 1 + Len(y1) /\ y2[1] = a
      /\ \A k \in 2 .. 1 + Len(y1) : y2[k] = y1[k - 1]
  BY <1>2, PutBefore
<1> HIDE DEF y2
<1>4. /\ z \in Seq(Nat) /\ Len(z) = Len(x) + Len(t)
      /\ \A k \in 1 .. Len(x) + Len(t) : z[k] = IF k <= Len(x) THEN x[k] ELSE t[k - Len(x)]
  BY <1>1, ConcatShape
<1>5. n \in Nat /\ Len(z) = 2 + n
  BY <1>1, <1>4
<1>6. \A k \in 1 .. 2 + n : z[k] = IF k <= 2 THEN x[k] ELSE t[k - 2]
  BY <1>1, <1>4
<1>7. Len(y1) = 1 + n /\ Len(y2) = 2 + n
  BY <1>2, <1>3, <1>5
<1> HIDE DEF z, n
<1>8. ASSUME NEW k \in 1 .. 2 + n PROVE z[k] = y2[k]
  <2>1. CASE k = 1
    BY <1>1, <1>3, <1>6, <2>1
  <2>2. CASE k = 2
    <3>1. 2 \in 2 .. 1 + Len(y1) /\ 2 - 1 = 1
      BY <1>5, <1>7
    <3>2. y2[2] = b
      BY <1>2, <1>3, <3>1
    <3>3. z[2] = b
      BY <1>1, <1>5, <1>6
    <3> QED  BY <2>2, <3>2, <3>3
  <2>3. CASE k > 2
    <3>1. k \in 2 .. 1 + Len(y1) /\ k - 1 \in 2 .. 1 + Len(t) /\ (k - 1) - 1 = k - 2
      BY <1>5, <1>7, <2>3 DEF n
    <3>2. y2[k] = t[k - 2]
      BY <1>2, <1>3, <3>1
    <3> QED  BY <1>6, <2>3, <3>2
  <2>4. k = 1 \/ k = 2 \/ k > 2
    BY <1>5
  <2> QED  BY <2>1, <2>2, <2>3, <2>4
<1>9. z = y2
  BY <1>3, <1>4, <1>5, <1>7, <1>8, SameElements
<1> QED  BY <1>9 DEF x, y1, y2, z

\* A Russian letter goes out as the escapes of its two UTF-8 bytes.
AsTwoBytes(c) ==
  WebOf(char16to8(c)) = Escaped(192 + c \div 64, 97) \o Escaped(128 + (c % 64), 97)

LEMMA RussianEscapes ==
  ASSUME NEW c \in Letters, c >= 128
  PROVE  AsTwoBytes(c)
<1>1. CASE c \in 1040 .. 1103
  <2> DEFINE b == char16to8(c)
  <2>1. b = c - 848 /\ b >= 192 /\ b + 848 = c
    BY <1>1, NarrowLetter
  <2>2. b \notin Symbols
    BY <2>1 DEF Symbols
  <2>3. (c \div 64) % 32 = c \div 64
    BY <1>1
  <2> HIDE DEF b
  <2>4. WebOf(b) = Escaped(192 + (((b + 848) \div 64) % 32), 97)
                     \o Escaped(128 + ((b + 848) % 64), 97)
    <3>1. WebOf(b) = char_win2utf8(b, Symbols)
      BY <2>1 DEF WebOf
    <3>2. b # 168 /\ b # 184 /\ b \notin Symbols /\ b >= 192
      BY ONLY <2>1, <2>2, c \in 1040 .. 1103
    <3> QED  BY ONLY <3>1, <3>2 DEF char_win2utf8
  <2>5. ((b + 848) \div 64) % 32 = c \div 64 /\ (b + 848) % 64 = c % 64
    BY <2>1, <2>3
  <2> QED  BY <2>4, <2>5 DEF b, AsTwoBytes
<1>2. CASE c = 1025
  <2>1. char16to8(c) = 168 /\ 192 + c \div 64 = 208 /\ 128 + (c % 64) = 129
    BY <1>2, NarrowLetter
  <2>2. WebOf(168) = Escaped(208, 97) \o Escaped(129, 97)
    BY DEF WebOf, char_win2utf8, Symbols
  <2> QED  BY <2>1, <2>2 DEF AsTwoBytes
<1>3. CASE c = 1105
  <2>1. char16to8(c) = 184 /\ 192 + c \div 64 = 209 /\ 128 + (c % 64) = 145
    BY <1>3, NarrowLetter
  <2>2. WebOf(184) = Escaped(209, 97) \o Escaped(145, 97)
    BY DEF WebOf, char_win2utf8, Symbols
  <2> QED  BY <2>1, <2>2 DEF AsTwoBytes
<1>4. c \in 1040 .. 1103 \/ c = 1025 \/ c = 1105
  BY DEF Letters
<1> QED  BY <1>1, <1>2, <1>3, <1>4

\* What the server reads from the escapes of a letter is the letter.
LEMMA LetterArrives ==
  ASSUME NEW c \in Letters, NEW t \in Seq(Nat)
  PROVE  URL_unescape(WebOf(char16to8(c)) \o t) = Utf8(c) \o URL_unescape(t)
<1> DEFINE b == char16to8(c)
<1>0. c \in Nat /\ 97 \in HexLetters
  BY Utf8Shape DEF HexLetters
<1>1. CASE c < 128
  <2>1. b = c /\ c \in Bytes /\ Utf8(c) = <<c>>
    BY <1>1, NarrowLetter, Utf8Shape
  <2> HIDE DEF b
  <2>2. CASE c \in Symbols
    <3>1. WebOf(b) = Escaped(c, 97)
      BY <2>1, <2>2 DEF WebOf, char_win2utf8
    <3>2. URL_unescape(Escaped(c, 97) \o t) = <<c>> \o URL_unescape(t)
      BY <1>0, <2>1, EscapedFirst
    <3> QED  BY <2>1, <3>1, <3>2 DEF b
  <2>3. CASE c \notin Symbols
    <3> DEFINE s == <<c>> \o t
    <3>1. WebOf(b) = <<c>>
      BY <1>0, <1>1, <2>1, <2>3 DEF WebOf
    <3>2. c # Percent
      BY <2>3 DEF Symbols, Percent
    <3>3. s[1] = c /\ s = <<c>> \o t
      BY <1>0, PutBefore
    <3> HIDE DEF s
    <3>4. ~Decoded(s, 1)
      BY <3>2, <3>3 DEF Decoded, IsEscape
    <3>5. URL_unescape(s) = <<c>> \o URL_unescape(t)
      BY <1>0, <3>3, <3>4, UnescapeFirst
    <3> QED  BY <2>1, <3>1, <3>3, <3>5 DEF b
  <2> QED  BY <2>2, <2>3
<1>2. CASE c >= 128
  <2> DEFINE x == 192 + c \div 64
             y == 128 + (c % 64)
  <2>1. Utf8(c) = <<x, y>> /\ x \in 208 .. 209 /\ y \in 128 .. 191
    BY <1>2, Utf8Shape
  <2>2. WebOf(b) = Escaped(x, 97) \o Escaped(y, 97)
    BY <1>2, RussianEscapes DEF AsTwoBytes
  <2> HIDE DEF x, y, b
  <2>3. x \in Bytes /\ y \in Bytes /\ x \in Nat /\ y \in Nat
    BY <2>1 DEF Bytes
  <2> DEFINE p == Escaped(x, 97)
             q == Escaped(y, 97)
             u == URL_unescape(t)
  <2>4. p \in Seq(Nat) /\ q \in Seq(Nat)
    <3>1. 97 \in Nat /\ 97 > 10
      OBVIOUS
    <3> QED  BY <2>3, <3>1, EscapedIsText
  <2>5. u \in Seq(Nat)
    BY ReencodeIsText
  <2>6. URL_unescape(q \o t) = <<y>> \o u
    BY <1>0, <2>3, EscapedFirst
  <2> DEFINE w == q \o t
  <2>7. w \in Seq(Nat)
    BY <2>4, ConcatRegroups
  <2> HIDE DEF w
  <2>8. URL_unescape(p \o w) = <<x>> \o URL_unescape(w)
    BY <1>0, <2>3, <2>7, EscapedFirst
  <2> HIDE DEF p, q, u
  <2>9. (p \o q) \o t = p \o (q \o t)
    BY <2>4
  <2>10. <<x>> \o (<<y>> \o u) = <<x, y>> \o u
    BY <2>3, <2>5, TwoBefore
  <2>11. URL_unescape(WebOf(b) \o t) = <<x, y>> \o u
    BY <2>2, <2>6, <2>8, <2>9, <2>10 DEF p, q, w
  <2> QED  BY <2>1, <2>11 DEF b, u
<1> QED  BY <1>0, <1>1, <1>2

\* What the server reads from a query is what the user typed.
Arrives(s) == URL_unescape(ToWeb(Narrow(s), TRUE, FALSE)) = Utf8Of(s)

LEMMA TextArrives ==
  ASSUME NEW s \in Seq(Letters)
  PROVE  Arrives(s)
<1> DEFINE K == {n \in Nat : \A x \in Seq(Letters) : Len(x) <= n => Arrives(x)}
<1>1. 0 \in K
  <2>1. Arrives(<<>>)
    BY WalkOfNothing, ReencodeEmpty DEF Arrives
  <2>2. \A x \in Seq(Letters) : Len(x) <= 0 => x = <<>>
    OBVIOUS
  <2> QED  BY <2>1, <2>2
<1>2. ASSUME NEW n \in Nat, n \in K PROVE n + 1 \in K
  <2> SUFFICES ASSUME NEW x \in Seq(Letters), Len(x) <= n + 1 PROVE Arrives(x)
    OBVIOUS
  <2>1. \A y \in Seq(Letters) : Len(y) <= n => Arrives(y)
    BY <1>2
  <2> HIDE DEF K
  <2>2. CASE Len(x) = 0
    <3>1. Len(x) <= n
      BY <2>2
    <3> QED  BY <2>1, <3>1
  <2>3. CASE Len(x) > 0
    <3>1. PICK c \in Letters : \E t \in Seq(Letters) : x = <<c>> \o t /\ Len(t) = Len(x) - 1
      BY <2>3, FirstAndRest
    <3>2. PICK t \in Seq(Letters) : x = <<c>> \o t /\ Len(t) = Len(x) - 1
      BY <3>1
    <3>3. Arrives(t)
      <4>1. Len(t) <= n
        BY <3>2
      <4> QED  BY <2>1, <4>1
    <3> DEFINE b == char16to8(c)
               m == Narrow(t)
               w == ToWeb(m, TRUE, FALSE)
    <3>a. Narrow(<<c>> \o t) = <<b>> \o m /\ m \in Seq(Bytes)
      BY NarrowFirst
    <3>b. b \in Bytes
      BY NarrowLetter
    <3>4. Narrow(x) = <<b>> \o m /\ m \in Seq(Bytes) /\ b \in Bytes
      BY <3>2, <3>a, <3>b
    <3> HIDE DEF m, b
    <3>5. ToWeb(Narrow(x), TRUE, FALSE) = WebOf(b) \o w /\ w \in Seq(Nat)
      BY <3>4, WebFirst
    <3>6. URL_unescape(w) = Utf8Of(t)
      BY <3>3 DEF m, Arrives
    <3> HIDE DEF w
    <3>7. URL_unescape(WebOf(b) \o w) = Utf8(c) \o URL_unescape(w)
      BY <3>5, LetterArrives DEF b
    <3>8. Utf8Of(x) = Utf8(c) \o Utf8Of(t)
      BY <3>2, Utf8First
    <3> QED  BY <3>5, <3>6, <3>7, <3>8 DEF Arrives
  <2> QED  BY <2>2, <2>3
<1>3. Len(s) \in K
  <2>1. Len(s) \in Nat
    OBVIOUS
  <2>2. \A n \in Nat : n \in K => n + 1 \in K
    BY <1>2
  <2> HIDE DEF K
  <2> QED  BY <1>1, <2>1, <2>2, Induction
<1>4. Len(s) <= Len(s)
  OBVIOUS
<1> QED  BY <1>3, <1>4

-----------------------------------------------------------------------------
\* How many times three bytes ToWeb counts for a character.
Weight(c) == IF c >= 128 THEN 2 ELSE IF c \in Symbols THEN 1 ELSE 0

\* The count goes through the text: r[k] is what it is after k characters.
LEMMA WeightsInTurn ==
  ASSUME NEW s \in Seq(Bytes), NEW n \in Nat, n = Len(s)
  PROVE  \E r : /\ r[0] = 0 /\ \A k \in 0 .. n : r[k] \in Nat
                /\ \A k \in 1 .. n : r[k] = r[k - 1] + Weight(s[k])
                /\ Allocated(s, TRUE, FALSE) = n + 3 * r[n]
<1> DEFINE op == [p \in Nat \X (1 .. n) |-> p[1] + Weight(s[p[2]])]
<1>1. \A c : Weight(c) \in Nat
  BY DEF Weight
<1>2. op \in [Nat \X (1 .. n) -> Nat]
  BY <1>1
<1>4. PICK F0 \in [SUBSET (1 .. n) -> Nat] : IsFold(F0, 0, op, n)
  <2> HIDE DEF op
  <2>1. 0 \in Nat
    OBVIOUS
  <2> QED  BY <1>2, <2>1, FoldIsDefined
<1> DEFINE Is(F) == F = [T \in SUBSET DOMAIN s |->
                           IF T = {} THEN 0 ELSE F[T \ {Max(T)}] + Weight(s[Max(T)])]
           G == CHOOSE F : Is(F)
<1>5. DOMAIN s = 1 .. n
  OBVIOUS
<1>6. Is(F0)
  <2>1. ASSUME NEW T \in SUBSET (1 .. n), T # {}
        PROVE  op[<<F0[T \ {Max(T)}], Max(T)>>] = F0[T \ {Max(T)}] + Weight(s[Max(T)])
    <3>1. Max(T) \in T
      BY <2>1, MaxOfRange
    <3>2. T \ {Max(T)} \in SUBSET (1 .. n) /\ Max(T) \in 1 .. n
      BY <3>1
    <3>3. F0[T \ {Max(T)}] \in Nat
      BY <1>4, <3>2
    <3> QED  BY <3>2, <3>3
  <2> HIDE DEF op
  <2>2. ASSUME NEW T \in SUBSET (1 .. n)
        PROVE  (IF T = {} THEN 0 ELSE op[<<F0[T \ {Max(T)}], Max(T)>>])
               = IF T = {} THEN 0 ELSE F0[T \ {Max(T)}] + Weight(s[Max(T)])
    BY <2>1
  <2> QED  BY <1>4, <1>5, <2>2 DEF IsFold
<1>7. Is(G)
  <2> HIDE DEF Is
  <2> QED  BY <1>6
<1>8. Allocated(s, TRUE, FALSE) = n + 3 * G[DOMAIN s]
  BY DEF Allocated, FoldLeft, MapThenFoldSet, Weight
<1> HIDE DEF G
<1>9. G[{}] = 0
  BY <1>5, <1>7
<1>10. ASSUME NEW k \in 1 .. n PROVE G[1 .. k] = G[1 .. k - 1] + Weight(s[k])
  <2>1. /\ 1 .. k \in SUBSET (1 .. n) /\ 1 .. k # {}
        /\ Max(1 .. k) = k /\ (1 .. k) \ {Max(1 .. k)} = 1 .. k - 1
    BY FoldInOrder
  <2>2. G[1 .. k] = G[(1 .. k) \ {Max(1 .. k)}] + Weight(s[Max(1 .. k)])
    BY <1>5, <1>7, <2>1
  <2> QED  BY <2>1, <2>2
<1> HIDE DEF Is
<1> DEFINE r == [k \in 0 .. n |-> G[1 .. k]]
<1>11. r[0] = 0
  <2>1. 0 \in 0 .. n /\ 1 .. 0 = {}
    OBVIOUS
  <2> QED  BY <1>9, <2>1
<1>12. ASSUME NEW k \in 1 .. n PROVE r[k] = r[k - 1] + Weight(s[k])
  <2>1. k \in 0 .. n /\ k - 1 \in 0 .. n
    OBVIOUS
  <2> QED  BY <1>10, <2>1
<1>13. Allocated(s, TRUE, FALSE) = n + 3 * r[n]
  <2>1. n \in 0 .. n
    OBVIOUS
  <2> QED  BY <1>5, <1>8, <2>1
<1> HIDE DEF r
<1> DEFINE K == {k \in Nat : k <= n => r[k] \in Nat}
<1>14. 0 \in K
  BY <1>11
<1>15. ASSUME NEW k \in Nat, k \in K PROVE k + 1 \in K
  <2> SUFFICES ASSUME k + 1 <= n PROVE r[k + 1] \in Nat
    OBVIOUS
  <2>1. k <= n /\ k + 1 \in 1 .. n /\ (k + 1) - 1 = k
    OBVIOUS
  <2>2. r[k + 1] = r[(k + 1) - 1] + Weight(s[k + 1])
    BY <1>12, <2>1
  <2>3. r[k] \in Nat
    BY <1>15, <2>1
  <2>4. Weight(s[k + 1]) \in Nat
    BY <1>1
  <2> QED  BY <2>1, <2>2, <2>3, <2>4
<1>16. \A k \in 0 .. n : r[k] \in Nat
  <2>1. \A k \in Nat : k \in K
    <3> HIDE DEF K
    <3> QED  BY <1>14, <1>15, Induction
  <2> QED  BY <2>1
<1> QED  BY <1>11, <1>12, <1>13, <1>16

\* The escapes ToWeb writes fit the bytes it has counted for them.
LEMMA EscapesFit ==
  ASSUME NEW s \in Seq(Bytes)
  PROVE  Len(ToWeb(s, TRUE, FALSE)) <= Allocated(s, TRUE, FALSE)
<1> DEFINE n == Len(s)
           out == WebOut(s)
           read == EachRead(s)
<1>1. n \in Nat /\ n = Len(s)
  OBVIOUS
<1>2. Reads(n, out, read) /\ ToWeb(s, TRUE, FALSE) = Walk(s, out, read) /\ s \in Seq(Nat)
  BY WebWalks, EachReads
<1>3. \A i \in 1 .. n : read[i] = 1 /\ out[i] = WebOf(s[i]) /\ s[i] \in Bytes
  BY DEF EachRead, WebOut
<1> HIDE DEF n, out, read
<1>4. PICK f : WalkFrom(f, 1, n, out, read) /\ Walk(s, out, read) = f[1]
  BY ONLY <1>1, <1>2, WalkValues
<1>5. PICK r : /\ r[0] = 0 /\ \A k \in 0 .. n : r[k] \in Nat
               /\ \A k \in 1 .. n : r[k] = r[k - 1] + Weight(s[k])
               /\ Allocated(s, TRUE, FALSE) = n + 3 * r[n]
  BY <1>1, WeightsInTurn
<1>6. /\ f \in [1 .. n + 4 -> Seq(Nat)] /\ \A i \in n + 1 .. n + 4 : f[i] = <<>>
      /\ \A i \in 1 .. n : f[i] = out[i] \o f[i + read[i]]
  BY <1>4 DEF WalkFrom
<1> DEFINE K == {m \in Nat : m <= n => Len(f[n + 1 - m]) <= m + 3 * (r[n] - r[n - m])}
<1>7. 0 \in K
  <2>1. n + 1 - 0 \in n + 1 .. n + 4 /\ n - 0 = n /\ n \in 0 .. n
    BY <1>1
  <2>2. Len(f[n + 1 - 0]) = 0
    BY <1>6, <2>1
  <2>3. r[n] \in Nat
    BY <1>5, <2>1
  <2>4. Len(f[n + 1 - 0]) <= 0 + 3 * (r[n] - r[n - 0])
    BY <2>1, <2>2, <2>3
  <2> QED  BY <2>4
<1>8. ASSUME NEW m \in Nat, m \in K PROVE m + 1 \in K
  <2> SUFFICES ASSUME m + 1 <= n
               PROVE  Len(f[n + 1 - (m + 1)]) <= (m + 1) + 3 * (r[n] - r[n - (m + 1)])
    OBVIOUS
  <2> DEFINE i == n - m
  <2>1. /\ i \in 1 .. n /\ n + 1 - (m + 1) = i /\ n - (m + 1) = i - 1 /\ n + 1 - m = i + 1
        /\ m <= n /\ i \in 0 .. n /\ i - 1 \in 0 .. n /\ n \in 0 .. n /\ i + 1 \in 1 .. n + 4
    BY <1>1
  <2>2. Len(f[i + 1]) <= m + 3 * (r[n] - r[i])
    BY <1>8, <2>1
  <2> HIDE DEF i, K
  <2> DEFINE w == WebOf(s[i])
  <2>3. f[i] = w \o f[i + 1] /\ s[i] \in Bytes
    BY <1>3, <1>6, <2>1
  <2>4. w \in Seq(Nat) /\ Len(w) <= IF s[i] >= 128 THEN 7 ELSE IF s[i] \in Symbols THEN 4 ELSE 1
    BY <2>3, WebIsText
  <2> HIDE DEF w
  <2>5. Len(w) <= 1 + 3 * Weight(s[i]) /\ Weight(s[i]) \in Nat /\ Len(w) \in Nat
    BY <2>4 DEF Weight
  <2>6. f[i + 1] \in Seq(Nat)
    BY <1>6, <2>1
  <2>7. Len(f[i]) = Len(w) + Len(f[i + 1]) /\ Len(f[i + 1]) \in Nat
    BY <2>3, <2>4, <2>6, ConcatProperties
  <2>8. r[i] = r[i - 1] + Weight(s[i]) /\ r[i] \in Nat /\ r[i - 1] \in Nat /\ r[n] \in Nat
    BY <1>5, <2>1
  <2>9. Len(f[i]) <= (m + 1) + 3 * (r[n] - r[i - 1])
    <3> DEFINE a == Len(w)  b == Len(f[i + 1])  c == Weight(s[i])  d == r[i - 1]  e == r[n]
    <3>1. a \in Nat /\ b \in Nat /\ c \in Nat /\ d \in Nat /\ e \in Nat
          /\ a <= 1 + 3 * c /\ b <= m + 3 * (e - (d + c))
      BY <2>2, <2>5, <2>7, <2>8
    <3> HIDE DEF a, b, c, d, e
    <3>2. a + b <= (m + 1) + 3 * (e - d)
      BY <3>1
    <3> QED  BY <2>7, <3>2 DEF a, b, d, e
  <2> QED  BY <2>1, <2>9
<1>9. n \in K
  <2> HIDE DEF K
  <2> QED  BY <1>1, <1>7, <1>8, Induction
<1>10. Len(f[1]) <= n + 3 * (r[n] - r[0])
  <2>1. n <= n /\ n + 1 - n = 1 /\ n - n = 0
    BY <1>1
  <2> QED  BY <1>9, <2>1
<1>11. r[n] - r[0] = r[n]
  <2>1. n \in 0 .. n
    BY <1>1
  <2> QED  BY <1>5, <2>1
<1> QED  BY <1>2, <1>4, <1>5, <1>10, <1>11

-----------------------------------------------------------------------------
(***************************************************************************)
(* A title in UTF-8, shown.                                                *)
(***************************************************************************)

WinNext(s, i) == IF i < Len(s) THEN s[i + 1] ELSE 0
Dash(s, i) == s[i] = 226 /\ WinNext(s, i) = 128 /\ i + 2 <= Len(s) /\ s[i + 2] = 148

\* The places of utf82win.
WinOut(s) == [i \in DOMAIN s |->
                IF s[i] = 208 THEN <<IF WinNext(s, i) # 129 THEN (WinNext(s, i) + 48) % 256 ELSE 129>>
                ELSE IF s[i] = 209 THEN <<IF WinNext(s, i) # 145 THEN (WinNext(s, i) + 112) % 256 ELSE 145>>
                ELSE IF Dash(s, i) THEN <<45>>
                ELSE IF s[i] < 128 THEN <<s[i]>> ELSE <<>>]
WinRead(s) == [i \in DOMAIN s |->
                IF s[i] < 192 THEN 1 ELSE IF s[i] < 224 THEN 2
                ELSE IF s[i] < 240 THEN 3 ELSE 4]

LEMMA WinReads ==
  ASSUME NEW s \in Seq(Nat)
  PROVE  /\ Reads(Len(s), WinOut(s), WinRead(s))
         /\ utf82win(s) = Walk(s, WinOut(s), WinRead(s))
<1>1. utf82win(s) = Walk(s, WinOut(s), WinRead(s))
  BY DEF utf82win, WinOut, WinRead, WinNext, Dash
<1>2. ASSUME NEW i \in 1 .. Len(s) PROVE WinNext(s, i) \in Nat /\ s[i] \in Nat
  BY DEF WinNext
<1>3. \A v \in Nat : (v + 48) % 256 \in Nat /\ (v + 112) % 256 \in Nat
  OBVIOUS
<1>4. ASSUME NEW i \in 1 .. Len(s) PROVE WinOut(s)[i] \in Seq(Nat)
  <2> DEFINE v == WinNext(s, i)
             a == IF v # 129 THEN (v + 48) % 256 ELSE 129
             b == IF v # 145 THEN (v + 112) % 256 ELSE 145
             d == s[i]
  <2>1. v \in Nat /\ d \in Nat /\ i \in DOMAIN s
    BY <1>2
  <2>2. a \in Nat /\ b \in Nat
    BY <1>3, <2>1
  <2>3. WinOut(s)[i] = IF d = 208 THEN <<a>> ELSE IF d = 209 THEN <<b>>
                       ELSE IF Dash(s, i) THEN <<45>> ELSE IF d < 128 THEN <<d>> ELSE <<>>
    BY <2>1 DEF WinOut
  <2> HIDE DEF a, b, d, v
  <2>4. <<a>> \in Seq(Nat) /\ <<b>> \in Seq(Nat) /\ <<d>> \in Seq(Nat)
        /\ <<45>> \in Seq(Nat) /\ <<>> \in Seq(Nat)
    BY <2>1, <2>2
  <2> QED  BY <2>3, <2>4
<1>5. WinOut(s) \in [1 .. Len(s) -> Seq(Nat)]
  <2>1. WinOut(s) = [i \in 1 .. Len(s) |-> WinOut(s)[i]]
    BY DEF WinOut
  <2> QED  BY <1>4, <2>1
<1>6. WinRead(s) \in [1 .. Len(s) -> 1 .. 4]
  BY DEF WinRead
<1> QED  BY <1>1, <1>5, <1>6 DEF Reads

LEMMA WinBehind ==
  ASSUME NEW t \in Seq(Nat), NEW s \in Seq(Nat), NEW r \in 1 .. 4, Len(s) = r + Len(t),
         \A i \in 1 .. Len(t) : s[r + i] = t[i], WinRead(s)[1] = r
  PROVE  utf82win(s) = WinOut(s)[1] \o utf82win(t)
<1>1. ASSUME NEW i \in 1 .. Len(t)
      PROVE  WinOut(s)[r + i] = WinOut(t)[i] /\ WinRead(s)[r + i] = WinRead(t)[i]
  <2>1. r + i \in DOMAIN s /\ i \in DOMAIN t /\ s[r + i] = t[i]
    OBVIOUS
  <2>2. WinNext(s, r + i) = WinNext(t, i)
    <3>1. (r + i < Len(s) <=> i < Len(t)) /\ (r + i) + 1 = r + (i + 1)
      OBVIOUS
    <3>2. CASE i < Len(t)
      <4>1. i + 1 \in 1 .. Len(t)
        BY <3>2
      <4>2. s[r + (i + 1)] = t[i + 1]
        BY <4>1
      <4> QED  BY <3>1, <3>2, <4>2 DEF WinNext
    <3>3. CASE ~(i < Len(t))
      BY <3>1, <3>3 DEF WinNext
    <3> QED  BY <3>2, <3>3
  <2>3. Dash(s, r + i) <=> Dash(t, i)
    <3>1. (r + i + 2 <= Len(s) <=> i + 2 <= Len(t)) /\ (r + i) + 2 = r + (i + 2)
      OBVIOUS
    <3>2. CASE i + 2 <= Len(t)
      <4>1. i + 2 \in 1 .. Len(t)
        BY <3>2
      <4>2. s[r + (i + 2)] = t[i + 2]
        BY <4>1
      <4> DEFINE k == r + i
      <4>3. s[k] = t[i] /\ WinNext(s, k) = WinNext(t, i) /\ s[k + 2] = t[i + 2] /\ k + 2 <= Len(s)
        BY <2>1, <2>2, <3>1, <3>2, <4>2
      <4> HIDE DEF k
      <4>4. Dash(s, k) <=> Dash(t, i)
        BY <3>2, <4>3 DEF Dash
      <4> QED  BY <4>4 DEF k
    <3>3. CASE ~(i + 2 <= Len(t))
      BY <3>1, <3>3 DEF Dash
    <3> QED  BY <3>2, <3>3
  <2> DEFINE k == r + i
  <2>4. /\ k \in DOMAIN s /\ i \in DOMAIN t /\ s[k] = t[i] /\ WinNext(s, k) = WinNext(t, i)
        /\ Dash(s, k) <=> Dash(t, i)
    BY <2>1, <2>2, <2>3
  <2> HIDE DEF k
  <2>5. WinOut(s)[k] = WinOut(t)[i]
    BY <2>4 DEF WinOut
  <2>6. WinRead(s)[k] = WinRead(t)[i]
    BY <2>4 DEF WinRead
  <2> QED  BY <2>5, <2>6 DEF k
<1>2. Continues(Len(s), Len(t), r, WinOut(s), WinRead(s), WinOut(t), WinRead(t))
  BY <1>1, WinReads DEF Continues
<1>3. Len(t) \in Nat /\ r \in 1 .. 4
  OBVIOUS
<1>4. Walk(s, WinOut(s), WinRead(s)) = WinOut(s)[1] \o Walk(t, WinOut(t), WinRead(t))
  BY ONLY <1>2, <1>3, WalkOn
<1> QED  BY <1>4, WinReads

LEMMA WinOfNothing ==
  utf82win(<<>>) = <<>>
<1> DEFINE e == <<>>
<1>1. Len(e) = 0 /\ e \in Seq(Nat)
  OBVIOUS
<1> HIDE DEF e
<1>a. Len(e) \in Nat
  BY <1>1
<1>2. /\ Reads(Len(e), WinOut(e), WinRead(e))
      /\ utf82win(e) = Walk(e, WinOut(e), WinRead(e))
  BY ONLY <1>1, WinReads
<1>3. Walk(e, WinOut(e), WinRead(e)) = <<>>
  BY <1>1, <1>2, <1>a, WalkIsText
<1> QED  BY <1>2, <1>3 DEF e

PlainLetters == (1 .. 127) \cup (1040 .. 1103)

LEMMA LetterShown ==
  ASSUME NEW c \in PlainLetters, NEW t \in Seq(Nat)
  PROVE  utf82win(Utf8(c) \o t) = <<char16to8(c)>> \o utf82win(t)
<1>0. c \in Letters /\ c \in Nat
  BY DEF PlainLetters, Letters
<1> DEFINE s == Utf8(c) \o t
<1>1. CASE c < 128
  <2>1. Utf8(c) = <<c>> /\ char16to8(c) = c
    BY <1>0, <1>1, Utf8Shape, NarrowLetter
  <2>2. /\ s \in Seq(Nat) /\ Len(s) = 1 + Len(t) /\ s[1] = c
        /\ \A i \in 1 .. Len(t) : s[1 + i] = t[i]
    BY <1>0, <2>1, PutBefore
  <2> HIDE DEF s
  <2>3. WinRead(s)[1] = 1 /\ WinOut(s)[1] = <<c>>
    <3>1. 1 \in DOMAIN s /\ s[1] = c /\ c # 208 /\ c # 209 /\ c # 226 /\ c < 192
      BY <1>0, <1>1, <2>2
    <3> QED  BY <1>1, <3>1 DEF WinRead, WinOut, Dash
  <2>4. 1 \in 1 .. 4
    OBVIOUS
  <2>5. utf82win(s) = WinOut(s)[1] \o utf82win(t)
    BY <2>2, <2>3, <2>4, WinBehind
  <2> QED  BY <2>1, <2>3, <2>5 DEF s
<1>2. CASE c >= 128
  <2> DEFINE x == 192 + c \div 64
             y == 128 + (c % 64)
             p == <<x, y>>
  <2>1. Utf8(c) = p /\ x \in 208 .. 209 /\ y \in 128 .. 191
    BY <1>0, <1>2, Utf8Shape
  <2>2. c \in 1040 .. 1103 /\ char16to8(c) = c - 848
    BY <1>0, <1>2, NarrowLetter DEF PlainLetters
  <2>3. /\ x = 208 => y # 129 /\ (y + 48) % 256 = c - 848
        /\ x = 209 => y # 145 /\ (y + 112) % 256 = c - 848
    BY <2>2
  <2> HIDE DEF x, y
  <2>4. p \in Seq(Nat) /\ Len(p) = 2 /\ p[1] = x /\ p[2] = y
    BY <2>1
  <2> HIDE DEF p
  <2>5. s = p \o t
    BY <2>1
  <2>a. Len(t) \in Nat
    OBVIOUS
  <2> HIDE DEF s
  <2>6. /\ s \in Seq(Nat) /\ Len(s) = Len(p) + Len(t)
        /\ \A k \in 1 .. Len(p) + Len(t) : s[k] = IF k <= Len(p) THEN p[k] ELSE t[k - Len(p)]
    BY <2>4, <2>5, ConcatShape
  <2>7. Len(s) = 2 + Len(t) /\ s[1] = x /\ s[2] = y
    BY <2>4, <2>6, <2>a
  <2>8. ASSUME NEW i \in 1 .. Len(t) PROVE s[2 + i] = t[i]
    <3> DEFINE k == 2 + i
    <3>1. k \in 1 .. Len(p) + Len(t) /\ ~(k <= Len(p)) /\ k - Len(p) = i
      BY <2>4, <2>a
    <3> HIDE DEF k
    <3>2. s[k] = t[i]
      BY <2>6, <3>1
    <3> QED  BY <3>2 DEF k
  <2>9. WinNext(s, 1) = y
    <3>1. 1 < Len(s) /\ 1 + 1 = 2
      BY <2>7, <2>a
    <3> QED  BY <2>7, <3>1 DEF WinNext
  <2>10. WinRead(s)[1] = 2 /\ WinOut(s)[1] = <<c - 848>>
    <3>1. 1 \in DOMAIN s /\ (x = 208 \/ x = 209)
      BY <2>1, <2>6, <2>7, <2>a
    <3> DEFINE v == WinNext(s, 1)
    <3>2. WinOut(s)[1] = IF x = 208 THEN <<IF v # 129 THEN (v + 48) % 256 ELSE 129>>
                         ELSE <<IF v # 145 THEN (v + 112) % 256 ELSE 145>>
      BY <2>7, <3>1 DEF WinOut
    <3>3. WinRead(s)[1] = 2
      BY <2>7, <3>1 DEF WinRead
    <3> QED  BY <2>3, <2>9, <3>1, <3>2, <3>3
  <2>11. 2 \in 1 .. 4
    OBVIOUS
  <2>12. utf82win(s) = WinOut(s)[1] \o utf82win(t)
    BY <2>6, <2>7, <2>8, <2>10, <2>11, WinBehind
  <2> QED  BY <2>2, <2>10, <2>12 DEF s
<1> QED  BY <1>0, <1>1, <1>2

\* A title in plain letters comes out in their 8-bit forms.
TitleIs(s) == utf82win(Utf8Of(s)) = Narrow(s)

LEMMA PlainAreLetters ==
  ASSUME NEW t \in Seq(PlainLetters)
  PROVE  t \in Seq(Letters)
<1>1. t \in [1 .. Len(t) -> PlainLetters] /\ Len(t) \in Nat
  OBVIOUS
<1>2. PlainLetters \subseteq Letters
  BY DEF PlainLetters, Letters
<1>3. t \in [1 .. Len(t) -> Letters]
  BY <1>1, <1>2
<1> QED  BY <1>1, <1>3

LEMMA TitleShown ==
  ASSUME NEW s \in Seq(PlainLetters)
  PROVE  TitleIs(s)
<1> DEFINE K == {n \in Nat : \A x \in Seq(PlainLetters) : Len(x) <= n => TitleIs(x)}
<1>1. 0 \in K
  <2>1. TitleIs(<<>>)
    BY WalkOfNothing, WinOfNothing DEF TitleIs
  <2>2. \A x \in Seq(PlainLetters) : Len(x) <= 0 => x = <<>>
    OBVIOUS
  <2> QED  BY <2>1, <2>2
<1>2. ASSUME NEW n \in Nat, n \in K PROVE n + 1 \in K
  <2> SUFFICES ASSUME NEW x \in Seq(PlainLetters), Len(x) <= n + 1 PROVE TitleIs(x)
    OBVIOUS
  <2>1. \A y \in Seq(PlainLetters) : Len(y) <= n => TitleIs(y)
    BY <1>2
  <2> HIDE DEF K
  <2>2. CASE Len(x) = 0
    <3>1. Len(x) <= n
      BY <2>2
    <3> QED  BY <2>1, <3>1
  <2>3. CASE Len(x) > 0
    <3>1. PICK c \in PlainLetters : \E t \in Seq(PlainLetters) : x = <<c>> \o t /\ Len(t) = Len(x) - 1
      BY <2>3, FirstAndRest
    <3>2. PICK t \in Seq(PlainLetters) : x = <<c>> \o t /\ Len(t) = Len(x) - 1
      BY <3>1
    <3>3. TitleIs(t)
      <4>1. Len(t) <= n
        BY <3>2
      <4> QED  BY <2>1, <4>1
    <3>4. c \in Letters /\ t \in Seq(Letters)
      BY PlainAreLetters DEF PlainLetters, Letters
    <3> DEFINE u == Utf8Of(t)
    <3>5. Utf8Of(<<c>> \o t) = Utf8(c) \o u /\ u \in Seq(Nat)
      BY <3>4, Utf8First
    <3>6. Narrow(<<c>> \o t) = <<char16to8(c)>> \o Narrow(t)
      BY <3>4, NarrowFirst
    <3>7. utf82win(u) = Narrow(t)
      BY <3>3 DEF TitleIs
    <3> HIDE DEF u
    <3>8. utf82win(Utf8(c) \o u) = <<char16to8(c)>> \o utf82win(u)
      BY <3>5, LetterShown
    <3> QED  BY <3>2, <3>5, <3>6, <3>7, <3>8 DEF TitleIs
  <2> QED  BY <2>2, <2>3
<1>3. Len(s) \in K
  <2>1. Len(s) \in Nat
    OBVIOUS
  <2>2. \A n \in Nat : n \in K => n + 1 \in K
    BY <1>2
  <2> HIDE DEF K
  <2> QED  BY <1>1, <2>1, <2>2, Induction
<1>4. Len(s) <= Len(s)
  OBVIOUS
<1> QED  BY <1>3, <1>4

\* The text the user types grows by letters.
TypedInv == typed \in Seq(Letters)

LEMMA TypedIsText ==
  MCSpec => []TypedInv
<1>1. MCInit => TypedInv
  BY DEF MCInit, TypedInv
<1>2. TypedInv /\ [MCNext]_<<chosen, vars, historyVars, textVars>> => TypedInv'
  <2> SUFFICES ASSUME TypedInv, [MCNext]_<<chosen, vars, historyVars, textVars>>
               PROVE  TypedInv'
    OBVIOUS
  <2>1. CASE typed' = typed
    BY <2>1 DEF TypedInv
  <2>2. CASE GrowText(typed, TypedChars)
    <3>1. TypedChars \subseteq Letters
      BY CharsAssumption DEF Letters
    <3>2. PICK c \in TypedChars : typed' = Append(typed, c)
      BY <2>2 DEF GrowText
    <3> QED  BY <3>1, <3>2 DEF TypedInv
  <2>3. typed' = typed \/ GrowText(typed, TypedChars)
    <3>1. CASE MCNext
      BY <3>1 DEF MCNext, textVars
    <3>2. CASE UNCHANGED <<chosen, vars, historyVars, textVars>>
      BY <3>2 DEF textVars
    <3> QED  BY <3>1, <3>2
  <2> QED  BY <2>1, <2>2, <2>3
<1> QED  BY <1>1, <1>2, PTL DEF MCSpec

\* However long a text of Latin characters and Russian letters is, its escapes
\* decode to its UTF-8 form and fit the memory ToWeb counted for them, and a title
\* in the same letters is shown as the server sent it (ToWeb, string_works.c:302-330;
\* utf82win, string_works.c:206-239).
THEOREM TextsArrive ==
  MCSpec => []TypedArrives
<1>1. TypedInv => TypedArrives
  <2> SUFFICES ASSUME TypedInv PROVE TypedArrives
    OBVIOUS
  <2> DEFINE n == Narrow(typed)
             web == ToWeb(n, TRUE, FALSE)
             title == utf82win(Utf8Of(typed))
             shown == [i \in DOMAIN title |-> char8to16(title[i])]
  <2>1. typed \in Seq(Letters) /\ n \in Seq(Bytes)
    <3>1. typed \in Seq(Letters)
      BY DEF TypedInv
    <3>2. 1 \in Letters
      BY DEF Letters
    <3> QED  BY <3>1, <3>2, NarrowFirst
  <2>2. URL_unescape(web) = Utf8Of(typed)
    BY <2>1, TextArrives DEF Arrives
  <2>3. Len(web) <= Allocated(n, TRUE, FALSE)
    BY <2>1, EscapesFit
  <2>4. ASSUME \A i \in DOMAIN typed : typed[i] \notin {1025, 1105}
        PROVE  shown = typed
    <3>1. \A i \in 1 .. Len(typed) : typed[i] \in PlainLetters
      <4>1. \A i \in 1 .. Len(typed) : typed[i] \in Letters /\ typed[i] \notin {1025, 1105}
        BY <2>1, <2>4
      <4>2. \A c \in Letters : c \notin {1025, 1105} => c \in PlainLetters
        BY DEF Letters, PlainLetters
      <4> QED  BY <4>1, <4>2
    <3>2. typed \in Seq(PlainLetters)
      BY <2>1, <3>1
    <3>3. title = Narrow(typed)
      BY <3>2, TitleShown DEF TitleIs
    <3>4. \A c \in PlainLetters : char8to16(char16to8(c)) = c
      <4> SUFFICES ASSUME NEW c \in PlainLetters PROVE char8to16(char16to8(c)) = c
        OBVIOUS
      <4>1. CASE c < 128
        <5>1. char16to8(c) = c
          BY <4>1, NarrowLetter DEF PlainLetters, Letters
        <5> QED  BY <4>1, <5>1 DEF char8to16, PlainLetters
      <4>2. CASE c \in 1040 .. 1103
        <5>1. char16to8(c) = c - 848
          BY <4>2, NarrowLetter DEF PlainLetters, Letters
        <5> DEFINE b == c - 848
        <5>2. /\ b \in 192 .. 255 /\ b - 168 \notin {0, 2, 10, 11, 16, 18, 23}
              /\ ~(b - 168 < 24 \/ b - 168 > 87) /\ ~(b < 168) /\ b - 176 + 1024 = c
          BY <4>2
        <5> HIDE DEF b
        <5>3. char8to16(b) = c
          BY <5>2 DEF char8to16
        <5> QED  BY <5>1, <5>3 DEF b
      <4> QED  BY <4>1, <4>2 DEF PlainLetters
    <3>5. DOMAIN title = DOMAIN typed /\ \A i \in DOMAIN typed : title[i] = char16to8(typed[i])
      BY <3>3 DEF Narrow
    <3> HIDE DEF title
    <3>6. \A i \in DOMAIN typed : typed[i] \in PlainLetters /\ shown[i] = typed[i]
      BY <3>1, <3>4, <3>5, <2>1
    <3>7. shown = [i \in DOMAIN typed |-> shown[i]] /\ typed = [i \in DOMAIN typed |-> typed[i]]
      BY <2>1, <3>5
    <3> HIDE DEF shown
    <3> QED  BY <3>6, <3>7
  <2>5. (\A i \in DOMAIN typed : typed[i] \notin {1025, 1105}) => shown = typed
    BY <2>4
  <2> QED  BY <2>2, <2>3, <2>5 DEF TypedArrives, Narrow
<1> QED  BY <1>1, TypedIsText, PTL
=============================================================================
