------------------------- MODULE MethodSwitchesProofs -------------------------
(***************************************************************************)
(* Proofs about MethodSwitches for any number of methods, threads and      *)
(* commands: what the list holds while a command changes it, and what a    *)
(* check that reads it without the lock can still rely on.                 *)
(***************************************************************************)
EXTENDS MethodSwitches, SequenceTheorems, TLAPS

USE NoMethodAssumption, MaxCommandsAssumption

Value == Method \union {NoMethod}

ListRecord == [array : Nat, size : Nat]

\* The arrays A and the lists L: a list never counts more than its array has.
WellFormed(A, L) ==
  /\ A \in Seq(Array) /\ Len(A) > 0
  /\ L \in Seq(ListRecord) /\ Len(L) > 0
  /\ \A n \in 1 .. Len(L) : L[n].array \in 1 .. Len(A) /\ L[n].size <= Len(A[L[n].array])

\* The slots that hold an item: Add counts the item before it stores it, Remove
\* counts down before it moves the items.
Filled(k, at) == IF at = "store" THEN k - 1 ELSE IF at = "shift" THEN k + 1 ELSE k

\* The slots t of a list of k items, at the place o of a command, are what the
\* commands so far ask for, each method once, except for the item that Distinct
\* is about to drop; behind it the slots are free, except for the one that
\* Remove is about to clear.
SlotsFine(t, k, o, on) ==
  LET f == Filled(k, o.at)
  IN /\ f \in 0 .. Len(t)
     /\ \A i \in 1 .. f : t[i] \in Method
     /\ \A i \in 1 .. Len(t) :
          i > f /\ ~(o.at = "clear" /\ i = f + 1) => t[i] = NoMethod
     /\ \A i, j \in 1 .. f : t[i] = t[j] => i = j \/ (o.at = "publish" /\ (i = f \/ j = f))
     /\ on = {t[i] : i \in 1 .. f}
     /\ o.at \in {"size", "store", "clear"} => f < Len(t)
     /\ o.at = "publish" => f > 0
     /\ o.at = "shift" => o.method \in on

\* An array in which only methods that are switched on are to be found.
OnlyOf(t, on) == \A i \in 1 .. Len(t) : t[i] \in on \union {NoMethod}

Has(t, p, m) == p \in 1 .. Len(t) /\ t[p] = m

\* A method that is on all the time is ahead of the check s.
Ahead(s, A, L) ==
  /\ s.at = "array" => \E p \in 1 .. L[s.list].size : Has(A[L[s.list].array], p, s.method)
  /\ s.at = "size" =>
       \E p \in 1 .. L[s.list].size :
         Has(A[L[s.list].array], p, s.method) /\ Has(A[s.array], p, s.method)
  /\ s.at = "slot" => \E p \in s.next .. s.count : Has(A[s.array], p, s.method)

\* A check s under way, which has overlapped with w: without a Del meanwhile it
\* reads arrays that hold what is switched on, without an Add it reads the
\* array of its list.
ScanFine(s, w, A, L, on) ==
  s.at \in {"array", "size", "slot"} =>
    /\ s.method \in Method
    /\ s.list \in 1 .. Len(L)
    /\ s.at # "array" => s.array \in 1 .. Len(A)
    /\ s.at = "slot" => s.next > 0 /\ s.count <= Len(A[s.array])
    /\ (IF s.method \in on THEN "on" ELSE "off") \in w.is
    /\ "add" \notin w.with /\ s.at = "size" => s.array = L[s.list].array
    /\ "del" \notin w.with =>
         /\ OnlyOf(A[L[s.list].array], on)
         /\ s.at # "array" => OnlyOf(A[s.array], on)
         /\ "off" \notin w.is => Ahead(s, A, L)

\* A check s that has ended.
AnswerFine(s, w) ==
  /\ s.at = "throws" => "add" \in w.with
  /\ "del" \notin w.with =>
       /\ s.at = "no" => "off" \in w.is
       /\ s.at = "yes" => "on" \in w.is

SwitchInv ==
  /\ SwitchTypeOK
  /\ WellFormed(arrays, lists)
  /\ SlotsFine(Slots, Current.size, op, enabled)
  /\ \A c \in Caller : ScanFine(scan[c], seen[c], arrays, lists, enabled)
  /\ \A c \in Caller : AnswerFine(scan[c], seen[c])
-----------------------------------------------------------------------------
\* Facts about arrays and lists, and what the steps of a command do to them.
LEMMA Shapes ==
  ASSUME NEW A, NEW L, WellFormed(A, L)
  PROVE  /\ Len(A) \in Nat /\ Len(L) \in Nat
         /\ \A a \in 1 .. Len(A) : A[a] \in Seq(Value) /\ Len(A[a]) \in Nat
         /\ \A a \in 1 .. Len(A) : \A i \in 1 .. Len(A[a]) : A[a][i] \in Value
         /\ \A n \in 1 .. Len(L) :
              /\ L[n] \in ListRecord /\ L[n].size \in Nat
              /\ L[n].array \in 1 .. Len(A) /\ L[n].size <= Len(A[L[n].array])
<1>1. Len(A) \in Nat /\ Len(L) \in Nat
  BY LenProperties DEF WellFormed
<1>2. \A a \in 1 .. Len(A) : A[a] \in Seq(Value)
  BY ElementOfSeq DEF WellFormed, Array, Value
<1>3. \A a \in 1 .. Len(A) : Len(A[a]) \in Nat
  BY <1>2, LenProperties
<1>4. \A a \in 1 .. Len(A) : \A i \in 1 .. Len(A[a]) : A[a][i] \in Value
  BY <1>2, ElementOfSeq
<1>5. \A n \in 1 .. Len(L) : L[n] \in ListRecord
  BY ElementOfSeq DEF WellFormed
<1>6. \A n \in 1 .. Len(L) : L[n].size \in Nat
  BY <1>5 DEF ListRecord
<1> QED BY <1>1, <1>2, <1>3, <1>4, <1>5, <1>6 DEF WellFormed

\* Arrays keep their lengths, lists and arrays are never lost.
Grows(A, L, B, M) ==
  /\ Len(A) <= Len(B) /\ Len(L) <= Len(M)
  /\ \A a \in 1 .. Len(A) : Len(B[a]) = Len(A[a])

LEMMA SetArray ==
  ASSUME NEW A, NEW L, WellFormed(A, L), NEW a \in 1 .. Len(A),
         NEW t, Len(t) = Len(A[a]), NEW B \in Seq(Array), Len(B) = Len(A),
         \A b \in 1 .. Len(A) : B[b] = IF b = a THEN t ELSE A[b]
  PROVE  WellFormed(B, L) /\ Grows(A, L, B, L)
<1>1. \A b \in 1 .. Len(A) : Len(B[b]) = Len(A[b])
  OBVIOUS
<1>2. WellFormed(B, L)
  BY <1>1 DEF WellFormed
<1>3. Grows(A, L, B, L)
  BY <1>1, Shapes DEF Grows
<1> QED BY <1>2, <1>3

LEMMA AddArray ==
  ASSUME NEW A, NEW L, WellFormed(A, L), NEW t \in Seq(Value), NEW B, B = Append(A, t)
  PROVE  /\ WellFormed(B, L) /\ Grows(A, L, B, L)
         /\ \A b \in 1 .. Len(A) : B[b] = A[b]
         /\ Len(B) = Len(A) + 1 /\ B[Len(A) + 1] = t
<1>1. /\ B \in Seq(Array) /\ Len(B) = Len(A) + 1
      /\ \A b \in 1 .. Len(A) : B[b] = A[b]
      /\ B[Len(A) + 1] = t
  BY AppendProperties DEF WellFormed, Array, Value
<1>2. Len(A) \in Nat /\ Len(L) \in Nat
  BY Shapes
<1>3. WellFormed(B, L)
  BY <1>1, <1>2 DEF WellFormed
<1> QED BY <1>1, <1>2, <1>3 DEF Grows

LEMMA SetList ==
  ASSUME NEW A, NEW L, WellFormed(A, L), NEW r,
         r.array \in 1 .. Len(A), r.size <= Len(A[r.array]),
         NEW M \in Seq(ListRecord), Len(M) = Len(L),
         \A n \in 1 .. Len(L) : M[n] = IF n = Len(L) THEN r ELSE L[n]
  PROVE  WellFormed(A, M) /\ Grows(A, L, A, M)
<1>1. Len(L) \in Nat /\ Len(A) \in Nat
  BY Shapes
<1>2. WellFormed(A, M)
  BY <1>1 DEF WellFormed
<1> QED BY <1>1, <1>2 DEF Grows

LEMMA AddList ==
  ASSUME NEW A, NEW L, WellFormed(A, L), NEW r,
         r.array \in 1 .. Len(A), r.size <= Len(A[r.array]),
         NEW M \in Seq(ListRecord), Len(M) = Len(L) + 1,
         \A n \in 1 .. Len(L) : M[n] = L[n], M[Len(L) + 1] = r
  PROVE  WellFormed(A, M) /\ Grows(A, L, A, M)
<1>1. Len(A) \in Nat /\ Len(L) \in Nat
  BY Shapes
<1>2. WellFormed(A, M)
  BY <1>1 DEF WellFormed
<1> QED BY <1>1, <1>2 DEF Grows
-----------------------------------------------------------------------------
\* What an Add keeps of what the checks read: arrays only gain what is switched
\* on, and an array is only replaced by a longer copy of it.
Extends(A, L, on, B, M, on2) ==
  /\ on \subseteq on2
  /\ \A a \in 1 .. Len(A) : \A p \in 1 .. Len(A[a]) :
       B[a][p] = A[a][p] \/ (A[a][p] = NoMethod /\ B[a][p] \in on2)
  /\ \A n \in 1 .. Len(L) :
       /\ M[n].size >= L[n].size
       /\ \/ M[n].array = L[n].array
          \/ B[M[n].array] = Append(B[L[n].array], NoMethod)

\* The overlap w grows by a command of the kind.
Notes(s, w, w2, on2, kind) ==
  /\ w2.is = w.is \union {IF s.method \in on2 THEN "on" ELSE "off"}
  /\ w2.with = w.with \union {kind}

\* A check under way goes on to read what it may rely on.
LEMMA DelMeetsScan ==
  ASSUME NEW s, NEW w, NEW A, NEW L, NEW on, ScanFine(s, w, A, L, on),
         NEW B, NEW M, NEW on2, NEW w2, Notes(s, w, w2, on2, "del"),
         WellFormed(A, L), WellFormed(B, M), Grows(A, L, B, M),
         \A n \in 1 .. Len(L) : M[n].array = L[n].array
  PROVE  ScanFine(s, w2, B, M, on2)
<1> SUFFICES ASSUME s.at \in {"array", "size", "slot"}
             PROVE  ScanFine(s, w2, B, M, on2)
  BY DEF ScanFine
<1>1. Len(A) \in Nat /\ Len(B) \in Nat /\ Len(L) \in Nat /\ Len(M) \in Nat
  BY Shapes
<1>2. /\ s.method \in Method /\ s.list \in 1 .. Len(M)
      /\ s.at # "array" => s.array \in 1 .. Len(B)
      /\ s.at = "slot" => s.next > 0 /\ s.count <= Len(B[s.array])
  BY <1>1 DEF ScanFine, Grows
<1>3. "add" \notin w2.with /\ s.at = "size" => s.array = M[s.list].array
  BY DEF ScanFine, Notes
<1>4. "del" \in w2.with /\ (IF s.method \in on2 THEN "on" ELSE "off") \in w2.is
  BY DEF Notes
<1> QED BY <1>2, <1>3, <1>4 DEF ScanFine

LEMMA AddMeetsScan ==
  ASSUME NEW s, NEW w, NEW A, NEW L, NEW on, ScanFine(s, w, A, L, on),
         NEW B, NEW M, NEW on2, NEW w2, Notes(s, w, w2, on2, "add"),
         WellFormed(A, L), WellFormed(B, M), Grows(A, L, B, M), Extends(A, L, on, B, M, on2)
  PROVE  ScanFine(s, w2, B, M, on2)
<1> SUFFICES ASSUME s.at \in {"array", "size", "slot"}
             PROVE  ScanFine(s, w2, B, M, on2)
  BY DEF ScanFine
<1> DEFINE l == s.list
           a == L[l].array
           b == M[l].array
<1>1. /\ Len(A) \in Nat /\ Len(B) \in Nat /\ Len(L) \in Nat /\ Len(M) \in Nat
      /\ s.method \in Method /\ l \in 1 .. Len(L) /\ l \in 1 .. Len(M)
      /\ s.at # "array" => s.array \in 1 .. Len(A) /\ s.array \in 1 .. Len(B)
      /\ s.at = "slot" => s.next > 0 /\ s.count <= Len(B[s.array])
  <2>1. Len(A) \in Nat /\ Len(B) \in Nat /\ Len(L) \in Nat /\ Len(M) \in Nat
    BY Shapes
  <2>2. /\ s.method \in Method /\ l \in 1 .. Len(L)
        /\ s.at # "array" => s.array \in 1 .. Len(A)
        /\ s.at = "slot" => s.next > 0 /\ s.count <= Len(A[s.array])
    BY DEF ScanFine
  <2> HIDE DEF l
  <2>3. l \in 1 .. Len(M) /\ (s.at # "array" => s.array \in 1 .. Len(B))
    BY <2>1, <2>2 DEF Grows
  <2>4. s.at = "slot" => Len(B[s.array]) = Len(A[s.array])
    BY <2>2 DEF Grows
  <2> QED BY <2>1, <2>2, <2>3, <2>4
<1>2. /\ a \in 1 .. Len(A) /\ a \in 1 .. Len(B) /\ b \in 1 .. Len(B)
      /\ L[l].size \in Nat /\ M[l].size \in Nat /\ L[l].size <= M[l].size
      /\ B[a] \in Seq(Value) /\ Len(A[a]) \in Nat /\ Len(B[a]) = Len(A[a])
      /\ b = a \/ B[b] = Append(B[a], NoMethod)
  <2>1. /\ a \in 1 .. Len(A) /\ b \in 1 .. Len(B)
        /\ L[l].size \in Nat /\ M[l].size \in Nat
    BY <1>1, Shapes
  <2>2. L[l].size <= M[l].size /\ (b = a \/ B[b] = Append(B[a], NoMethod))
    BY <1>1, <2>1 DEF Extends
  <2> HIDE DEF a, b
  <2>3. a \in 1 .. Len(B) /\ Len(B[a]) = Len(A[a])
    BY <1>1, <2>1 DEF Grows
  <2>4. Len(A[a]) \in Nat /\ B[a] \in Seq(Value)
    BY <2>1, <2>3, Shapes
  <2> QED BY <2>1, <2>2, <2>3, <2>4
<1>3. ASSUME NEW x \in 1 .. Len(A), OnlyOf(A[x], on) PROVE OnlyOf(B[x], on2)
  BY <1>3 DEF OnlyOf, Extends, Grows
<1>4. ASSUME NEW x \in 1 .. Len(A), NEW p, Has(A[x], p, s.method)
      PROVE  Has(B[x], p, s.method)
  BY <1>1, <1>4 DEF Has, Extends, Grows
<1>5. /\ \A p \in 1 .. Len(B[a]) : p \in 1 .. Len(B[b]) /\ B[b][p] = B[a][p]
      /\ \A p \in 1 .. Len(B[b]) : p \in 1 .. Len(B[a]) \/ B[b][p] = NoMethod
  <2>1. CASE b = a
    BY <2>1
  <2>2. CASE B[b] = Append(B[a], NoMethod)
    <3>1. /\ Len(B[b]) = Len(B[a]) + 1 /\ B[b][Len(B[a]) + 1] = NoMethod
          /\ \A p \in 1 .. Len(B[a]) : B[b][p] = B[a][p]
      BY <1>2, <2>2, AppendProperties DEF Value
    <3>2. Len(B[a]) \in Nat
      BY <1>2
    <3> HIDE DEF a, b
    <3>3. \A p \in 1 .. Len(B[a]) : p \in 1 .. Len(B[b]) /\ B[b][p] = B[a][p]
      BY <3>1, <3>2
    <3>4. ASSUME NEW p \in 1 .. Len(B[b]), p \notin 1 .. Len(B[a]) PROVE B[b][p] = NoMethod
      <4>1. p = Len(B[a]) + 1
        BY <3>1, <3>2, <3>4
      <4> QED BY <3>1, <4>1
    <3> QED BY <3>3, <3>4
  <2> QED BY <1>2, <2>1, <2>2
<1>6. OnlyOf(A[a], on) => OnlyOf(B[b], on2)
  <2> SUFFICES ASSUME OnlyOf(A[a], on), NEW p \in 1 .. Len(B[b])
               PROVE  B[b][p] \in on2 \union {NoMethod}
    BY DEF OnlyOf
  <2>1. OnlyOf(B[a], on2)
    BY <1>2, <1>3
  <2> QED BY <1>5, <2>1 DEF OnlyOf
<1>7. ASSUME NEW p \in 1 .. L[l].size, Has(A[a], p, s.method)
      PROVE  p \in 1 .. M[l].size /\ Has(B[b], p, s.method)
  <2>1. Has(B[a], p, s.method)
    BY <1>2, <1>4, <1>7
  <2> QED BY <1>2, <1>5, <2>1 DEF Has
<1>8. Ahead(s, A, L) => Ahead(s, B, M)
  <2>1. CASE s.at = "array"
    BY <1>7, <2>1 DEF Ahead
  <2>2. CASE s.at = "size"
    BY <1>1, <1>4, <1>7, <2>2 DEF Ahead
  <2>3. CASE s.at = "slot"
    BY <1>1, <1>4, <2>3 DEF Ahead
  <2> QED BY <2>1, <2>2, <2>3
<1>9. "del" \notin w2.with =>
        /\ OnlyOf(B[b], on2)
        /\ s.at # "array" => OnlyOf(B[s.array], on2)
        /\ "off" \notin w2.is => Ahead(s, B, M)
  BY <1>1, <1>3, <1>6, <1>8 DEF ScanFine, Notes
<1>10. "add" \in w2.with /\ (IF s.method \in on2 THEN "on" ELSE "off") \in w2.is
  BY DEF Notes
<1> QED BY <1>1, <1>9, <1>10 DEF ScanFine
-----------------------------------------------------------------------------
\* What the steps of a command do to the slots of the list.
LEMMA SlotsAre ==
  ASSUME NEW t, NEW k, NEW o, NEW on, NEW f, f = Filled(k, o.at), f \in 0 .. Len(t),
         \A i \in 1 .. f : t[i] \in Method,
         \A i \in 1 .. Len(t) : i > f /\ ~(o.at = "clear" /\ i = f + 1) => t[i] = NoMethod,
         \A i, j \in 1 .. f : t[i] = t[j] => i = j,
         on = {t[i] : i \in 1 .. f},
         o.at \notin {"size", "store", "publish", "shift"}, o.at = "clear" => f < Len(t)
  PROVE  SlotsFine(t, k, o, on)
BY DEF SlotsFine

LEMMA SlotsSame ==
  ASSUME NEW t, NEW k, NEW o, NEW o2, NEW on, SlotsFine(t, k, o, on),
         o.at \in {"free", "add", "del"}, o2.at \in {"free", "add", "del"}
  PROVE  SlotsFine(t, k, o2, on)
BY DEF SlotsFine, Filled

LEMMA SlotsRoom ==
  ASSUME NEW t \in Seq(Value), NEW k \in Nat, NEW o, NEW o2, NEW on, SlotsFine(t, k, o, on),
         o.at = "add", o2.at = "size"
  PROVE  IF k < Len(t) THEN SlotsFine(t, k, o2, on)
                       ELSE SlotsFine(Append(t, NoMethod), k, o2, on)
<1>1. CASE k < Len(t)
  BY <1>1 DEF SlotsFine, Filled
<1>2. CASE ~(k < Len(t))
  <2> DEFINE u == Append(t, NoMethod)
  <2>1. /\ Len(t) \in Nat /\ Len(u) = Len(t) + 1 /\ u[Len(t) + 1] = NoMethod
        /\ \A i \in 1 .. Len(t) : u[i] = t[i]
    BY LenProperties, AppendProperties DEF Value
  <2>2. k = Len(t)
    BY <1>2, <2>1 DEF SlotsFine, Filled
  <2> HIDE DEF u
  <2>3. \A i \in 1 .. k : u[i] = t[i]
    BY <2>1, <2>2
  <2>4. \A i \in 1 .. Len(u) : i > k => u[i] = NoMethod
    BY <2>1, <2>2
  <2>5. on = {u[i] : i \in 1 .. k}
    BY <2>3 DEF SlotsFine, Filled
  <2>6. SlotsFine(u, k, o2, on)
    BY <2>1, <2>2, <2>3, <2>4, <2>5 DEF SlotsFine, Filled
  <2> QED BY <1>2, <2>6 DEF u
<1> QED BY <1>1, <1>2

LEMMA SlotsCount ==
  ASSUME NEW t \in Seq(Value), NEW k \in Nat, NEW o, NEW o2, NEW on, SlotsFine(t, k, o, on),
         o.at = "size", o2.at = "store"
  PROVE  k + 1 <= Len(t) /\ SlotsFine(t, k + 1, o2, on)
<1>1. Len(t) \in Nat
  BY LenProperties
<1>2. Filled(k, o.at) = k /\ Filled(k + 1, o2.at) = k
  BY DEF Filled
<1> QED BY <1>1, <1>2 DEF SlotsFine

LEMMA SlotsStore ==
  ASSUME NEW t \in Seq(Value), NEW k \in Nat, NEW o, NEW o2, NEW on, SlotsFine(t, k, o, on),
         o.at = "store", o2.at = "publish", o.method \in Method,
         NEW u, Len(u) = Len(t),
         \A i \in 1 .. Len(t) : u[i] = IF i = k THEN o.method ELSE t[i]
  PROVE  SlotsFine(u, k, o2, on \union {o.method})
<1>1. Len(t) \in Nat
  BY LenProperties
<1>2. Filled(k, o.at) = k - 1 /\ Filled(k, o2.at) = k
  BY DEF Filled
<1>3. k \in 1 .. Len(t)
  BY <1>1, <1>2 DEF SlotsFine
<1>5. u[k] = o.method /\ \A i \in 1 .. k - 1 : i \in 1 .. Len(t) /\ u[i] = t[i] /\ u[i] \in Method
  BY <1>1, <1>2, <1>3 DEF SlotsFine
<1>6. \A i \in 1 .. k : u[i] \in Method
  BY <1>3, <1>5
<1>7. \A i \in 1 .. Len(u) : i > k => u[i] = NoMethod
  BY <1>1, <1>2, <1>3 DEF SlotsFine
<1>8. \A i, j \in 1 .. k : u[i] = u[j] => i = j \/ i = k \/ j = k
  <2> SUFFICES ASSUME NEW i \in 1 .. k, NEW j \in 1 .. k, u[i] = u[j], i # k, j # k
               PROVE  i = j
    OBVIOUS
  <2>1. i \in 1 .. k - 1 /\ j \in 1 .. k - 1
    OBVIOUS
  <2>2. t[i] = t[j]
    BY <1>5, <2>1
  <2> QED BY <1>2, <2>1, <2>2 DEF SlotsFine
<1>9. on \union {o.method} = {u[i] : i \in 1 .. k}
  <2>1. on = {t[i] : i \in 1 .. k - 1}
    BY <1>2 DEF SlotsFine
  <2>2. {u[i] : i \in 1 .. k} = {u[i] : i \in 1 .. k - 1} \union {u[k]}
    BY <1>3
  <2>3. {u[i] : i \in 1 .. k - 1} = {t[i] : i \in 1 .. k - 1}
    BY <1>5
  <2> QED BY <1>5, <2>1, <2>2, <2>3
<1> QED BY <1>1, <1>2, <1>3, <1>6, <1>7, <1>8, <1>9 DEF SlotsFine

LEMMA SlotsPublish ==
  ASSUME NEW t \in Seq(Value), NEW k \in Nat, NEW o, NEW on, SlotsFine(t, k, o, on),
         o.at = "publish"
  PROVE  LET u == Distinct(SubSeq(t, 1, k))
         IN u \in Seq(Value) /\ SlotsFine(u, Len(u), NoOp, on)
<1> DEFINE v == SubSeq(t, 1, k)
           u == Distinct(v)
<1>1. Len(t) \in Nat
  BY LenProperties
<1>2. Filled(k, o.at) = k /\ \A n : Filled(n, NoOp.at) = n
  BY DEF Filled, NoOp
<1>3. k \in 1 .. Len(t)
  BY <1>1, <1>2 DEF SlotsFine
<1>4. v \in Seq(Value) /\ Len(v) = k /\ \A i \in 1 .. k : v[i] = t[i]
  BY <1>1, <1>3, SubSeqProperties
<1>5. \E n \in {k - 1, k} :
        /\ u \in Seq(Value) /\ Len(u) = n /\ \A i \in 1 .. n : u[i] = t[i]
        /\ \A i \in 1 .. k - 1 : n = k => t[i] # t[k]
        /\ n = k - 1 => \E i \in 1 .. k - 1 : t[i] = t[k]
  <2> HIDE DEF v
  <2>1. CASE \E i \in 1 .. k - 1 : t[i] = t[k]
    <3>1. u = SubSeq(v, 1, k - 1)
      <4>1. \E i \in 1 .. Len(v) - 1 : v[i] = v[Len(v)]
        BY <1>3, <1>4, <2>1
      <4> QED BY <1>4, <4>1 DEF Distinct, v
    <3>2. u \in Seq(Value) /\ Len(u) = k - 1 /\ \A i \in 1 .. k - 1 : u[i] = v[i]
      BY <1>3, <1>4, <3>1, SubSeqProperties
    <3> QED BY <1>3, <1>4, <2>1, <3>2
  <2>2. CASE ~\E i \in 1 .. k - 1 : t[i] = t[k]
    <3>1. u = v
      <4>1. ~\E i \in 1 .. Len(v) - 1 : v[i] = v[Len(v)]
        BY <1>3, <1>4, <2>2
      <4> QED BY <4>1 DEF Distinct, v
    <3> QED BY <1>4, <2>2, <3>1
  <2> QED BY <2>1, <2>2
<1>6. PICK n \in {k - 1, k} :
        /\ u \in Seq(Value) /\ Len(u) = n /\ \A i \in 1 .. n : u[i] = t[i]
        /\ \A i \in 1 .. k - 1 : n = k => t[i] # t[k]
        /\ n = k - 1 => \E i \in 1 .. k - 1 : t[i] = t[k]
  BY <1>5
<1>7. n \in Nat /\ n <= k
  BY <1>3
<1>8. \A i \in 1 .. n : i \in 1 .. k /\ u[i] = t[i] /\ u[i] \in Method
  BY <1>2, <1>6, <1>7 DEF SlotsFine
<1>9. \A i, j \in 1 .. n : u[i] = u[j] => i = j
  <2> SUFFICES ASSUME NEW i \in 1 .. n, NEW j \in 1 .. n, u[i] = u[j], i # j
               PROVE  FALSE
    OBVIOUS
  <2>1. i \in 1 .. k /\ j \in 1 .. k /\ t[i] = t[j]
    BY <1>8
  <2>2. i = k \/ j = k
    BY <1>2, <2>1 DEF SlotsFine
  <2>3. n = k
    BY <1>7, <2>2
  <2> QED BY <1>6, <2>1, <2>2, <2>3
<1>10. on = {u[i] : i \in 1 .. n}
  <2>1. on = {t[i] : i \in 1 .. k}
    BY <1>2 DEF SlotsFine
  <2>2. {t[i] : i \in 1 .. k} = {t[i] : i \in 1 .. n}
    BY <1>3, <1>6
  <2>3. {t[i] : i \in 1 .. n} = {u[i] : i \in 1 .. n}
    BY <1>6
  <2> QED BY <2>1, <2>2, <2>3
<1>11. /\ \A i \in 1 .. Len(u) : ~(i > n)
       /\ NoOp.at = "free"
  BY <1>6, <1>7 DEF NoOp
<1>12. Filled(Len(u), NoOp.at) = n
  BY <1>2, <1>6
<1> HIDE DEF u, v
<1>13. SlotsFine(u, Len(u), NoOp, on)
  BY <1>6, <1>7, <1>8, <1>9, <1>10, <1>11, <1>12, SlotsAre
<1> QED BY <1>6, <1>13 DEF u, v

LEMMA SlotsDown ==
  ASSUME NEW t \in Seq(Value), NEW k \in Nat, NEW o, NEW o2, NEW on, SlotsFine(t, k, o, on),
         o.at = "del", o2.at = "shift", o2.method = o.method, o.method \in on
  PROVE  k - 1 \in Nat /\ SlotsFine(t, k - 1, o2, on)
<1>1. Len(t) \in Nat
  BY LenProperties
<1>2. Filled(k, o.at) = k /\ Filled(k - 1, o2.at) = k
  BY DEF Filled
<1>3. on = {t[i] : i \in 1 .. k}
  BY <1>2 DEF SlotsFine
<1>4. k > 0
  BY <1>3
<1> QED BY <1>1, <1>2, <1>4 DEF SlotsFine

\* The place of m, and the slots after Shift has closed the gap there.
PlaceOf(m, t, k, g) == g = CHOOSE i \in 1 .. k + 1 : t[i] = m

Shifted(t, k, g, u) ==
  u = [i \in 1 .. Len(t) |-> IF i >= g /\ i <= k THEN t[i + 1] ELSE t[i]]

LEMMA ShiftShape ==
  ASSUME NEW t \in Seq(Value), NEW k \in Nat, k + 1 <= Len(t), NEW g,
         NEW u, Shifted(t, k, g, u)
  PROVE  u \in Seq(Value) /\ Len(u) = Len(t)
<1>1. Len(t) \in Nat /\ \A i \in 1 .. Len(t) : t[i] \in Value
  BY LenProperties, ElementOfSeq
<1>2. \A i \in 1 .. Len(t) : i <= k => i + 1 \in 1 .. Len(t)
  BY <1>1
<1>3. u \in [1 .. Len(t) -> Value]
  BY <1>1, <1>2 DEF Shifted
<1> QED BY <1>1, <1>3, SeqDef, LenProperties

LEMMA SlotsShift ==
  ASSUME NEW t \in Seq(Value), NEW k \in Nat, NEW o, NEW o2, NEW on, SlotsFine(t, k, o, on),
         o.at = "shift", o2.at = "clear",
         NEW g, PlaceOf(o.method, t, k, g), NEW u, Shifted(t, k, g, u)
  PROVE  SlotsFine(u, k, o2, on \ {o.method})
<1>1. Len(t) \in Nat /\ \A i \in 1 .. Len(t) : t[i] \in Value
  BY LenProperties, ElementOfSeq
<1>2. Filled(k, o.at) = k + 1 /\ Filled(k, o2.at) = k
  BY DEF Filled
<1>3. k + 1 <= Len(t) /\ on = {t[i] : i \in 1 .. k + 1} /\ o.method \in on
  BY <1>1, <1>2 DEF SlotsFine
<1>4. g \in 1 .. k + 1 /\ t[g] = o.method
  BY <1>3 DEF PlaceOf
<1>5. \A i \in 1 .. k + 1 : t[i] = o.method <=> i = g
  <2>1. \A i, j \in 1 .. k + 1 : t[i] = t[j] => i = j
    BY <1>2 DEF SlotsFine
  <2> QED BY <1>4, <2>1
<1>6. Len(u) = Len(t)
  BY <1>3, ShiftShape
<1>7. \A i \in 1 .. k : u[i] = IF i >= g THEN t[i + 1] ELSE t[i]
  BY <1>1, <1>3 DEF Shifted
<1>8. \A i \in 1 .. Len(t) : i > k => u[i] = t[i]
  BY <1>1, <1>3 DEF Shifted
<1>9. \A i \in 1 .. k : \E j \in 1 .. k + 1 :
        j # g /\ u[i] = t[j] /\ j = (IF i >= g THEN i + 1 ELSE i)
  BY <1>4, <1>7
<1>10. \A j \in 1 .. k + 1 : j # g => \E i \in 1 .. k : u[i] = t[j]
  <2> SUFFICES ASSUME NEW j \in 1 .. k + 1, j # g PROVE \E i \in 1 .. k : u[i] = t[j]
    OBVIOUS
  <2>1. CASE j < g
    <3>1. j \in 1 .. k /\ ~(j >= g)
      BY <1>4, <2>1
    <3> QED BY <1>7, <3>1
  <2>2. CASE j > g
    <3>1. j - 1 \in 1 .. k /\ j - 1 >= g /\ (j - 1) + 1 = j
      BY <1>4, <2>2
    <3> QED BY <1>7, <3>1
  <2> QED BY <1>4, <2>1, <2>2
<1>11. on \ {o.method} = {u[i] : i \in 1 .. k}
  <2>1. \A x : x \in on <=> \E j \in 1 .. k + 1 : x = t[j]
    BY <1>3
  <2>2. ASSUME NEW x \in on \ {o.method} PROVE x \in {u[i] : i \in 1 .. k}
    BY <1>5, <1>10, <2>1
  <2>3. ASSUME NEW i \in 1 .. k PROVE u[i] \in on \ {o.method}
    BY <1>5, <1>9, <2>1
  <2> QED BY <2>2, <2>3
<1>12. \A i, j \in 1 .. k : u[i] = u[j] => i = j
  <2> SUFFICES ASSUME NEW i \in 1 .. k, NEW j \in 1 .. k, u[i] = u[j] PROVE i = j
    OBVIOUS
  <2>1. PICK p \in 1 .. k + 1 : u[i] = t[p] /\ p = (IF i >= g THEN i + 1 ELSE i)
    BY <1>9
  <2>2. PICK q \in 1 .. k + 1 : u[j] = t[q] /\ q = (IF j >= g THEN j + 1 ELSE j)
    BY <1>9
  <2>3. p = q
    BY <1>2, <2>1, <2>2 DEF SlotsFine
  <2> QED BY <1>4, <2>1, <2>2, <2>3
<1>13. \A i \in 1 .. k : u[i] \in Method
  <2>1. \A j \in 1 .. k + 1 : t[j] \in Method
    BY <1>2 DEF SlotsFine
  <2> QED BY <1>9, <2>1
<1>14. \A i \in 1 .. Len(u) : i > k /\ i # k + 1 => u[i] = NoMethod
  BY <1>1, <1>2, <1>6, <1>8 DEF SlotsFine
<1>15. k \in 0 .. Len(u) /\ k < Len(u)
  BY <1>1, <1>3, <1>6
<1> QED BY <1>2, <1>6, <1>11, <1>12, <1>13, <1>14, <1>15, SlotsAre

LEMMA SlotsClear ==
  ASSUME NEW t \in Seq(Value), NEW k \in Nat, NEW o, NEW on, SlotsFine(t, k, o, on),
         o.at = "clear", NEW u, Len(u) = Len(t),
         \A i \in 1 .. Len(t) : u[i] = IF i = k + 1 THEN NoMethod ELSE t[i]
  PROVE  k + 1 \in 1 .. Len(t) /\ SlotsFine(u, k, NoOp, on)
<1>1. Len(t) \in Nat
  BY LenProperties
<1>2. Filled(k, o.at) = k /\ Filled(k, NoOp.at) = k /\ NoOp.at = "free"
  BY DEF Filled, NoOp
<1>3. k + 1 \in 1 .. Len(t)
  BY <1>1, <1>2 DEF SlotsFine
<1>4. \A i \in 1 .. k : i \in 1 .. Len(t) /\ u[i] = t[i]
  BY <1>1, <1>3
<1>5. \A i \in 1 .. Len(u) : i > k => u[i] = NoMethod
  BY <1>1, <1>2 DEF SlotsFine
<1>6. on = {u[i] : i \in 1 .. k}
  BY <1>2, <1>4 DEF SlotsFine
<1>7. \A i, j \in 1 .. k : u[i] = u[j] => i = j
  BY <1>2, <1>4 DEF SlotsFine
<1>8. \A i \in 1 .. k : u[i] \in Method
  BY <1>2, <1>4 DEF SlotsFine
<1> QED BY <1>1, <1>2, <1>3, <1>5, <1>6, <1>7, <1>8 DEF SlotsFine
-----------------------------------------------------------------------------
\* The types of what WellFormed says nothing of.
CheckType == [at : {"none", "array", "size", "slot", "yes", "no", "throws"},
              method : Value, list : Nat, array : Nat, count : Nat, next : Nat]
OverlapType == [is : SUBSET {"on", "off"}, with : SUBSET {"add", "del"}]
OpType == [at : {"free", "add", "size", "store", "publish", "del", "shift", "clear"},
           method : Value]

RestOK ==
  /\ throttled \in SUBSET Method
  /\ op \in OpType /\ (~Free => op.method \in Method)
  /\ commands \in 0 .. MaxCommands
  /\ scan \in [Caller -> CheckType] /\ seen \in [Caller -> OverlapType]
  /\ enabled \in SUBSET Method

LEMMA Types == WellFormed(arrays, lists) => (SwitchTypeOK <=> RestOK)
<1> SUFFICES ASSUME WellFormed(arrays, lists) PROVE SwitchTypeOK <=> RestOK
  OBVIOUS
<1>1. /\ arrays \in Seq(Array) /\ Len(arrays) > 0
      /\ lists \in Seq([array : Nat, size : Nat]) /\ Len(lists) > 0
      /\ \A n \in 1 .. Len(lists) : lists[n].array \in 1 .. Len(arrays)
  BY DEF WellFormed, ListRecord
<1> QED BY <1>1 DEF SwitchTypeOK, RestOK, CheckType, OverlapType, OpType, Value

\* What a step of a command must do to keep the invariant.
LEMMA CommandStep ==
  ASSUME SwitchInv, NEW kind \in {"add", "del"},
         WellFormed(arrays', lists'), Grows(arrays, lists, arrays', lists'),
         kind = "add" => Extends(arrays, lists, enabled, arrays', lists', enabled'),
         kind = "del" => \A n \in 1 .. Len(lists) : lists'[n].array = lists[n].array,
         SlotsFine(Slots', Current'.size, op', enabled'),
         op' \in OpType, op'.at # "free" => op'.method \in Method,
         commands' \in 0 .. MaxCommands, enabled' \subseteq Method,
         throttled' = throttled, scan' = scan, Overlapped(kind)
  PROVE  SwitchInv'
<1>1. WellFormed(arrays, lists) /\ RestOK
  BY Types DEF SwitchInv
<1>2. \A c \in Caller :
        IF Scanning(c) THEN seen'[c] \in OverlapType /\ Notes(scan[c], seen[c], seen'[c], enabled', kind)
                       ELSE seen'[c] = seen[c]
  <2> SUFFICES ASSUME NEW c \in Caller
               PROVE  IF Scanning(c) THEN seen'[c] \in OverlapType
                                            /\ Notes(scan[c], seen[c], seen'[c], enabled', kind)
                                     ELSE seen'[c] = seen[c]
    OBVIOUS
  <2>1. seen[c] \in OverlapType
    BY <1>1 DEF RestOK
  <2>2. CASE Scanning(c)
    <3>1. seen'[c] = [is |-> seen[c].is \union {IF scan[c].method \in enabled' THEN "on" ELSE "off"},
                      with |-> seen[c].with \union {kind}]
      BY <2>2 DEF Overlapped, Standing
    <3> QED BY <2>1, <2>2, <3>1 DEF Notes, OverlapType
  <2>3. CASE ~Scanning(c)
    BY <2>3 DEF Overlapped
  <2> QED BY <2>2, <2>3
<1>3. seen' \in [Caller -> OverlapType]
  <2>1. \A c \in Caller : seen[c] \in OverlapType
    BY <1>1 DEF RestOK
  <2>2. \A c \in Caller : seen'[c] \in OverlapType
    BY <1>2, <2>1
  <2>3. seen' = [c \in Caller |-> seen'[c]]
    BY DEF Overlapped
  <2> QED BY <2>2, <2>3
<1>4. SwitchTypeOK'
  <2>1. RestOK'
    BY <1>1, <1>3 DEF RestOK, Free
  <2>2. (WellFormed(arrays, lists) => (SwitchTypeOK <=> RestOK))'
    BY Types, PTL
  <2> QED BY <2>1, <2>2
<1>5. ASSUME NEW c \in Caller
      PROVE  ScanFine(scan[c], seen'[c], arrays', lists', enabled') /\ AnswerFine(scan[c], seen'[c])
  <2>1. ScanFine(scan[c], seen[c], arrays, lists, enabled) /\ AnswerFine(scan[c], seen[c])
    BY DEF SwitchInv
  <2>2. CASE Scanning(c)
    <3>1. Notes(scan[c], seen[c], seen'[c], enabled', kind)
      BY <1>2, <2>2
    <3>2. ScanFine(scan[c], seen'[c], arrays', lists', enabled')
      BY <1>1, <2>1, <3>1, AddMeetsScan, DelMeetsScan
    <3>3. AnswerFine(scan[c], seen'[c])
      BY <2>2 DEF Scanning, AnswerFine
    <3> QED BY <3>2, <3>3
  <2>3. CASE ~Scanning(c)
    <3>1. seen'[c] = seen[c]
      BY <1>2, <2>3
    <3>2. ScanFine(scan[c], seen'[c], arrays', lists', enabled')
      BY <2>3 DEF Scanning, ScanFine
    <3> QED BY <2>1, <3>1, <3>2
  <2> QED BY <2>2, <2>3
<1> QED BY <1>4, <1>5 DEF SwitchInv

LEMMA Here ==
  ASSUME WellFormed(arrays, lists)
  PROVE  /\ Len(arrays) \in Nat /\ Len(lists) \in Nat /\ Len(lists) \in 1 .. Len(lists)
         /\ Current = lists[Len(lists)] /\ Slots = arrays[Current.array]
         /\ Current \in ListRecord /\ Current.size \in Nat /\ Current.array \in 1 .. Len(arrays)
         /\ Current.size <= Len(Slots)
         /\ Slots \in Seq(Value) /\ Len(Slots) \in Nat
         /\ Grows(arrays, lists, arrays, lists)
<1>1. Len(arrays) \in Nat /\ Len(lists) \in Nat /\ Len(lists) \in 1 .. Len(lists)
  BY Shapes DEF WellFormed
<1>2. /\ Current \in ListRecord /\ Current.size \in Nat
      /\ Current.array \in 1 .. Len(arrays) /\ Current.size <= Len(arrays[Current.array])
  BY <1>1, Shapes DEF Current
<1>3. Slots \in Seq(Value) /\ Len(Slots) \in Nat
  BY <1>2, Shapes DEF Slots
<1> QED BY <1>1, <1>2, <1>3 DEF Current, Slots, Grows

\* The commands that start, and a Remove that finds nothing.
LEMMA StartKeeps ==
  ASSUME SwitchInv, NEW m \in Method, AddSaveResponseMethod(m) \/ DelSaveResponseMethod(m)
  PROVE  SwitchInv'
<1>1. WellFormed(arrays, lists) /\ RestOK /\ SlotsFine(Slots, Current.size, op, enabled)
  BY Types DEF SwitchInv
<1>2. /\ arrays' = arrays /\ lists' = lists /\ enabled' = enabled
      /\ throttled' = throttled /\ scan' = scan /\ op.at = "free"
      /\ commands < MaxCommands /\ commands' = commands + 1
  BY DEF AddSaveResponseMethod, DelSaveResponseMethod, Free
<1>3. Slots' = Slots /\ Current' = Current
  BY <1>2 DEF Slots, Current
<1>4. commands' \in 0 .. MaxCommands /\ enabled' \subseteq Method
  BY <1>1, <1>2 DEF RestOK
<1>5. Grows(arrays, lists, arrays, lists) /\ \A n \in 1 .. Len(lists) : lists[n].size \in Nat
  BY <1>1, Here, Shapes
<1>6. CASE AddSaveResponseMethod(m)
  <2>1. op' \in OpType /\ op'.at = "add" /\ op'.method = m /\ Overlapped("add")
    BY <1>6 DEF AddSaveResponseMethod, OpType, Value
  <2>2. SlotsFine(Slots', Current'.size, op', enabled')
    BY <1>1, <1>2, <1>3, <2>1, SlotsSame
  <2>3. Extends(arrays, lists, enabled, arrays, lists, enabled)
    BY <1>5 DEF Extends
  <2> QED BY <1>1, <1>2, <1>4, <1>5, <2>1, <2>2, <2>3, CommandStep
<1>7. CASE DelSaveResponseMethod(m)
  <2>1. op' \in OpType /\ op'.at = "del" /\ op'.method = m /\ Overlapped("del")
    BY <1>7 DEF DelSaveResponseMethod, OpType, Value
  <2>2. SlotsFine(Slots', Current'.size, op', enabled')
    BY <1>1, <1>2, <1>3, <2>1, SlotsSame
  <2> QED BY <1>1, <1>2, <1>4, <1>5, <2>1, <2>2, CommandStep
<1> QED BY <1>6, <1>7

LEMMA NotThereKeeps ==
  ASSUME SwitchInv, NotThere
  PROVE  SwitchInv'
<1>1. WellFormed(arrays, lists) /\ RestOK /\ SlotsFine(Slots, Current.size, op, enabled)
  BY Types DEF SwitchInv
<1>2. op.at = "del" /\ op.method \notin Items /\ op' = NoOp
  BY DEF NotThere
<1>3. enabled = Items
  BY <1>1, <1>2 DEF SlotsFine, Filled, Items
<1>4. /\ arrays' = arrays /\ lists' = lists /\ enabled' = enabled
      /\ throttled' = throttled /\ scan' = scan /\ commands' = commands /\ Overlapped("del")
  BY <1>2, <1>3 DEF NotThere
<1>5. Slots' = Slots /\ Current' = Current
  BY <1>4 DEF Slots, Current
<1>6. commands' \in 0 .. MaxCommands /\ enabled' \subseteq Method
  BY <1>1, <1>4 DEF RestOK
<1>7. op' \in OpType /\ op'.at = "free"
  BY <1>2 DEF NoOp, OpType, Value
<1>8. SlotsFine(Slots', Current'.size, op', enabled')
  BY <1>1, <1>2, <1>4, <1>5, <1>7, SlotsSame
<1>9. Grows(arrays, lists, arrays, lists)
  BY <1>1, Here
<1> QED BY <1>1, <1>4, <1>6, <1>7, <1>8, <1>9, CommandStep

LEMMA MakeRoomKeeps ==
  ASSUME SwitchInv, MakeRoom
  PROVE  SwitchInv'
<1> DEFINE t == Append(Slots, NoMethod)
           r == [Current EXCEPT !.array = Len(arrays) + 1]
<1>1. WellFormed(arrays, lists) /\ RestOK /\ SlotsFine(Slots, Current.size, op, enabled)
  BY Types DEF SwitchInv
<1>2. /\ op.at = "add" /\ op' = [op EXCEPT !.at = "size"]
      /\ throttled' = throttled /\ scan' = scan /\ commands' = commands
      /\ enabled' = enabled /\ Overlapped("add")
  BY DEF MakeRoom
<1>3. op' \in OpType /\ op'.at = "size" /\ op'.method = op.method /\ op.method \in Method
  BY <1>1, <1>2 DEF RestOK, OpType, Free
<1>4. commands' \in 0 .. MaxCommands /\ enabled' \subseteq Method
  BY <1>1, <1>2 DEF RestOK
<1>5. CASE Current.size < Len(Slots)
  <2>1. arrays' = arrays /\ lists' = lists
    BY <1>5 DEF MakeRoom
  <2>2. Slots' = Slots /\ Current' = Current
    BY <2>1 DEF Slots, Current
  <2>3. SlotsFine(Slots', Current'.size, op', enabled')
    BY <1>1, <1>2, <1>3, <1>5, <2>2, Here, SlotsRoom
  <2>4. Grows(arrays, lists, arrays, lists) /\ \A n \in 1 .. Len(lists) : lists[n].size \in Nat
    BY <1>1, Here, Shapes
  <2>5. Extends(arrays, lists, enabled, arrays', lists', enabled')
    BY <1>2, <2>1, <2>4 DEF Extends
  <2> QED BY <1>1, <1>2, <1>3, <1>4, <2>1, <2>3, <2>4, <2>5, CommandStep
<1>6. CASE ~(Current.size < Len(Slots))
  <2>1. /\ arrays' = Append(arrays, t) /\ lists' = [lists EXCEPT ![Len(lists)].array = Len(arrays) + 1]
    BY <1>6 DEF MakeRoom
  <2>2. lists' = [lists EXCEPT ![Len(lists)] = r]
    BY <2>1 DEF Current
  <2>3. t \in Seq(Value) /\ Len(t) = Len(Slots) + 1
    BY <1>1, Here, AppendProperties DEF Value
  <2>4. r \in ListRecord /\ r.array = Len(arrays) + 1 /\ r.size = Current.size
    BY <1>1, Here DEF ListRecord
  <2> HIDE DEF t, r
  <2>5. /\ WellFormed(arrays', lists) /\ Grows(arrays, lists, arrays', lists)
        /\ \A b \in 1 .. Len(arrays) : arrays'[b] = arrays[b]
        /\ Len(arrays') = Len(arrays) + 1 /\ arrays'[Len(arrays) + 1] = t
    <3>1. WellFormed(arrays', lists) /\ Grows(arrays, lists, arrays', lists)
      BY <1>1, <2>1, <2>3, AddArray
    <3>2. \A b \in 1 .. Len(arrays) : arrays'[b] = arrays[b]
      BY <1>1, <2>1, <2>3, AppendProperties DEF WellFormed, Array, Value
    <3>3. Len(arrays') = Len(arrays) + 1 /\ arrays'[Len(arrays) + 1] = t
      BY <1>1, <2>1, <2>3, AddArray
    <3> QED BY <3>1, <3>2, <3>3
  <2>6. r.array \in 1 .. Len(arrays') /\ r.size <= Len(arrays'[r.array])
    BY <1>1, <2>3, <2>4, <2>5, Here
  <2>7. /\ WellFormed(arrays', lists') /\ Grows(arrays', lists, arrays', lists')
        /\ Len(lists') = Len(lists)
        /\ \A n \in 1 .. Len(lists) : lists'[n] = IF n = Len(lists) THEN r ELSE lists[n]
    <3>1. /\ lists' \in Seq(ListRecord) /\ Len(lists') = Len(lists)
          /\ \A n \in 1 .. Len(lists) : lists'[n] = IF n = Len(lists) THEN r ELSE lists[n]
      BY <1>1, <2>2, <2>4, Here, ExceptSeq DEF WellFormed
    <3>2. WellFormed(arrays', lists') /\ Grows(arrays', lists, arrays', lists')
      BY <2>5, <2>6, <3>1, SetList
    <3> QED BY <3>1, <3>2
  <2>8. Grows(arrays, lists, arrays', lists')
    BY <2>5, <2>7 DEF Grows
  <2>9. Current' = r /\ Slots' = t
    BY <1>1, <2>4, <2>5, <2>7, Here DEF Current, Slots
  <2>10. SlotsFine(Slots', Current'.size, op', enabled')
    BY <1>1, <1>2, <1>3, <1>6, <2>4, <2>9, Here, SlotsRoom DEF t
  <2>11. Extends(arrays, lists, enabled, arrays', lists', enabled')
    <3>1. \A n \in 1 .. Len(lists) :
            /\ lists'[n].size >= lists[n].size
            /\ \/ lists'[n].array = lists[n].array
               \/ arrays'[lists'[n].array] = Append(arrays'[lists[n].array], NoMethod)
      <4> SUFFICES ASSUME NEW n \in 1 .. Len(lists)
                   PROVE  /\ lists'[n].size >= lists[n].size
                          /\ \/ lists'[n].array = lists[n].array
                             \/ arrays'[lists'[n].array] = Append(arrays'[lists[n].array], NoMethod)
        OBVIOUS
      <4>1. lists[n].size \in Nat
        BY <1>1, Shapes
      <4>2. CASE n = Len(lists)
        <5>1. lists[n] = Current /\ lists'[n] = r
          BY <1>1, <2>7, <4>2, Here
        <5>2. arrays'[r.array] = Append(arrays'[Current.array], NoMethod)
          BY <1>1, <2>4, <2>5, Here DEF t
        <5> QED BY <2>4, <4>1, <5>1, <5>2
      <4>3. CASE n # Len(lists)
        BY <2>7, <4>1, <4>3
      <4> QED BY <4>2, <4>3
    <3> QED BY <1>2, <2>5, <3>1 DEF Extends
  <2> QED BY <1>1, <1>2, <1>3, <1>4, <2>7, <2>8, <2>10, <2>11, CommandStep
<1> QED BY <1>5, <1>6

\* The steps that change the size or the slots of the list in place.
LEMMA Resize ==
  ASSUME WellFormed(arrays, lists), NEW k \in Nat, k <= Len(Slots),
         arrays' = arrays, lists' = [lists EXCEPT ![Len(lists)].size = k]
  PROVE  /\ WellFormed(arrays', lists') /\ Grows(arrays, lists, arrays', lists')
         /\ Slots' = Slots /\ Current'.size = k
         /\ \A n \in 1 .. Len(lists) :
              /\ lists'[n].array = lists[n].array
              /\ lists'[n].size = IF n = Len(lists) THEN k ELSE lists[n].size
<1> DEFINE r == [Current EXCEPT !.size = k]
<1>1. lists' = [lists EXCEPT ![Len(lists)] = r]
  BY DEF Current
<1>2. r \in ListRecord /\ r.array = Current.array /\ r.size = k
  BY Here DEF ListRecord
<1> HIDE DEF r
<1>3. /\ lists' \in Seq(ListRecord) /\ Len(lists') = Len(lists)
      /\ \A n \in 1 .. Len(lists) : lists'[n] = IF n = Len(lists) THEN r ELSE lists[n]
  <2>1. lists \in Seq(ListRecord) /\ Len(lists) \in 1 .. Len(lists)
    BY Here DEF WellFormed
  <2> QED BY <1>1, <1>2, <2>1, ExceptSeq
<1>4. r.array \in 1 .. Len(arrays) /\ r.size <= Len(arrays[r.array])
  BY <1>2, Here
<1>5. WellFormed(arrays, lists') /\ Grows(arrays, lists, arrays, lists')
  BY <1>3, <1>4, SetList
<1>6. Current' = r
  BY <1>3, Here DEF Current
<1>7. Slots' = Slots
  BY <1>2, <1>6 DEF Slots
<1>8. \A n \in 1 .. Len(lists) :
        /\ lists'[n].array = lists[n].array
        /\ lists'[n].size = IF n = Len(lists) THEN k ELSE lists[n].size
  BY <1>2, <1>3 DEF Current
<1> QED BY <1>2, <1>5, <1>6, <1>7, <1>8

LEMMA Rewrite ==
  ASSUME WellFormed(arrays, lists), NEW t \in Seq(Value), Len(t) = Len(Slots),
         arrays' = [arrays EXCEPT ![Current.array] = t], lists' = lists
  PROVE  /\ WellFormed(arrays', lists') /\ Grows(arrays, lists, arrays', lists')
         /\ Slots' = t /\ Current' = Current
         /\ \A b \in 1 .. Len(arrays) : arrays'[b] = IF b = Current.array THEN t ELSE arrays[b]
<1>1. Current.array \in 1 .. Len(arrays) /\ Slots = arrays[Current.array]
  BY Here
<1>2. /\ arrays' \in Seq(Array) /\ Len(arrays') = Len(arrays)
      /\ \A b \in 1 .. Len(arrays) : arrays'[b] = IF b = Current.array THEN t ELSE arrays[b]
  BY <1>1, ExceptSeq DEF WellFormed, Array, Value
<1>3. WellFormed(arrays', lists) /\ Grows(arrays, lists, arrays', lists)
  BY <1>1, <1>2, SetArray
<1>4. Current' = Current
  BY DEF Current
<1>5. Slots' = t
  BY <1>1, <1>2, <1>4 DEF Slots
<1> QED BY <1>2, <1>3, <1>4, <1>5

LEMMA CountItemKeeps ==
  ASSUME SwitchInv, CountItem
  PROVE  SwitchInv'
<1>1. WellFormed(arrays, lists) /\ RestOK /\ SlotsFine(Slots, Current.size, op, enabled)
  BY Types DEF SwitchInv
<1>2. /\ op.at = "size" /\ op' = [op EXCEPT !.at = "store"]
      /\ throttled' = throttled /\ scan' = scan /\ commands' = commands
      /\ arrays' = arrays /\ enabled' = enabled /\ Overlapped("add")
      /\ lists' = [lists EXCEPT ![Len(lists)].size = Current.size + 1]
  BY DEF CountItem, Current
<1>3. op' \in OpType /\ op'.at = "store" /\ op'.method = op.method /\ op.method \in Method
  BY <1>1, <1>2 DEF RestOK, OpType, Free
<1>4. commands' \in 0 .. MaxCommands /\ enabled' \subseteq Method
  BY <1>1, <1>2 DEF RestOK
<1>5. /\ Current.size \in Nat /\ Slots \in Seq(Value)
      /\ Current.size + 1 <= Len(Slots) /\ SlotsFine(Slots, Current.size + 1, op', enabled)
  BY <1>1, <1>2, <1>3, Here, SlotsCount
<1>6. Current.size + 1 \in Nat
  BY <1>5
<1>7. /\ WellFormed(arrays', lists') /\ Grows(arrays, lists, arrays', lists')
      /\ Slots' = Slots /\ Current'.size = Current.size + 1
      /\ \A n \in 1 .. Len(lists) :
           /\ lists'[n].array = lists[n].array
           /\ lists'[n].size = IF n = Len(lists) THEN Current.size + 1 ELSE lists[n].size
  BY <1>1, <1>2, <1>5, <1>6, Resize
<1>8. SlotsFine(Slots', Current'.size, op', enabled')
  BY <1>2, <1>5, <1>7
<1>9. Extends(arrays, lists, enabled, arrays', lists', enabled')
  <2>1. \A n \in 1 .. Len(lists) : lists[n].size \in Nat
    BY <1>1, Shapes
  <2>2. \A n \in 1 .. Len(lists) : lists'[n].size >= lists[n].size
    BY <1>6, <1>7, <2>1 DEF Current
  <2> QED BY <1>2, <1>7, <2>2 DEF Extends
<1> QED BY <1>1, <1>2, <1>3, <1>4, <1>7, <1>8, <1>9, CommandStep

LEMMA StoreItemKeeps ==
  ASSUME SwitchInv, StoreItem
  PROVE  SwitchInv'
<1> DEFINE k == Current.size
           t == [Slots EXCEPT ![k] = op.method]
<1>1. WellFormed(arrays, lists) /\ RestOK /\ SlotsFine(Slots, k, op, enabled)
  BY Types DEF SwitchInv
<1>2. /\ op.at = "store" /\ op' = [op EXCEPT !.at = "publish"]
      /\ throttled' = throttled /\ scan' = scan /\ commands' = commands
      /\ lists' = lists /\ enabled' = enabled \union {op.method} /\ Overlapped("add")
      /\ arrays' = [arrays EXCEPT ![Current.array] = t]
  BY DEF StoreItem, Slots
<1>3. op' \in OpType /\ op'.at = "publish" /\ op'.method = op.method /\ op.method \in Method
  BY <1>1, <1>2 DEF RestOK, OpType, Free
<1>4. commands' \in 0 .. MaxCommands /\ enabled' \subseteq Method
  BY <1>1, <1>2, <1>3 DEF RestOK
<1>5. k \in Nat /\ Slots \in Seq(Value) /\ Len(Slots) \in Nat
  BY <1>1, Here
<1>6. k \in 1 .. Len(Slots)
  BY <1>1, <1>2, <1>5 DEF SlotsFine, Filled
<1>7. /\ t \in Seq(Value) /\ Len(t) = Len(Slots)
      /\ \A i \in 1 .. Len(Slots) : t[i] = IF i = k THEN op.method ELSE Slots[i]
  BY <1>3, <1>5, <1>6, ExceptSeq DEF Value
<1> HIDE DEF t
<1>8. Slots[k] = NoMethod /\ SlotsFine(t, k, op', enabled \union {op.method})
  <2>1. Slots[k] = NoMethod
    BY <1>1, <1>2, <1>5, <1>6 DEF SlotsFine, Filled
  <2> HIDE DEF k
  <2>2. SlotsFine(t, k, op', enabled \union {op.method})
    BY <1>1, <1>2, <1>3, <1>5, <1>7, SlotsStore
  <2> QED BY <2>1, <2>2
<1>9. /\ WellFormed(arrays', lists') /\ Grows(arrays, lists, arrays', lists')
      /\ Slots' = t /\ Current' = Current
      /\ \A b \in 1 .. Len(arrays) : arrays'[b] = IF b = Current.array THEN t ELSE arrays[b]
  BY <1>1, <1>2, <1>7, Rewrite
<1>10. SlotsFine(Slots', Current'.size, op', enabled')
  BY <1>2, <1>8, <1>9
<1>11. Extends(arrays, lists, enabled, arrays', lists', enabled')
  <2>1. \A n \in 1 .. Len(lists) : lists[n].size \in Nat
    BY <1>1, Shapes
  <2>2. ASSUME NEW a \in 1 .. Len(arrays), NEW p \in 1 .. Len(arrays[a])
        PROVE  arrays'[a][p] = arrays[a][p] \/ (arrays[a][p] = NoMethod /\ arrays'[a][p] \in enabled')
    <3>1. CASE a = Current.array
      <4>1. arrays[a] = Slots /\ arrays'[a] = t /\ p \in 1 .. Len(Slots)
        BY <1>9, <3>1 DEF Slots
      <4> QED BY <1>2, <1>7, <1>8, <4>1
    <3>2. CASE a # Current.array
      BY <1>9, <3>2
    <3> QED BY <3>1, <3>2
  <2> QED BY <1>2, <2>1, <2>2 DEF Extends
<1> QED BY <1>1, <1>2, <1>3, <1>4, <1>9, <1>10, <1>11, CommandStep

LEMMA PublishDistinctKeeps ==
  ASSUME SwitchInv, PublishDistinct
  PROVE  SwitchInv'
<1> DEFINE k == Current.size
           u == Distinct(SubSeq(Slots, 1, k))
           r == [array |-> Len(arrays) + 1, size |-> Len(u)]
<1>1. WellFormed(arrays, lists) /\ RestOK /\ SlotsFine(Slots, k, op, enabled)
  BY Types DEF SwitchInv
<1>2. /\ op.at = "publish" /\ op' = NoOp
      /\ throttled' = throttled /\ scan' = scan /\ commands' = commands
      /\ enabled' = enabled /\ Overlapped("add")
      /\ arrays' = Append(arrays, u) /\ lists' = Append(lists, r)
  BY DEF PublishDistinct
<1>3. op' \in OpType /\ op'.at = "free"
  BY <1>2 DEF NoOp, OpType, Value
<1>4. commands' \in 0 .. MaxCommands /\ enabled' \subseteq Method
  BY <1>1, <1>2 DEF RestOK
<1>5. u \in Seq(Value) /\ SlotsFine(u, Len(u), NoOp, enabled)
  <2>1. Slots \in Seq(Value) /\ k \in Nat
    BY <1>1, Here
  <2> HIDE DEF k
  <2> QED BY <1>1, <1>2, <2>1, SlotsPublish
<1>6. Len(u) \in Nat /\ Len(arrays) \in Nat /\ Len(lists) \in Nat
  BY <1>1, <1>5, Here, LenProperties
<1>7. r \in ListRecord /\ r.array = Len(arrays) + 1 /\ r.size = Len(u)
  BY <1>6 DEF ListRecord
<1> HIDE DEF u, r
<1>8. /\ WellFormed(arrays', lists) /\ Grows(arrays, lists, arrays', lists)
      /\ Len(arrays') = Len(arrays) + 1 /\ arrays'[Len(arrays) + 1] = u
      /\ \A b \in 1 .. Len(arrays) : arrays'[b] = arrays[b]
  <2>1. WellFormed(arrays', lists) /\ Grows(arrays, lists, arrays', lists)
    BY <1>1, <1>2, <1>5, AddArray
  <2>2. Len(arrays') = Len(arrays) + 1 /\ arrays'[Len(arrays) + 1] = u
    BY <1>1, <1>2, <1>5, AddArray
  <2>3. \A b \in 1 .. Len(arrays) : arrays'[b] = arrays[b]
    BY <1>1, <1>2, <1>5, AppendProperties DEF WellFormed, Array, Value
  <2> QED BY <2>1, <2>2, <2>3
<1>9. /\ lists' \in Seq(ListRecord) /\ Len(lists') = Len(lists) + 1
      /\ lists'[Len(lists) + 1] = r /\ \A n \in 1 .. Len(lists) : lists'[n] = lists[n]
  <2>1. lists \in Seq(ListRecord)
    BY <1>1 DEF WellFormed
  <2> QED BY <1>2, <1>7, <2>1, AppendProperties
<1>10. r.array \in 1 .. Len(arrays') /\ r.size <= Len(arrays'[r.array])
  BY <1>6, <1>7, <1>8
<1>11. WellFormed(arrays', lists') /\ Grows(arrays', lists, arrays', lists')
  BY <1>8, <1>9, <1>10, AddList
<1>12. Grows(arrays, lists, arrays', lists')
  BY <1>8, <1>11 DEF Grows
<1>13. Current' = r /\ Slots' = u
  BY <1>7, <1>8, <1>9 DEF Current, Slots
<1>14. SlotsFine(Slots', Current'.size, op', enabled')
  BY <1>2, <1>5, <1>7, <1>13
<1>15. Extends(arrays, lists, enabled, arrays', lists', enabled')
  <2>1. \A n \in 1 .. Len(lists) : lists[n].size \in Nat
    BY <1>1, Shapes
  <2> QED BY <1>2, <1>8, <1>9, <2>1 DEF Extends
<1> QED BY <1>1, <1>2, <1>3, <1>4, <1>11, <1>12, <1>14, <1>15, CommandStep

LEMMA CountDownKeeps ==
  ASSUME SwitchInv, CountDown
  PROVE  SwitchInv'
<1>1. WellFormed(arrays, lists) /\ RestOK /\ SlotsFine(Slots, Current.size, op, enabled)
  BY Types DEF SwitchInv
<1>2. /\ op.at = "del" /\ op.method \in Items /\ op' = [op EXCEPT !.at = "shift"]
      /\ throttled' = throttled /\ scan' = scan /\ commands' = commands
      /\ arrays' = arrays /\ enabled' = enabled /\ Overlapped("del")
      /\ lists' = [lists EXCEPT ![Len(lists)].size = Current.size - 1]
  BY DEF CountDown, Current
<1>3. op' \in OpType /\ op'.at = "shift" /\ op'.method = op.method /\ op.method \in Method
  BY <1>1, <1>2 DEF RestOK, OpType, Free
<1>4. commands' \in 0 .. MaxCommands /\ enabled' \subseteq Method
  BY <1>1, <1>2 DEF RestOK
<1>5. op.method \in enabled
  BY <1>1, <1>2 DEF SlotsFine, Filled, Items
<1>6. Current.size \in Nat /\ Slots \in Seq(Value) /\ Current.size <= Len(Slots) /\ Len(Slots) \in Nat
  BY <1>1, Here
<1>7. Current.size - 1 \in Nat /\ SlotsFine(Slots, Current.size - 1, op', enabled)
  BY <1>1, <1>2, <1>3, <1>5, <1>6, SlotsDown
<1>8. Current.size - 1 <= Len(Slots)
  BY <1>6
<1>9. /\ WellFormed(arrays', lists') /\ Grows(arrays, lists, arrays', lists')
      /\ Slots' = Slots /\ Current'.size = Current.size - 1
      /\ \A n \in 1 .. Len(lists) : lists'[n].array = lists[n].array
  BY <1>1, <1>2, <1>7, <1>8, Resize
<1>10. SlotsFine(Slots', Current'.size, op', enabled')
  BY <1>2, <1>7, <1>9
<1> QED BY <1>1, <1>2, <1>3, <1>4, <1>9, <1>10, CommandStep

LEMMA ShiftKeeps ==
  ASSUME SwitchInv, Shift
  PROVE  SwitchInv'
<1> DEFINE k == Current.size
           g == CHOOSE i \in 1 .. k + 1 : Slots[i] = op.method
           u == [i \in 1 .. Len(Slots) |-> IF i >= g /\ i <= k THEN Slots[i + 1] ELSE Slots[i]]
<1>1. WellFormed(arrays, lists) /\ RestOK /\ SlotsFine(Slots, k, op, enabled)
  BY Types DEF SwitchInv
<1>2. /\ op.at = "shift" /\ op' = [op EXCEPT !.at = "clear"]
      /\ throttled' = throttled /\ scan' = scan /\ commands' = commands
      /\ lists' = lists /\ enabled' = enabled \ {op.method} /\ Overlapped("del")
      /\ arrays' = [arrays EXCEPT ![Current.array] = u]
  BY DEF Shift
<1>3. op' \in OpType /\ op'.at = "clear" /\ op'.method = op.method /\ op.method \in Method
  BY <1>1, <1>2 DEF RestOK, OpType, Free
<1>4. commands' \in 0 .. MaxCommands /\ enabled' \subseteq Method
  BY <1>1, <1>2 DEF RestOK
<1>5. Slots \in Seq(Value) /\ k \in Nat
  BY <1>1, Here
<1>6. /\ u \in Seq(Value) /\ Len(u) = Len(Slots)
      /\ SlotsFine(u, k, op', enabled \ {op.method})
  <2>1. PlaceOf(op.method, Slots, k, g)
    BY DEF PlaceOf
  <2>2. Shifted(Slots, k, g, u)
    BY DEF Shifted
  <2> HIDE DEF k, g, u
  <2>3. SlotsFine(u, k, op', enabled \ {op.method})
    BY <1>1, <1>2, <1>3, <1>5, <2>1, <2>2, SlotsShift
  <2>4. k + 1 <= Len(Slots)
    BY <1>1, <1>2, <1>5, LenProperties DEF SlotsFine, Filled
  <2> QED BY <1>5, <2>2, <2>3, <2>4, ShiftShape
<1> HIDE DEF u
<1>7. /\ WellFormed(arrays', lists') /\ Grows(arrays, lists, arrays', lists')
      /\ Slots' = u /\ Current' = Current
  BY <1>1, <1>2, <1>6, Rewrite
<1>8. SlotsFine(Slots', Current'.size, op', enabled')
  BY <1>2, <1>6, <1>7
<1> QED BY <1>1, <1>2, <1>3, <1>4, <1>7, <1>8, CommandStep

LEMMA ClearSlotKeeps ==
  ASSUME SwitchInv, ClearSlot
  PROVE  SwitchInv'
<1> DEFINE k == Current.size
           u == [Slots EXCEPT ![k + 1] = NoMethod]
<1>1. WellFormed(arrays, lists) /\ RestOK /\ SlotsFine(Slots, k, op, enabled)
  BY Types DEF SwitchInv
<1>2. /\ op.at = "clear" /\ op' = NoOp
      /\ throttled' = throttled /\ scan' = scan /\ commands' = commands
      /\ lists' = lists /\ enabled' = enabled /\ Overlapped("del")
      /\ arrays' = [arrays EXCEPT ![Current.array] = u]
  BY DEF ClearSlot, Slots
<1>3. op' \in OpType /\ op'.at = "free"
  BY <1>2 DEF NoOp, OpType, Value
<1>4. commands' \in 0 .. MaxCommands /\ enabled' \subseteq Method
  BY <1>1, <1>2 DEF RestOK
<1>5. k \in Nat /\ Slots \in Seq(Value) /\ Len(Slots) \in Nat
  BY <1>1, Here
<1>6. k + 1 \in 1 .. Len(Slots)
  BY <1>1, <1>2, <1>5 DEF SlotsFine, Filled
<1>7. /\ u \in Seq(Value) /\ Len(u) = Len(Slots)
      /\ \A i \in 1 .. Len(Slots) : u[i] = IF i = k + 1 THEN NoMethod ELSE Slots[i]
  BY <1>5, <1>6, ExceptSeq DEF Value
<1> HIDE DEF u
<1>8. SlotsFine(u, k, NoOp, enabled)
  <2> HIDE DEF k
  <2> QED BY <1>1, <1>2, <1>5, <1>7, SlotsClear
<1>9. /\ WellFormed(arrays', lists') /\ Grows(arrays, lists, arrays', lists')
      /\ Slots' = u /\ Current' = Current
  BY <1>1, <1>2, <1>7, Rewrite
<1>10. SlotsFine(Slots', Current'.size, op', enabled')
  BY <1>2, <1>8, <1>9
<1> QED BY <1>1, <1>2, <1>3, <1>4, <1>9, <1>10, CommandStep
-----------------------------------------------------------------------------
\* The steps that leave the list alone.
LEMMA CheckStep ==
  ASSUME SwitchInv, NEW c \in Caller, NEW s \in CheckType, NEW w \in OverlapType,
         scan' = [scan EXCEPT ![c] = s], seen' = [seen EXCEPT ![c] = w],
         ScanFine(s, w, arrays, lists, enabled), AnswerFine(s, w),
         UNCHANGED <<throttled, arrays, lists, op, commands, enabled>>
  PROVE  SwitchInv'
<1>1. WellFormed(arrays, lists) /\ RestOK
  BY Types DEF SwitchInv
<1>2. /\ WellFormed(arrays', lists') /\ SlotsFine(Slots', Current'.size, op', enabled')
      /\ Free' = Free
  BY DEF SwitchInv, Slots, Current, Free
<1>3. SwitchTypeOK'
  <2>1. RestOK'
    BY <1>1, <1>2 DEF RestOK
  <2>2. (WellFormed(arrays, lists) => (SwitchTypeOK <=> RestOK))'
    BY Types, PTL
  <2> QED BY <1>2, <2>1, <2>2
<1>4. ASSUME NEW d \in Caller
      PROVE  /\ ScanFine(scan'[d], seen'[d], arrays', lists', enabled')
             /\ AnswerFine(scan'[d], seen'[d])
  <2>1. scan'[d] = (IF d = c THEN s ELSE scan[d]) /\ seen'[d] = (IF d = c THEN w ELSE seen[d])
    BY <1>1 DEF RestOK
  <2>2. ScanFine(scan[d], seen[d], arrays, lists, enabled) /\ AnswerFine(scan[d], seen[d])
    BY DEF SwitchInv
  <2> QED BY <2>1, <2>2
<1> QED BY <1>2, <1>3, <1>4 DEF SwitchInv

LEMMA ScanFromKeeps ==
  ASSUME SwitchInv, NEW c \in Caller, NEW m \in Method, ScanFrom(c, m)
  PROVE  SwitchInv'
<1> DEFINE s == [NoScan EXCEPT !.method = m, !.list = Len(lists),
                               !.at = IF Current.size = 0 THEN "no" ELSE "array"]
           w == [is |-> {Standing(m)},
                 with |-> IF Free THEN {}
                          ELSE IF op.at \in {"del", "shift", "clear"} THEN {"del"}
                          ELSE {"add"}]
<1>1. WellFormed(arrays, lists) /\ RestOK /\ SlotsFine(Slots, Current.size, op, enabled)
  BY Types DEF SwitchInv
<1>2. /\ scan' = [scan EXCEPT ![c] = s] /\ seen' = [seen EXCEPT ![c] = w]
      /\ UNCHANGED <<throttled, arrays, lists, op, commands, enabled>>
  BY DEF ScanFrom
<1>3. /\ Len(lists) \in Nat /\ Len(lists) \in 1 .. Len(lists)
      /\ Current = lists[Len(lists)] /\ Slots = arrays[Current.array]
      /\ Current.size \in Nat /\ Current.size <= Len(Slots) /\ Len(Slots) \in Nat
  BY <1>1, Here
<1>4. /\ s.method = m /\ s.list = Len(lists)
      /\ s.at = IF Current.size = 0 THEN "no" ELSE "array"
  BY DEF NoScan
<1>5. s \in CheckType
  BY <1>3 DEF NoScan, CheckType, Value
<1>6. /\ w \in OverlapType /\ w.is = {IF m \in enabled THEN "on" ELSE "off"}
      /\ "del" \notin w.with => op.at \notin {"del", "shift", "clear"}
  BY DEF Standing, OverlapType, Free
<1> HIDE DEF s, w
<1>7. ASSUME "del" \notin w.with
      PROVE  /\ OnlyOf(Slots, enabled)
             /\ m \in enabled => \E p \in 1 .. Current.size : Has(Slots, p, m)
  <2>1. Filled(Current.size, op.at) \in {Current.size, Current.size - 1} /\ op.at # "clear"
    BY <1>6, <1>7 DEF Filled
  <2>2. OnlyOf(Slots, enabled)
    BY <1>1, <1>3, <2>1 DEF SlotsFine, OnlyOf
  <2>3. ASSUME m \in enabled PROVE \E p \in 1 .. Current.size : Has(Slots, p, m)
    <3>1. PICK p \in 1 .. Filled(Current.size, op.at) : m = Slots[p]
      BY <1>1, <2>3 DEF SlotsFine
    <3>2. p \in 1 .. Current.size /\ p \in 1 .. Len(Slots)
      BY <1>3, <2>1
    <3> QED BY <3>1, <3>2 DEF Has
  <2> QED BY <2>2, <2>3
<1>8. ScanFine(s, w, arrays, lists, enabled)
  <2> SUFFICES ASSUME s.at \in {"array", "size", "slot"}
               PROVE  ScanFine(s, w, arrays, lists, enabled)
    BY DEF ScanFine
  <2>1. s.at = "array"
    BY <1>4
  <2>2. "del" \notin w.with /\ "off" \notin w.is => Ahead(s, arrays, lists)
    <3> SUFFICES ASSUME "del" \notin w.with, "off" \notin w.is PROVE Ahead(s, arrays, lists)
      OBVIOUS
    <3>1. \E p \in 1 .. Current.size : Has(Slots, p, m)
      BY <1>6, <1>7
    <3> QED BY <1>3, <1>4, <2>1, <3>1 DEF Ahead
  <2> QED BY <1>3, <1>4, <1>6, <1>7, <2>1, <2>2 DEF ScanFine
<1>9. AnswerFine(s, w)
  <2>1. s.at = "no" /\ "del" \notin w.with => "off" \in w.is
    BY <1>3, <1>4, <1>6, <1>7 DEF Has
  <2>2. s.at \in {"no", "array"}
    BY <1>4
  <2> QED BY <2>1, <2>2 DEF AnswerFine
<1> QED BY <1>2, <1>5, <1>6, <1>8, <1>9, CheckStep

LEMMA LoadArrayKeeps ==
  ASSUME SwitchInv, NEW c \in Caller, LoadArray(c)
  PROVE  SwitchInv'
<1> DEFINE a == lists[scan[c].list].array
           s == [scan[c] EXCEPT !.at = "size", !.array = a]
<1>1. WellFormed(arrays, lists) /\ RestOK /\ ScanFine(scan[c], seen[c], arrays, lists, enabled)
  BY Types DEF SwitchInv
<1>2. scan[c] \in CheckType /\ seen[c] \in OverlapType /\ scan[c].at = "array"
  BY <1>1 DEF RestOK, LoadArray
<1>3. /\ scan' = [scan EXCEPT ![c] = s] /\ seen' = [seen EXCEPT ![c] = seen[c]]
      /\ UNCHANGED <<throttled, arrays, lists, op, commands, enabled>>
  BY <1>1 DEF LoadArray, RestOK
<1>4. scan[c].list \in 1 .. Len(lists)
  BY <1>1, <1>2 DEF ScanFine
<1>5. a \in 1 .. Len(arrays) /\ Len(arrays) \in Nat
  BY <1>1, <1>4, Shapes
<1>6. s \in CheckType
  <2>1. a \in Nat
    BY <1>5
  <2> HIDE DEF a
  <2> QED BY <1>2, <2>1 DEF CheckType
<1>7. s.at = "size" /\ s.array = a /\ s.list = scan[c].list /\ s.method = scan[c].method
  BY <1>2 DEF CheckType
<1> HIDE DEF s
<1>8. Ahead(scan[c], arrays, lists) => Ahead(s, arrays, lists)
  BY <1>2, <1>7 DEF Ahead
<1>9. ScanFine(s, seen[c], arrays, lists, enabled)
  BY <1>1, <1>2, <1>4, <1>5, <1>7, <1>8 DEF ScanFine
<1>10. AnswerFine(s, seen[c])
  BY <1>7 DEF AnswerFine
<1> QED BY <1>2, <1>3, <1>6, <1>9, <1>10, CheckStep

LEMMA LoadSizeKeeps ==
  ASSUME SwitchInv, NEW c \in Caller, LoadSize(c)
  PROVE  SwitchInv'
<1> DEFINE n == lists[scan[c].list].size
           x == scan[c].array
           s == [scan[c] EXCEPT !.count = n, !.next = 1,
                   !.at = IF n > Len(arrays[x]) THEN "throws" ELSE "slot"]
<1>1. WellFormed(arrays, lists) /\ RestOK /\ ScanFine(scan[c], seen[c], arrays, lists, enabled)
  BY Types DEF SwitchInv
<1>2. scan[c] \in CheckType /\ seen[c] \in OverlapType /\ scan[c].at = "size"
  BY <1>1 DEF RestOK, LoadSize
<1>3. /\ scan' = [scan EXCEPT ![c] = s] /\ seen' = [seen EXCEPT ![c] = seen[c]]
      /\ UNCHANGED <<throttled, arrays, lists, op, commands, enabled>>
  BY <1>1 DEF LoadSize, RestOK
<1>4. scan[c].list \in 1 .. Len(lists) /\ x \in 1 .. Len(arrays)
  BY <1>1, <1>2 DEF ScanFine
<1>5. n \in Nat /\ n <= Len(arrays[lists[scan[c].list].array]) /\ Len(arrays[x]) \in Nat
  BY <1>1, <1>4, Shapes
<1>6. s \in CheckType
  <2> DEFINE at == IF n > Len(arrays[x]) THEN "throws" ELSE "slot"
  <2>1. at \in {"throws", "slot"} /\ n \in Nat
    BY <1>5
  <2>2. s = [scan[c] EXCEPT !.count = n, !.next = 1, !.at = at]
    OBVIOUS
  <2> HIDE DEF at, n, s
  <2> QED BY <1>2, <2>1, <2>2 DEF CheckType
<1>7. /\ s.array = x /\ s.list = scan[c].list /\ s.method = scan[c].method
      /\ s.count = n /\ s.next = 1
      /\ s.at = IF n > Len(arrays[x]) THEN "throws" ELSE "slot"
  BY <1>2 DEF CheckType
<1> HIDE DEF s
<1>8. Ahead(scan[c], arrays, lists) => Ahead(s, arrays, lists)
  BY <1>2, <1>7 DEF Ahead
<1>9. ScanFine(s, seen[c], arrays, lists, enabled)
  <2> SUFFICES ASSUME s.at = "slot" PROVE ScanFine(s, seen[c], arrays, lists, enabled)
    BY <1>7 DEF ScanFine
  <2>1. s.count <= Len(arrays[s.array]) /\ s.next > 0
    BY <1>5, <1>7
  <2> QED BY <1>1, <1>2, <1>4, <1>7, <1>8, <2>1 DEF ScanFine
<1>10. AnswerFine(s, seen[c])
  <2>1. s.at = "throws" => "add" \in seen[c].with
    BY <1>1, <1>2, <1>5, <1>7 DEF ScanFine
  <2> QED BY <1>7, <2>1 DEF AnswerFine
<1> QED BY <1>2, <1>3, <1>6, <1>9, <1>10, CheckStep

LEMMA ReadSlotKeeps ==
  ASSUME SwitchInv, NEW c \in Caller, ReadSlot(c)
  PROVE  SwitchInv'
<1> DEFINE o == scan[c]
           s == IF o.next > o.count THEN [o EXCEPT !.at = "no"]
                ELSE IF arrays[o.array][o.next] = o.method THEN [o EXCEPT !.at = "yes"]
                ELSE [o EXCEPT !.next = @ + 1]
<1>1. WellFormed(arrays, lists) /\ RestOK /\ ScanFine(o, seen[c], arrays, lists, enabled)
  BY Types DEF SwitchInv
<1>2. o \in CheckType /\ seen[c] \in OverlapType /\ o.at = "slot"
  BY <1>1 DEF RestOK, ReadSlot
<1>3. /\ scan' = [scan EXCEPT ![c] = s] /\ seen' = [seen EXCEPT ![c] = seen[c]]
      /\ UNCHANGED <<throttled, arrays, lists, op, commands, enabled>>
  <2>1. seen' = seen /\ UNCHANGED <<throttled, arrays, lists, op, commands, enabled>>
    BY DEF ReadSlot
  <2>2. seen \in [Caller -> OverlapType]
    BY <1>1 DEF RestOK
  <2>3. scan' = [scan EXCEPT ![c] = s]
    BY DEF ReadSlot
  <2> QED BY <2>1, <2>2, <2>3
<1>4. /\ o.next \in Nat /\ o.count \in Nat /\ o.next > 0 /\ o.count <= Len(arrays[o.array])
      /\ o.array \in 1 .. Len(arrays) /\ o.method \in Method
  BY <1>1, <1>2 DEF ScanFine, CheckType
<1>5. Len(arrays[o.array]) \in Nat
  BY <1>1, <1>4, Shapes
<1>6. s \in CheckType
  BY <1>2, <1>4 DEF CheckType
<1>7. CASE o.next > o.count
  <2>1. s.at = "no"
    BY <1>2, <1>7 DEF CheckType
  <2>2. "del" \notin seen[c].with => "off" \in seen[c].is
    BY <1>1, <1>2, <1>4, <1>7 DEF ScanFine, Ahead
  <2>3. ScanFine(s, seen[c], arrays, lists, enabled) /\ AnswerFine(s, seen[c])
    <3> HIDE DEF s
    <3> QED BY <2>1, <2>2 DEF ScanFine, AnswerFine
  <2> QED BY <1>2, <1>3, <1>6, <2>3, CheckStep
<1>8. CASE o.next <= o.count /\ arrays[o.array][o.next] = o.method
  <2>1. s.at = "yes"
    BY <1>2, <1>4, <1>8 DEF CheckType
  <2>2. "del" \notin seen[c].with => "on" \in seen[c].is
    <3> SUFFICES ASSUME "del" \notin seen[c].with PROVE "on" \in seen[c].is
      OBVIOUS
    <3>1. OnlyOf(arrays[o.array], enabled) /\ (IF o.method \in enabled THEN "on" ELSE "off") \in seen[c].is
      BY <1>1, <1>2 DEF ScanFine
    <3>2. o.method \in enabled
      BY <1>4, <1>5, <1>8, <3>1 DEF OnlyOf
    <3> QED BY <3>1, <3>2
  <2>3. ScanFine(s, seen[c], arrays, lists, enabled) /\ AnswerFine(s, seen[c])
    <3> HIDE DEF s
    <3> QED BY <2>1, <2>2 DEF ScanFine, AnswerFine
  <2> QED BY <1>2, <1>3, <1>6, <2>3, CheckStep
<1>9. CASE o.next <= o.count /\ arrays[o.array][o.next] # o.method
  <2>1. /\ s.at = "slot" /\ s.next = o.next + 1 /\ s.count = o.count
        /\ s.array = o.array /\ s.list = o.list /\ s.method = o.method
    BY <1>2, <1>4, <1>9 DEF CheckType
  <2> HIDE DEF s
  <2>2. Ahead(o, arrays, lists) => Ahead(s, arrays, lists)
    <3> SUFFICES ASSUME Ahead(o, arrays, lists)
                 PROVE  \E p \in s.next .. s.count : Has(arrays[s.array], p, s.method)
      BY <2>1 DEF Ahead
    <3>1. PICK p \in o.next .. o.count : Has(arrays[o.array], p, o.method)
      BY <1>2 DEF Ahead
    <3>2. p # o.next
      BY <1>9, <3>1 DEF Has
    <3>3. p \in s.next .. s.count
      BY <1>4, <2>1, <3>2
    <3> QED BY <2>1, <3>1, <3>3
  <2>3. ScanFine(s, seen[c], arrays, lists, enabled)
    BY <1>1, <1>2, <1>4, <2>1, <2>2 DEF ScanFine
  <2>4. AnswerFine(s, seen[c])
    BY <2>1 DEF AnswerFine
  <2> QED BY <1>2, <1>3, <1>6, <2>3, <2>4, CheckStep
<1> QED BY <1>4, <1>7, <1>8, <1>9

LEMMA ForgetKeeps ==
  ASSUME SwitchInv, NEW c \in Caller, Forget(c)
  PROVE  SwitchInv'
<1>1. /\ scan' = [scan EXCEPT ![c] = NoScan] /\ seen' = [seen EXCEPT ![c] = NoneSeen]
      /\ UNCHANGED <<throttled, arrays, lists, op, commands, enabled>>
  BY DEF Forget
<1>2. NoScan \in CheckType /\ NoneSeen \in OverlapType /\ NoScan.at = "none"
  BY DEF NoScan, NoneSeen, CheckType, OverlapType, Value
<1>3. ScanFine(NoScan, NoneSeen, arrays, lists, enabled) /\ AnswerFine(NoScan, NoneSeen)
  BY <1>2 DEF ScanFine, AnswerFine
<1> QED BY <1>1, <1>2, <1>3, CheckStep

LEMMA QuietKeeps ==
  ASSUME SwitchInv, throttled' \subseteq Method,
         UNCHANGED <<arrays, lists, op, commands, scan, enabled, seen>>
  PROVE  SwitchInv'
BY DEF SwitchInv, SwitchTypeOK, Free, Current, Slots
-----------------------------------------------------------------------------
LEMMA InvInit == SwitchInit => SwitchInv
<1> SUFFICES ASSUME SwitchInit PROVE SwitchInv
  OBVIOUS
<1>1. /\ throttled = {} /\ enabled = {} /\ op = NoOp /\ commands = 0
      /\ scan = [c \in Caller |-> NoScan] /\ seen = [c \in Caller |-> NoneSeen]
      /\ arrays = << <<>> >> /\ lists = << [array |-> 1, size |-> 0] >>
  BY DEF SwitchInit
<1>2. /\ arrays \in Seq(Array) /\ Len(arrays) = 1 /\ arrays[1] = <<>> /\ Len(arrays[1]) = 0
      /\ lists \in Seq(ListRecord) /\ Len(lists) = 1
      /\ lists[1].array = 1 /\ lists[1].size = 0
  BY <1>1 DEF Array, ListRecord
<1>3. WellFormed(arrays, lists)
  BY <1>2 DEF WellFormed
<1>4. SwitchTypeOK
  <2>1. NoScan \in CheckType /\ NoneSeen \in OverlapType /\ NoOp \in OpType /\ NoOp.at = "free"
    BY DEF NoScan, NoneSeen, NoOp, CheckType, OverlapType, OpType, Value
  <2>2. RestOK
    BY <1>1, <2>1 DEF RestOK, Free
  <2> QED BY <1>3, <2>2, Types
<1>5. SlotsFine(Slots, Current.size, op, enabled)
  <2>1. Current.size = 0 /\ Len(Slots) = 0 /\ op.at = "free"
    BY <1>1, <1>2 DEF Current, Slots, NoOp
  <2> QED BY <1>1, <2>1 DEF SlotsFine, Filled
<1>6. ASSUME NEW c \in Caller
      PROVE  ScanFine(scan[c], seen[c], arrays, lists, enabled) /\ AnswerFine(scan[c], seen[c])
  <2>1. scan[c].at = "none"
    BY <1>1 DEF NoScan
  <2> QED BY <2>1 DEF ScanFine, AnswerFine
<1> QED BY <1>3, <1>4, <1>5, <1>6 DEF SwitchInv

LEMMA InLockKeeps == SwitchInv /\ InLock => SwitchInv'
BY MakeRoomKeeps, CountItemKeeps, StoreItemKeeps, PublishDistinctKeeps,
   NotThereKeeps, CountDownKeeps, ShiftKeeps, ClearSlotKeeps DEF InLock

LEMMA ScanKeeps ==
  ASSUME SwitchInv, NEW c \in Caller,
         ScanStep(c) \/ \E m \in Method : SaveResponseMethodEnable(c, m)
  PROVE  SwitchInv'
BY LoadArrayKeeps, LoadSizeKeeps, ReadSlotKeeps, ForgetKeeps, ScanFromKeeps
   DEF ScanStep, SaveResponseMethodEnable

LEMMA InvStep == SwitchInv /\ [SwitchNext]_switchVars => SwitchInv'
<1> SUFFICES ASSUME SwitchInv, [SwitchNext]_switchVars PROVE SwitchInv'
  OBVIOUS
<1>1. throttled \subseteq Method
  BY DEF SwitchInv, SwitchTypeOK
<1>2. ASSUME NEW m \in Method, Command(m) PROVE SwitchInv'
  <2>1. CASE Throttle(m) \/ Unthrottle(m)
    BY <1>1, <2>1, QuietKeeps DEF Throttle, Unthrottle
  <2>2. CASE AddSaveResponseMethod(m) \/ DelSaveResponseMethod(m)
    BY <2>2, StartKeeps
  <2> QED BY <1>2, <2>1, <2>2 DEF Command
<1>3. CASE InLock
  BY <1>3, InLockKeeps
<1>4. ASSUME NEW c \in Caller,
             ScanStep(c) \/ \E m \in Method : SaveResponseMethodEnable(c, m)
      PROVE  SwitchInv'
  BY <1>4, ScanKeeps
<1>5. CASE UNCHANGED switchVars
  BY <1>1, <1>5, QuietKeeps DEF switchVars
<1> QED BY <1>2, <1>3, <1>4, <1>5 DEF SwitchNext

LEMMA Invariant == SwitchSpec => []SwitchInv
<1>1. SwitchInit => SwitchInv
  BY InvInit
<1>2. SwitchInv /\ [SwitchNext]_switchVars => SwitchInv'
  BY InvStep
<1> QED BY <1>1, <1>2, PTL DEF SwitchSpec

\* The state has its types: among them, every list has an array and every
\* command in the lock is about a method.
THEOREM SwitchesTyped == SwitchSpec => []SwitchTypeOK
<1>1. SwitchInv => SwitchTypeOK
  BY DEF SwitchInv
<1> QED BY <1>1, Invariant, PTL

\* Between commands the list is what they have asked for, each method once:
\* Add's counting before storing, Distinct, and Remove's shifting leave nothing
\* behind and lose nothing.
THEOREM ListIsAsCommanded == SwitchSpec => []LastCommandWins
<1>1. SwitchInv => LastCommandWins
  BY DEF SwitchInv, LastCommandWins, SlotsFine, Filled, Free, Items
<1> QED BY <1>1, Invariant, PTL

\* A check that takes no lock throws only if an Add overlaps with it, and gives
\* an answer that was never right only if a Del does.
THEOREM ChecksAreSound == SwitchSpec => []CheckSound
<1>1. SwitchInv => CheckSound
  BY DEF SwitchInv, AnswerFine, CheckSound, ThrowsUnderAddOnly, WrongUnderDelOnly
<1> QED BY <1>1, Invariant, PTL
=============================================================================
