------------------------ MODULE TrackAndChangeProofs ------------------------
(***************************************************************************)
(* Theorems about the load of confdb-track-and-change.c, for any number of *)
(* children, any length of a burst, any choice of keys and any number of   *)
(* values of a key.                                                        *)
(***************************************************************************)
EXTENDS TrackAndChange, FiniteSetTheorems, SequenceTheorems, TLAPS

------------------------------------------------------------------------------
(***************************************************************************)
(* Values that wrap.                                                       *)
(***************************************************************************)

LEMMA Remainder ==
  ASSUME NEW n \in Nat \ {0}, NEW q \in Int, NEW r \in 0 .. n - 1
  PROVE  ((n * q) + r) % n = r
OBVIOUS

LEMMA Reduced ==
  ASSUME NEW n \in Nat \ {0}, NEW v \in 0 .. n - 1
  PROVE  (v + 0) % n = v
<1>1. ((n * 0) + v) % n = v
  BY Remainder
<1>2. QED
  BY <1>1

(* One more is one more, before and after the reduction.                      *)
LEMMA OneMore ==
  ASSUME NEW n \in Nat \ {0}, NEW x \in Nat
  PROVE  ((x % n) + 1) % n = (x + 1) % n
<1> DEFINE q == x \div n
           r == x % n
<1>1. x = (n * q) + r /\ q \in Int /\ r \in 0 .. n - 1
  OBVIOUS
<1> HIDE DEF q, r
<1>2. x + 1 = (n * q) + (r + 1) /\ x + 1 = (n * (q + 1)) + ((r + 1) - n)
  BY <1>1
<1>3. CASE r + 1 < n
  <2>1. (x + 1) % n = r + 1
    BY <1>1, <1>2, <1>3, Remainder
  <2>2. ((n * 0) + (r + 1)) % n = r + 1
    BY <1>1, <1>3, Remainder
  <2>3. QED
    BY <2>1, <2>2, <1>1 DEF r
<1>4. CASE r + 1 = n
  <2>1. ((n * (q + 1)) + 0) % n = 0
    BY <1>1, Remainder
  <2>2. ((n * 1) + 0) % n = 0
    BY <1>1, Remainder
  <2>3. (x + 1) % n = 0 /\ (r + 1) % n = 0
    BY <2>1, <2>2, <1>1, <1>2, <1>4
  <2>4. QED
    BY <2>3 DEF r
<1>5. QED
  BY <1>1, <1>3, <1>4

(* Whole rounds do not show.                                                  *)
LEMMA Rounds ==
  ASSUME NEW n \in Nat \ {0}, NEW q \in Nat, NEW x \in Nat
  PROVE  ((n * q) + x) % n = x % n
<1> DEFINE p == x \div n
           r == x % n
<1>1. x = (n * p) + r /\ p \in Int /\ r \in 0 .. n - 1
  OBVIOUS
<1> HIDE DEF p, r
<1>2. ((n * (q + p)) + r) % n = r
  BY <1>1, Remainder
<1>3. (n * q) + x = (n * (q + p)) + r
  BY <1>1
<1>4. QED
  BY <1>2, <1>3 DEF r

(* A value is s plus m changes: so it is after one more change, with the      *)
(* number of changes reduced.                                                 *)
LEMMA ChangeFollows ==
  ASSUME NEW n \in Nat \ {0}, NEW s \in Nat, NEW m \in Nat
  PROVE  (((s + m) % n) + 1) % n = (s + ((m + 1) % n)) % n
<1> DEFINE x == m + 1
           q == x \div n
           r == x % n
<1>1. x = (n * q) + r /\ q \in Nat /\ r \in Nat
  OBVIOUS
<1>2. s + m \in Nat /\ (s + m) + 1 = s + x
  OBVIOUS
<1>3. (((s + m) % n) + 1) % n = ((s + m) + 1) % n
  BY <1>2, OneMore, Zenon
<1> HIDE DEF x, q, r
<1>4. s + r \in Nat /\ s + x = (n * q) + (s + r)
  BY <1>1
<1>5. ((n * q) + (s + r)) % n = (s + r) % n
  BY <1>1, <1>4, Rounds
<1>6. (((s + m) % n) + 1) % n = (s + r) % n
  BY <1>2, <1>3, <1>4, <1>5
<1>7. QED
  BY <1>6 DEF r, x

(* A change moves a value within its range, and to another one.               *)
LEMMA ChangeMoves ==
  ASSUME NEW n \in Nat \ {0, 1}, NEW v \in Nat
  PROVE  /\ (v + 1) % n \in Nat /\ (v + 1) % n < n
         /\ v < n => (v + 1) % n # v
<1>1. (v + 1) % n \in Nat /\ (v + 1) % n < n
  OBVIOUS
<1>2. ASSUME v + 1 < n PROVE (v + 1) % n # v
  <2>1. ((n * 0) + (v + 1)) % n = v + 1
    BY <1>2, Remainder
  <2>2. QED
    BY <2>1
<1>3. ASSUME v + 1 = n PROVE (v + 1) % n # v
  <2>1. ((n * 1) + 0) % n = 0
    BY Remainder
  <2>2. QED
    BY <2>1, <1>3
<1>4. QED
  BY <1>1, <1>2, <1>3

------------------------------------------------------------------------------
(***************************************************************************)
(* Notifications of a key in a queue.                                      *)
(***************************************************************************)

Notification == [key : AnyKey, value : Nat]
Count(q, k) == Cardinality({j \in DOMAIN q : q[j].key = k})

LEMMA CountIsNat ==
  ASSUME NEW q \in Seq(Notification), NEW k
  PROVE  /\ IsFiniteSet({j \in DOMAIN q : q[j].key = k}) /\ Count(q, k) \in Nat
         /\ Count(<<>>, k) = 0
<1>1. DOMAIN q = 1 .. Len(q) /\ IsFiniteSet(1 .. Len(q))
  BY FS_Interval, LenProperties
<1>2. {j \in DOMAIN q : q[j].key = k} \subseteq 1 .. Len(q)
  BY <1>1
<1>3. IsFiniteSet({j \in DOMAIN q : q[j].key = k})
  BY <1>1, <1>2, FS_Subset
<1>4. {j \in DOMAIN <<>> : <<>>[j].key = k} = {}
  OBVIOUS
<1>5. Cardinality({}) = 0
  BY FS_EmptySet
<1>6. QED
  BY <1>3, <1>4, <1>5, FS_CardinalityType DEF Count

LEMMA CountAppend ==
  ASSUME NEW q \in Seq(Notification), NEW k, NEW n \in Notification
  PROVE  Count(Append(q, n), k) = Count(q, k) + (IF n.key = k THEN 1 ELSE 0)
<1> DEFINE A == {j \in DOMAIN q : q[j].key = k}
           B == {j \in DOMAIN Append(q, n) : Append(q, n)[j].key = k}
<1>1. /\ DOMAIN q = 1 .. Len(q) /\ Len(q) \in Nat
      /\ DOMAIN Append(q, n) = 1 .. Len(q) + 1
      /\ \A j \in 1 .. Len(q) : Append(q, n)[j] = q[j]
      /\ Append(q, n)[Len(q) + 1] = n
  BY AppendProperties, LenProperties
<1>2. IsFiniteSet(A) /\ Cardinality(A) \in Nat
  BY CountIsNat DEF Count
<1>3. CASE n.key = k
  <2>1. B = A \cup {Len(q) + 1} /\ Len(q) + 1 \notin A
    BY <1>1, <1>3
  <2>2. Cardinality(B) = Cardinality(A) + 1
    BY <1>2, <2>1, FS_AddElement
  <2>3. QED
    BY <1>3, <2>2 DEF Count
<1>4. CASE n.key # k
  <2>1. B = A
    BY <1>1, <1>4
  <2>2. Count(Append(q, n), k) = Count(q, k)
    BY <2>1 DEF Count
  <2>3. Count(q, k) \in Nat
    BY CountIsNat
  <2>4. QED
    BY <1>4, <2>2, <2>3
<1>5. QED
  BY <1>3, <1>4

LEMMA CountTail ==
  ASSUME NEW q \in Seq(Notification), NEW k, q # <<>>
  PROVE  Count(q, k) = Count(Tail(q), k) + (IF Head(q).key = k THEN 1 ELSE 0)
<1> DEFINE A == {j \in DOMAIN q : q[j].key = k}
           B == {j \in DOMAIN Tail(q) : Tail(q)[j].key = k}
           R == A \ {1}
           f == [j \in B |-> j + 1]
<1>1. /\ DOMAIN q = 1 .. Len(q) /\ Len(q) \in Nat \ {0}
      /\ DOMAIN Tail(q) = 1 .. Len(q) - 1 /\ Tail(q) \in Seq(Notification)
      /\ \A j \in 1 .. Len(q) - 1 : Tail(q)[j] = q[j + 1]
      /\ Head(q) = q[1]
  BY HeadTailProperties, LenProperties, EmptySeq
<1>2. IsFiniteSet(A) /\ Cardinality(A) \in Nat /\ IsFiniteSet(B)
  BY <1>1, CountIsNat DEF Count
<1> Cardinality(B) \in Nat
  BY <1>2, FS_CardinalityType
<1>3. f \in Bijection(B, R)
  <2>1. \A j \in B : j \in Int /\ f[j] \in R
    BY <1>1
  <2>2. \A i, j \in B : f[i] = f[j] => i = j
    BY <2>1
  <2>3. \A h \in R : \E j \in B : f[j] = h
    <3>1. TAKE h \in R
    <3>2. h \in 2 .. Len(q) /\ q[h].key = k
      BY <1>1
    <3>3. h - 1 \in B /\ (h - 1) + 1 = h
      BY <1>1, <3>2
    <3>4. QED
      BY <3>3
  <2>4. QED
    BY <2>1, <2>2, <2>3 DEF Bijection, Injection, Surjection, IsInjective
<1>4. Cardinality(R) = Cardinality(B)
  BY <1>2, <1>3, FS_Bijection DEF ExistsBijection
<1>5. Cardinality(R) = IF 1 \in A THEN Cardinality(A) - 1 ELSE Cardinality(A)
  BY <1>2, FS_RemoveElement
<1>6. 1 \in A <=> Head(q).key = k
  BY <1>1
<1> HIDE DEF A, B, R
<1>7. Cardinality(A) = Cardinality(B) + (IF Head(q).key = k THEN 1 ELSE 0)
  BY <1>2, <1>4, <1>5, <1>6
<1>8. QED
  BY <1>7 DEF Count, A, B

(* An entry of a key counts.                                                  *)
LEMMA CountEntry ==
  ASSUME NEW q \in Seq(Notification), NEW j \in 1 .. Len(q)
  PROVE  Count(q, q[j].key) > 0
<1>1. j \in {i \in DOMAIN q : q[i].key = q[j].key}
  OBVIOUS
<1>2. Cardinality({i \in DOMAIN q : q[i].key = q[j].key}) # 0
  BY <1>1, CountIsNat, FS_EmptySet
<1>3. Count(q, q[j].key) # 0 /\ Count(q, q[j].key) \in Nat
  BY <1>2, CountIsNat DEF Count
<1>4. QED
  BY <1>3

------------------------------------------------------------------------------
(***************************************************************************)
(* The inductive invariant, child by child.                                *)
(***************************************************************************)

Stage == {"none", "start", "set", "track", "first", "dispatch", "burst", "ended"}
Burst == [key : AnyKey \cup {"none"}, left : Nat, value : Nat]

Shapes ==
  /\ options \in Options
  /\ pc \in [Child -> Stage] /\ at \in [Child -> Nat]
  /\ expected \in [Child -> [AnyKey -> Nat]] /\ refused \in [Child -> [AnyKey -> Nat]]
  /\ store \in [Child -> [AnyKey -> Nat]] /\ made \in [Child -> [AnyKey -> Nat]]
  /\ queue \in [Child -> Seq(Notification)] /\ burst \in [Child -> Burst]
  /\ forked \in 0 .. no_childs
  /\ parent \in {"fork", "sleep", "wait", "signal", "poll", "finished", "dead"}
  /\ reaped \subseteq Child /\ pipes \subseteq Child /\ service \in {"up", "gone"}

(* Notifications of k that the child still has to count: those of the burst   *)
(* being made so far, or what is left of the last one.                        *)
Owed(c, k) == IF burst[c].key = k THEN burst_count - burst[c].left ELSE expected[c][k]

Counted(c, k) ==
  /\ expected[c][k] <= burst_count
  /\ IF refused[c][k] = 0 THEN Count(queue[c], k) = Owed(c, k)
     ELSE Count(queue[c], k) <= Owed(c, k) - refused[c][k]

(* A value is in its range, and the last notification of it is up to date.    *)
Told(c, k) ==
  /\ store[c][k] < Wrap[k]
  /\ \A j \in 1 .. Len(queue[c]) :
       queue[c][j].key = k /\ (\A i \in j + 1 .. Len(queue[c]) : queue[c][i].key # k)
         => queue[c][j].value = store[c][k]

Followed(c, k) ==
  pc[c] \in {"first", "dispatch", "burst"} /\ k \in options.keys /\ (refused[c][k] = 0 \/ k = "uint") =>
    store[c][k] = (Start(c, k) + made[c][k]) % Wrap[k]

(* A burst is made from the newest value, unless a change of it was refused.  *)
Bursting(c) ==
  /\ pc[c] = "burst" <=> burst[c].key # "none"
  /\ burst[c].left <= burst_count
  /\ burst[c].key # "none" /\ refused[c][burst[c].key] = 0 =>
       burst[c].value = store[c][burst[c].key]

(* The start of a child, up to its first change of each key.                  *)
Begun(c) ==
  /\ pc[c] \notin {"first", "dispatch", "burst"} =>
       queue[c] = <<>> /\ expected[c] = Zero /\ refused[c] = Zero /\ made[c] = Zero
  /\ pc[c] \in {"none", "start", "track"} => at[c] = 1
  /\ pc[c] = "set" =>
       /\ at[c] \in 1 .. Len(Keys)
       /\ \A j \in 1 .. at[c] - 1 : store[c][Keys[j]] = Start(c, Keys[j])
  /\ pc[c] = "track" => \A k \in options.keys : store[c][k] = Start(c, k)
  /\ pc[c] = "first" =>
       /\ at[c] \in 1 .. Len(Keys) /\ refused[c] = Zero
       /\ \A j \in at[c] .. Len(Keys) : expected[c][Keys[j]] = 0

ChildRight(c) ==
  /\ \A k \in AnyKey : Counted(c, k) /\ Told(c, k) /\ Followed(c, k)
  /\ Bursting(c) /\ Begun(c)

LoadInv ==
  /\ Shapes
  /\ \A c \in Child : /\ ChildRight(c)
                      /\ c > forked => pc[c] = "none"

------------------------------------------------------------------------------
(***************************************************************************)
(* What the steps are made of.                                             *)
(***************************************************************************)

(* The constants that a command line gives.                                   *)
LEMMA CommandLine ==
  ASSUME options \in Options
  PROVE  /\ burst_count \in Nat \ {0} /\ no_childs \in Nat /\ 1 .. no_childs \subseteq Child
         /\ options.keys \subseteq AnyKey
         /\ \A k \in AnyKey : Wrap[k] \in Nat \ {0, 1}
         /\ \A c \in Child, k \in AnyKey : /\ c \in Nat \ {0} /\ Start(c, k) \in Nat
                                           /\ Start(c, k) < Wrap[k]
<1>1. /\ burst_count \in Nat \ {0} /\ no_childs \in 1 .. MaxChilds /\ MaxChilds \in Nat
      /\ options.keys \subseteq AnyKey
  BY LoadAssumption DEF burst_count, no_childs
<1>2. \A k \in AnyKey : Wrap[k] \in Nat \ {0, 1}
  BY LoadAssumption
<1>3. \A c \in Child : c \in Nat \ {0}
  BY <1>1 DEF Child
<1>4. \A c \in Nat, n \in Nat \ {0, 1} : c % n \in Nat /\ c % n < n
  OBVIOUS
<1>5. 1 .. no_childs \subseteq Child
  BY <1>1 DEF Child
<1>6. \A c \in Child, k \in AnyKey : Start(c, k) \in Nat /\ Start(c, k) < Wrap[k]
  BY <1>2, <1>3, <1>4 DEF Start
<1>7. QED
  BY <1>1, <1>2, <1>3, <1>5, <1>6

(* Keys lists the keys asked for, each of them once.                          *)
LEMMA KeysAre ==
  ASSUME options.keys \subseteq AnyKey
  PROVE  /\ Len(Keys) \in Nat /\ (Keys = <<>> <=> Len(Keys) = 0)
         /\ \A j \in 1 .. Len(Keys) : Keys[j] \in AnyKey
         /\ \A i, j \in 1 .. Len(Keys) : Keys[i] = Keys[j] => i = j
         /\ \A k \in options.keys : \E j \in 1 .. Len(Keys) : Keys[j] = k
<1> DEFINE U == IF "uint" \in options.keys THEN <<"uint">> ELSE <<>>
           S == IF "str" \in options.keys THEN <<"str">> ELSE <<>>
<1>0. /\ \A k \in AnyKey : <<k>> \in Seq(AnyKey) /\ Len(<<k>>) = 1 /\ <<k>>[1] = k
      /\ <<>> \in Seq(AnyKey) /\ Len(<<>>) = 0
      /\ "uint" \in AnyKey /\ "str" \in AnyKey
  BY EmptySeq DEF AnyKey
<1>1. /\ U \in Seq(AnyKey) /\ Len(U) = (IF "uint" \in options.keys THEN 1 ELSE 0)
      /\ "uint" \in options.keys => U[1] = "uint"
  BY <1>0
<1>2. /\ S \in Seq(AnyKey) /\ Len(S) = (IF "str" \in options.keys THEN 1 ELSE 0)
      /\ "str" \in options.keys => S[1] = "str"
  BY <1>0
<1> HIDE DEF U, S
<1>3. /\ U \o S \in Seq(AnyKey) /\ Len(U \o S) = Len(U) + Len(S)
      /\ \A i \in 1 .. Len(U) + Len(S) :
           (U \o S)[i] = IF i <= Len(U) THEN U[i] ELSE S[i - Len(U)]
  BY <1>1, <1>2, ConcatProperties
<1>4. Keys = U \o S
  BY DEF Keys, U, S
<1>5. Len(Keys) = Len(U) + Len(S) /\ Len(U) \in {0, 1} /\ Len(S) \in {0, 1}
  BY <1>1, <1>2, <1>3, <1>4
<1>6. Keys = <<>> <=> Len(Keys) = 0
  BY <1>3, <1>4, EmptySeq
<1>7. \A j \in 1 .. Len(Keys) :
        \/ "uint" \in options.keys /\ j = 1 /\ Keys[j] = "uint"
        \/ "str" \in options.keys /\ j = Len(U) + 1 /\ Keys[j] = "str"
  BY <1>1, <1>2, <1>3, <1>4, <1>5
<1>8. "uint" \in options.keys => 1 \in 1 .. Len(Keys) /\ Keys[1] = "uint"
  BY <1>1, <1>3, <1>4, <1>5
<1>9. "str" \in options.keys => Len(U) + 1 \in 1 .. Len(Keys) /\ Keys[Len(U) + 1] = "str"
  BY <1>2, <1>3, <1>4, <1>5
<1>10. QED
  BY <1>5, <1>6, <1>7, <1>8, <1>9 DEF AnyKey

(* Nothing of child c is changed.                                             *)
Kept(c) ==
  /\ pc'[c] = pc[c] /\ at'[c] = at[c] /\ expected'[c] = expected[c] /\ burst'[c] = burst[c]
  /\ store'[c] = store[c] /\ queue'[c] = queue[c] /\ made'[c] = made[c]
  /\ refused'[c] = refused[c]

LEMMA KeptIsRight ==
  ASSUME NEW c \in Child, ChildRight(c), Kept(c), UNCHANGED options
  PROVE  ChildRight(c)'
<1>1. \A k \in AnyKey : Counted(c, k)' /\ Told(c, k)' /\ Followed(c, k)'
  BY DEF ChildRight, Kept, Counted, Told, Followed, Owed, burst_count, Start
<1>2. Bursting(c)' /\ Begun(c)'
  BY DEF ChildRight, Kept, Bursting, Begun, burst_count, Keys, Start
<1>3. QED
  BY <1>1, <1>2 DEF ChildRight

(* Corosync stores a value: the others keep what they have, a notification is *)
(* queued if the value is another one, and the newest one is up to date.      *)
LEMMA StoreIsTold ==
  ASSUME Shapes, NEW c \in Child, NEW k \in AnyKey, NEW v \in Nat,
         v < Wrap[k], \A x \in AnyKey : Told(c, x), Store(c, k, v)
  PROVE  /\ store' \in [Child -> [AnyKey -> Nat]] /\ queue' \in [Child -> Seq(Notification)]
         /\ made' \in [Child -> [AnyKey -> Nat]]
         /\ \A d \in Child \ {c} : /\ store'[d] = store[d] /\ queue'[d] = queue[d]
                                   /\ made'[d] = made[d]
         /\ store'[c][k] = v /\ made'[c][k] = (made[c][k] + 1) % Wrap[k]
         /\ \A x \in AnyKey \ {k} : store'[c][x] = store[c][x] /\ made'[c][x] = made[c][x]
         /\ \A x \in AnyKey : /\ Told(c, x)'
                              /\ Count(queue'[c], x) = Count(queue[c], x)
                                   + (IF x = k /\ v # store[c][k] THEN 1 ELSE 0)
<1> DEFINE n == [key |-> k, value |-> v]
<1>1. Wrap[k] \in Nat \ {0, 1} /\ n \in Notification /\ queue[c] \in Seq(Notification)
  BY LoadAssumption DEF Notification, Shapes
<1>2. \A m \in Nat : (m + 1) % Wrap[k] \in Nat
  BY <1>1
<1>3. /\ store' = [store EXCEPT ![c][k] = v]
      /\ made' = [made EXCEPT ![c][k] = (@ + 1) % Wrap[k]]
  BY DEF Store
<1>4. /\ store' \in [Child -> [AnyKey -> Nat]] /\ made' \in [Child -> [AnyKey -> Nat]]
      /\ \A d \in Child \ {c} : store'[d] = store[d] /\ made'[d] = made[d]
      /\ store'[c][k] = v /\ made'[c][k] = (made[c][k] + 1) % Wrap[k]
      /\ \A x \in AnyKey \ {k} : store'[c][x] = store[c][x] /\ made'[c][x] = made[c][x]
  BY <1>2, <1>3 DEF Shapes
<1>5. CASE v = store[c][k]
  <2>1. queue' = queue
    BY <1>5 DEF Store
  <2>2. \A x \in AnyKey : store'[c][x] = store[c][x]
    BY <1>4, <1>5
  <2>3. \A x \in AnyKey : Told(c, x)'
    BY <2>1, <2>2 DEF Told
  <2>4. \A x \in AnyKey : Count(queue[c], x) \in Nat
    BY <1>1, CountIsNat
  <2>5. QED
    BY <1>4, <1>5, <2>1, <2>3, <2>4 DEF Shapes
<1>6. CASE v # store[c][k]
  <2>1. queue' = [queue EXCEPT ![c] = Append(@, n)]
    BY <1>6 DEF Store
  <2>2. queue'[c] = Append(queue[c], n) /\ \A d \in Child \ {c} : queue'[d] = queue[d]
    BY <2>1 DEF Shapes
  <2>3. /\ Append(queue[c], n) \in Seq(Notification)
        /\ Len(queue'[c]) = Len(queue[c]) + 1 /\ Len(queue[c]) \in Nat
        /\ \A i \in 1 .. Len(queue[c]) : queue'[c][i] = queue[c][i]
        /\ queue'[c][Len(queue[c]) + 1] = n
    BY <1>1, <2>2, AppendProperties, LenProperties
  <2>4. queue' \in [Child -> Seq(Notification)]
    BY <2>1, <2>3 DEF Shapes
  <2>5. \A x \in AnyKey : Told(c, x)'
    <3>1. SUFFICES ASSUME NEW x \in AnyKey PROVE Told(c, x)'
      OBVIOUS
    <3>2. store'[c][x] < Wrap[x]
      BY <1>4 DEF Told
    <3>3. ASSUME NEW j \in 1 .. Len(queue'[c]), queue'[c][j].key = x,
                 \A i \in j + 1 .. Len(queue'[c]) : queue'[c][i].key # x
          PROVE  queue'[c][j].value = store'[c][x]
      <4>1. CASE j = Len(queue[c]) + 1
        BY <1>4, <2>3, <3>3, <4>1
      <4>2. CASE j # Len(queue[c]) + 1
        <5>1. j \in 1 .. Len(queue[c]) /\ Len(queue[c]) + 1 \in j + 1 .. Len(queue'[c])
          BY <2>3, <4>2
        <5>2. x # k
          BY <2>3, <3>3, <5>1
        <5>3. queue[c][j].key = x /\ \A i \in j + 1 .. Len(queue[c]) : queue[c][i].key # x
          <6>1. queue[c][j].key = x
            BY <2>3, <3>3, <5>1
          <6>2. ASSUME NEW i \in j + 1 .. Len(queue[c]) PROVE queue[c][i].key # x
            <7>1. i \in j + 1 .. Len(queue'[c]) /\ i \in 1 .. Len(queue[c])
              BY <2>3, <5>1
            <7>2. QED
              BY <2>3, <3>3, <7>1
          <6>3. QED
            BY <6>1, <6>2
        <5>4. queue[c][j].value = store[c][x]
          BY <5>1, <5>3 DEF Told
        <5>5. QED
          BY <1>4, <2>3, <5>1, <5>2, <5>4
      <4>3. QED
        BY <4>1, <4>2
    <3>4. QED
      BY <3>2, <3>3 DEF Told
  <2>6. \A x \in AnyKey : Count(queue'[c], x) = Count(queue[c], x) + (IF x = k THEN 1 ELSE 0)
    <3>1. TAKE x \in AnyKey
    <3>2. Count(Append(queue[c], n), x) = Count(queue[c], x) + (IF n.key = x THEN 1 ELSE 0)
      BY <1>1, CountAppend
    <3>3. n.key = x <=> x = k
      OBVIOUS
    <3>4. QED
      BY <2>2, <3>2, <3>3
  <2>7. QED
    BY <1>4, <1>6, <2>2, <2>4, <2>5, <2>6
<1>7. QED
  BY <1>5, <1>6

------------------------------------------------------------------------------
(***************************************************************************)
(* The steps of a child.                                                   *)
(***************************************************************************)

(* What a step of child c leaves.                                             *)
Preserved(c) == Shapes' /\ ChildRight(c)' /\ \A d \in Child \ {c} : Kept(d)

(* A child that is gone is as it was before it was made.                      *)
LEMMA EndIsRight ==
  ASSUME Shapes, NEW c \in Child, ChildRight(c), End(c), UNCHANGED options
  PROVE  Preserved(c)
<1>1. Shapes'
  BY DEF Shapes, End, Goto, Zero, NoBurst, Burst, Stage, parental, no_childs
<1>2. /\ pc'[c] = "ended" /\ at'[c] = 1 /\ expected'[c] = Zero /\ burst'[c] = NoBurst
      /\ queue'[c] = <<>> /\ made'[c] = Zero /\ refused'[c] = Zero /\ store'[c] = store[c]
      /\ \A d \in Child \ {c} : Kept(d)
  BY DEF Shapes, End, Goto, Kept
<1>3. \A k \in AnyKey : k # "none" /\ Zero[k] = 0 /\ Count(<<>>, k) = 0
  BY CountIsNat, EmptySeq DEF AnyKey, Zero
<1>4. burst_count \in Nat /\ UNCHANGED burst_count
  BY CommandLine DEF Shapes, burst_count
<1>5. \A k \in AnyKey : Counted(c, k)'
  BY <1>2, <1>3, <1>4 DEF Counted, Owed, NoBurst
<1>6. \A k \in AnyKey : Told(c, k)'
  BY <1>2 DEF Told, ChildRight
<1>7. (\A k \in AnyKey : Followed(c, k)') /\ Bursting(c)' /\ Begun(c)'
  BY <1>2, <1>4 DEF Followed, Bursting, Begun, NoBurst
<1>8. QED
  BY <1>1, <1>2, <1>5, <1>6, <1>7 DEF Preserved, ChildRight

LEMMA ConnectIsRight ==
  ASSUME Shapes, NEW c \in Child, ChildRight(c), Connect(c), UNCHANGED options
  PROVE  Preserved(c)
<1>1. Shapes'
  BY DEF Shapes, Connect, Goto, Stage, parental, map, no_childs
<1>2. /\ pc[c] = "start" /\ pc'[c] = IF Keys = <<>> THEN "track" ELSE "set"
      /\ UNCHANGED <<at, expected, burst, store, queue, made, refused, Keys, burst_count>>
      /\ \A d \in Child \ {c} : Kept(d)
  BY DEF Shapes, Connect, Goto, Kept, map, Keys, burst_count
<1>3. /\ Len(Keys) \in Nat /\ (Keys = <<>> <=> Len(Keys) = 0)
      /\ Keys = <<>> => options.keys = {}
  BY KeysAre, CommandLine DEF Shapes
<1>4. \A k \in AnyKey : Counted(c, k)' /\ Told(c, k)' /\ Followed(c, k)'
  BY <1>2 DEF ChildRight, Counted, Told, Followed, Owed, Start
<1>5. Bursting(c)'
  BY <1>2 DEF ChildRight, Bursting
<1>6. Begun(c)'
  BY <1>2, <1>3 DEF ChildRight, Begun, Start
<1>7. QED
  BY <1>1, <1>2, <1>4, <1>5, <1>6 DEF Preserved, ChildRight

LEMMA SetKeyIsRight ==
  ASSUME Shapes, NEW c \in Child, ChildRight(c), SetKey(c), UNCHANGED options
  PROVE  Preserved(c)
<1> DEFINE k == Keys[at[c]]
           v == Start(c, k)
<1>1. /\ Len(Keys) \in Nat /\ UNCHANGED <<Keys, burst_count>>
      /\ \A j \in 1 .. Len(Keys) : Keys[j] \in AnyKey
      /\ \A i, j \in 1 .. Len(Keys) : Keys[i] = Keys[j] => i = j
      /\ \A x \in options.keys : \E j \in 1 .. Len(Keys) : Keys[j] = x
  BY KeysAre, CommandLine DEF Shapes, Keys, burst_count
<1>2. at[c] \in 1 .. Len(Keys) /\ k \in AnyKey /\ v \in Nat /\ v < Wrap[k]
  <2>1. at[c] \in 1 .. Len(Keys)
    BY DEF ChildRight, Begun, SetKey
  <2>2. QED
    BY <1>1, <2>1, CommandLine DEF Shapes
<1> HIDE DEF k, v
<1>3. /\ pc[c] = "set" /\ store' = [store EXCEPT ![c][k] = v]
      /\ \/ at[c] < Len(Keys) /\ at' = [at EXCEPT ![c] = @ + 1] /\ UNCHANGED pc
         \/ at[c] >= Len(Keys) /\ at' = [at EXCEPT ![c] = 1] /\ pc' = [pc EXCEPT ![c] = "track"]
  BY <1>2 DEF SetKey, Key, KeyDone, Goto, k, v
<1>4. Shapes'
  <2>1. store' \in [Child -> [AnyKey -> Nat]]
    BY <1>2, <1>3 DEF Shapes
  <2>2. at' \in [Child -> Nat] /\ pc' \in [Child -> Stage]
    <3>1. at \in [Child -> Nat] /\ pc \in [Child -> Stage] /\ "track" \in Stage
      BY DEF Shapes, Stage
    <3>2. 1 \in Nat /\ at[c] + 1 \in Nat
      BY <1>2
    <3>3. QED
      BY <1>3, <3>1, <3>2
  <2>3. QED
    BY <2>1, <2>2 DEF Shapes, SetKey, parental, no_childs
<1>5. /\ \/ at[c] < Len(Keys) /\ at'[c] = at[c] + 1 /\ pc'[c] = "set"
         \/ at[c] = Len(Keys) /\ at'[c] = 1 /\ pc'[c] = "track"
      /\ store'[c][k] = v /\ \A x \in AnyKey \ {k} : store'[c][x] = store[c][x]
      /\ \A d \in Child \ {c} : Kept(d)
      /\ UNCHANGED <<expected, burst, queue, made, refused>>
  BY <1>2, <1>3 DEF Shapes, SetKey, Kept
<1>6. /\ pc[c] = "set" /\ queue[c] = <<>> /\ expected[c] = Zero /\ refused[c] = Zero
      /\ made[c] = Zero /\ burst[c].key = "none"
      /\ \A j \in 1 .. at[c] - 1 : store[c][Keys[j]] = Start(c, Keys[j])
  BY <1>3 DEF ChildRight, Begun, Bursting
<1>7. \A x \in AnyKey : Counted(c, x)'
  BY <1>1, <1>5 DEF ChildRight, Counted, Owed
<1>8. \A x \in AnyKey : Told(c, x)'
  BY <1>2, <1>5, <1>6 DEF ChildRight, Told
<1>9. (\A x \in AnyKey : Followed(c, x)') /\ Bursting(c)'
  BY <1>1, <1>5, <1>6 DEF ChildRight, Followed, Bursting
<1>10. \A j \in 1 .. at[c] : store'[c][Keys[j]] = Start(c, Keys[j])
  BY <1>1, <1>2, <1>5, <1>6 DEF k, v
<1>11. Begun(c)'
  BY <1>1, <1>2, <1>5, <1>6, <1>10 DEF Begun, Start
<1>12. QED
  BY <1>4, <1>5, <1>7, <1>8, <1>9, <1>11 DEF Preserved, ChildRight

(* The child is told of changes from now on, and starts to count them.        *)
LEMMA TrackIsRight ==
  ASSUME Shapes, NEW c \in Child, ChildRight(c), Track(c), UNCHANGED options
  PROVE  Preserved(c)
<1>1. Shapes'
  BY DEF Shapes, Track, Goto, Stage, children, parental, map, no_childs
<1>2. /\ pc[c] = "track" /\ pc'[c] = IF Keys = <<>> THEN "dispatch" ELSE "first"
      /\ UNCHANGED <<at, expected, burst, store, queue, made, refused, Keys, burst_count>>
      /\ \A d \in Child \ {c} : Kept(d)
  BY DEF Shapes, Track, Goto, Kept, children, map, Keys, burst_count
<1>3. /\ Len(Keys) \in Nat /\ (Keys = <<>> <=> Len(Keys) = 0)
      /\ \A j \in 1 .. Len(Keys) : Keys[j] \in AnyKey
      /\ \A k \in AnyKey : Wrap[k] \in Nat \ {0, 1} /\ Zero[k] = 0
  BY KeysAre, CommandLine DEF Shapes, Zero
<1>4. \A k \in AnyKey : Counted(c, k)' /\ Told(c, k)'
  BY <1>2 DEF ChildRight, Counted, Told, Owed
<1>5. \A k \in AnyKey : Followed(c, k)'
  <2>1. TAKE k \in AnyKey
  <2>2. k \in options.keys => store[c][k] = Start(c, k) /\ made[c][k] = 0
    BY <1>2, <1>3 DEF ChildRight, Begun
  <2>3. c \in Nat /\ Start(c, k) = c % Wrap[k] /\ c % Wrap[k] \in 0 .. Wrap[k] - 1
    BY <1>3, CommandLine DEF Shapes, Start
  <2>4. (Start(c, k) + 0) % Wrap[k] = Start(c, k)
    <3>1. Wrap[k] \in Nat \ {0} /\ Start(c, k) \in 0 .. Wrap[k] - 1
      BY <1>3, <2>3
    <3>2. QED
      BY <3>1, Reduced, Zenon
  <2>5. QED
    BY <1>2, <2>2, <2>4 DEF Followed, Start
<1>6. Bursting(c)'
  BY <1>2 DEF ChildRight, Bursting
<1>7. Begun(c)'
  BY <1>2, <1>3 DEF ChildRight, Begun, Start
<1>8. QED
  BY <1>1, <1>2, <1>4, <1>5, <1>6, <1>7 DEF Preserved, ChildRight

LEMMA FirstChangeIsRight ==
  ASSUME Shapes, NEW c \in Child, ChildRight(c), FirstChange(c), UNCHANGED options
  PROVE  Preserved(c)
<1> DEFINE k == Keys[at[c]]
           v == (store[c][k] + 1) % Wrap[k]
<1>1. /\ Len(Keys) \in Nat /\ UNCHANGED <<Keys, burst_count>> /\ burst_count \in Nat \ {0}
      /\ \A j \in 1 .. Len(Keys) : Keys[j] \in AnyKey
      /\ \A i, j \in 1 .. Len(Keys) : Keys[i] = Keys[j] => i = j
  BY KeysAre, CommandLine DEF Shapes, Keys, burst_count
<1>2. at[c] \in 1 .. Len(Keys) /\ k \in AnyKey
  BY <1>1 DEF ChildRight, Begun, FirstChange
<1>3. /\ Wrap[k] \in Nat \ {0, 1} /\ store[c][k] \in Nat /\ store[c][k] < Wrap[k]
      /\ made[c][k] \in Nat /\ Start(c, k) \in Nat
  BY <1>2, CommandLine DEF Shapes, ChildRight, Told
<1>4. v \in Nat /\ v < Wrap[k] /\ v # store[c][k]
  BY <1>3, ChangeMoves
<1>5. (((Start(c, k) + made[c][k]) % Wrap[k]) + 1) % Wrap[k]
         = (Start(c, k) + ((made[c][k] + 1) % Wrap[k])) % Wrap[k]
  BY <1>3, ChangeFollows
<1>6. Store(c, k, v)
  BY DEF FirstChange, Key, inc_str
<1>7. /\ pc[c] = "first" /\ expected' = [expected EXCEPT ![c][k] = 1]
      /\ \/ at[c] < Len(Keys) /\ at' = [at EXCEPT ![c] = @ + 1] /\ UNCHANGED pc
         \/ at[c] >= Len(Keys) /\ at' = [at EXCEPT ![c] = 1] /\ pc' = [pc EXCEPT ![c] = "dispatch"]
      /\ UNCHANGED <<refused, burst>>
  BY <1>2 DEF FirstChange, Key, KeyDone, Goto, Store
<1>8. \A x \in AnyKey : Told(c, x) /\ Counted(c, x) /\ Followed(c, x)
  BY DEF ChildRight
<1>9. /\ refused[c] = Zero /\ expected[c][k] = 0 /\ burst[c].key = "none"
      /\ \A j \in at[c] .. Len(Keys) : expected[c][Keys[j]] = 0
      /\ \A x \in AnyKey : x # "none" /\ refused[c][x] = 0
  BY <1>2, <1>7 DEF ChildRight, Begun, Bursting, Zero, AnyKey
<1> HIDE DEF v
<1>10. /\ store' \in [Child -> [AnyKey -> Nat]] /\ queue' \in [Child -> Seq(Notification)]
       /\ made' \in [Child -> [AnyKey -> Nat]]
       /\ \A d \in Child \ {c} : /\ store'[d] = store[d] /\ queue'[d] = queue[d]
                                 /\ made'[d] = made[d]
       /\ store'[c][k] = v /\ made'[c][k] = (made[c][k] + 1) % Wrap[k]
       /\ \A x \in AnyKey \ {k} : store'[c][x] = store[c][x] /\ made'[c][x] = made[c][x]
       /\ \A x \in AnyKey : /\ Told(c, x)'
                            /\ Count(queue'[c], x) = Count(queue[c], x)
                                 + (IF x = k /\ v # store[c][k] THEN 1 ELSE 0)
  BY <1>2, <1>4, <1>6, <1>8, StoreIsTold
<1> HIDE DEF k
<1>11. Shapes'
  <2>1. at' \in [Child -> Nat] /\ pc' \in [Child -> Stage]
    <3>1. at \in [Child -> Nat] /\ pc \in [Child -> Stage] /\ "dispatch" \in Stage
      BY DEF Shapes, Stage
    <3>2. 1 \in Nat /\ at[c] + 1 \in Nat
      BY <1>2
    <3>3. QED
      BY <1>7, <3>1, <3>2
  <2>2. expected' \in [Child -> [AnyKey -> Nat]]
    BY <1>2, <1>7 DEF Shapes
  <2>3. QED
    BY <1>7, <1>10, <2>1, <2>2 DEF Shapes, FirstChange, parental, no_childs
<1>12. /\ \/ at[c] < Len(Keys) /\ at'[c] = at[c] + 1 /\ pc'[c] = "first"
          \/ at[c] = Len(Keys) /\ at'[c] = 1 /\ pc'[c] = "dispatch"
       /\ expected'[c][k] = 1 /\ \A x \in AnyKey \ {k} : expected'[c][x] = expected[c][x]
       /\ \A d \in Child \ {c} : Kept(d)
  <2>1. /\ \/ at[c] < Len(Keys) /\ at'[c] = at[c] + 1 /\ pc'[c] = "first"
           \/ at[c] = Len(Keys) /\ at'[c] = 1 /\ pc'[c] = "dispatch"
        /\ \A d \in Child \ {c} : at'[d] = at[d] /\ pc'[d] = pc[d]
    BY <1>1, <1>2, <1>7 DEF Shapes
  <2>2. /\ expected'[c][k] = 1 /\ \A x \in AnyKey \ {k} : expected'[c][x] = expected[c][x]
        /\ \A d \in Child \ {c} : expected'[d] = expected[d]
    BY <1>2, <1>7 DEF Shapes
  <2>3. \A d \in Child \ {c} : Kept(d)
    BY <1>7, <1>10, <2>1, <2>2 DEF Kept
  <2>4. QED
    BY <2>1, <2>2, <2>3
<1>13. \A x \in AnyKey : Counted(c, x)'
  <2>1. TAKE x \in AnyKey
  <2>2. Count(queue[c], x) \in Nat /\ Count(queue[c], x) = expected[c][x]
    BY <1>8, <1>9, CountIsNat DEF Shapes, Counted, Owed
  <2>3. Count(queue'[c], x) = expected'[c][x] /\ expected'[c][x] <= burst_count
    <3>1. expected[c][x] \in Nat /\ expected[c][x] <= burst_count
      BY <1>8 DEF Shapes, Counted
    <3>2. CASE x = k
      BY <1>1, <1>4, <1>9, <1>10, <1>12, <2>2, <3>2
    <3>3. CASE x # k
      BY <1>10, <1>12, <2>2, <3>1, <3>3
    <3>4. QED
      BY <3>2, <3>3
  <2>4. QED
    BY <1>1, <1>7, <1>9, <2>3 DEF Counted, Owed
<1>14. \A x \in AnyKey : Followed(c, x)'
  <2>1. TAKE x \in AnyKey
  <2>2. CASE x = k
    BY <1>5, <1>7, <1>8, <1>9, <1>10, <2>2 DEF Followed, Start, v
  <2>3. CASE x # k
    BY <1>7, <1>8, <1>9, <1>10, <2>3 DEF Followed, Start
  <2>4. QED
    BY <2>2, <2>3
<1>15. Bursting(c)'
  BY <1>1, <1>7, <1>9, <1>12 DEF ChildRight, Bursting
<1>16. Begun(c)'
  BY <1>1, <1>2, <1>7, <1>9, <1>12 DEF Begun, k
<1>17. QED
  BY <1>10, <1>11, <1>12, <1>13, <1>14, <1>15, <1>16 DEF Preserved, ChildRight

(* A notification is taken: only the last one that is under way, which is up  *)
(* to date, starts a burst, and none after a refused change.                  *)
LEMMA NotifyIsRight ==
  ASSUME Shapes, NEW c \in Child, ChildRight(c), Notify(c), UNCHANGED options
  PROVE  Preserved(c)
<1> DEFINE q == queue[c]
           k == Head(q).key
           left == expected[c][k] - 1
<1>1. burst_count \in Nat \ {0} /\ UNCHANGED burst_count
  BY CommandLine DEF Shapes, burst_count
<1>2. /\ q \in Seq(Notification) /\ q # <<>> /\ Len(q) \in Nat \ {0}
      /\ Tail(q) \in Seq(Notification) /\ Len(Tail(q)) = Len(q) - 1
      /\ \A i \in 1 .. Len(q) - 1 : Tail(q)[i] = q[i + 1]
      /\ Head(q) = q[1] /\ Head(q) \in Notification
  BY HeadTailProperties, EmptySeq DEF Shapes, Notify
<1>3. k \in AnyKey /\ Head(q).value \in Nat
  BY <1>2 DEF Notification
<1>4. /\ pc[c] = "dispatch" /\ expected' = [expected EXCEPT ![c][k] = left]
      /\ queue' = [queue EXCEPT ![c] = Tail(@)]
      /\ \/ /\ left = 0 /\ pc' = [pc EXCEPT ![c] = "burst"]
            /\ burst' = [burst EXCEPT ![c] =
                            [key |-> k, left |-> burst_count, value |-> Head(q).value]]
         \/ left # 0 /\ UNCHANGED <<pc, burst>>
      /\ UNCHANGED <<at, store, made, refused>>
  BY DEF Notify, Goto
<1>5. /\ \A x \in AnyKey : Told(c, x) /\ Counted(c, x) /\ Followed(c, x) /\ x # "none"
      /\ burst[c].key = "none"
  BY <1>4 DEF ChildRight, Bursting, AnyKey
<1>6. \A x \in AnyKey : /\ Count(q, x) \in Nat /\ Count(Tail(q), x) \in Nat
                        /\ Count(q, x) = Count(Tail(q), x) + (IF k = x THEN 1 ELSE 0)
                        /\ expected[c][x] \in Nat /\ refused[c][x] \in Nat
  BY <1>2, CountTail, CountIsNat DEF Shapes
<1>7. \A x \in AnyKey : /\ expected[c][x] <= burst_count
                        /\ refused[c][x] = 0 => Count(q, x) = expected[c][x]
                        /\ refused[c][x] # 0 => Count(q, x) <= expected[c][x] - refused[c][x]
  BY <1>5 DEF Counted, Owed
<1>8. /\ left \in Nat /\ left <= burst_count
      /\ left = 0 => refused[c][k] = 0 /\ Count(Tail(q), k) = 0
  <2>1. /\ expected[c][k] \in Nat /\ refused[c][k] \in Nat /\ Count(Tail(q), k) \in Nat
        /\ Count(q, k) = Count(Tail(q), k) + 1
    BY <1>3, <1>6
  <2>2. /\ expected[c][k] <= burst_count
        /\ refused[c][k] = 0 => Count(q, k) = expected[c][k]
        /\ refused[c][k] # 0 => Count(q, k) <= expected[c][k] - refused[c][k]
    BY <1>3, <1>7
  <2> HIDE DEF k, q
  <2>3. expected[c][k] >= 1 /\ left = expected[c][k] - 1
    BY <2>1, <2>2
  <2>4. left = 0 => refused[c][k] = 0
    BY <2>1, <2>2, <2>3
  <2>5. QED
    BY <1>1, <2>1, <2>2, <2>3, <2>4
<1>9. left = 0 => Head(q).value = store[c][k]
  <2>1. SUFFICES ASSUME left = 0 PROVE Head(q).value = store[c][k]
    OBVIOUS
  <2>2. ASSUME NEW i \in 2 .. Len(q), q[i].key = k PROVE FALSE
    <3>1. i - 1 \in 1 .. Len(Tail(q)) /\ Tail(q)[i - 1] = q[i]
      BY <1>2
    <3>2. Count(Tail(q), Tail(q)[i - 1].key) > 0
      BY <1>2, <3>1, CountEntry
    <3>3. QED
      BY <1>8, <2>1, <2>2, <3>1, <3>2
  <2>3. 1 \in 1 .. Len(q) /\ q[1].key = k /\ \A i \in 1 + 1 .. Len(q) : q[i].key # k
    BY <1>2, <2>2
  <2>4. q[1].value = store[c][k]
    BY <1>3, <1>5, <2>3 DEF Told
  <2>5. QED
    BY <1>2, <2>4
<1> HIDE DEF left, k
<1>10. Shapes'
  <2>1. expected' \in [Child -> [AnyKey -> Nat]] /\ queue' \in [Child -> Seq(Notification)]
    BY <1>2, <1>3, <1>4, <1>8 DEF Shapes
  <2>2. pc' \in [Child -> Stage] /\ burst' \in [Child -> Burst]
    <3>1. pc \in [Child -> Stage] /\ "burst" \in Stage /\ burst \in [Child -> Burst]
      BY DEF Shapes, Stage
    <3>2. [key |-> k, left |-> burst_count, value |-> Head(q).value] \in Burst
      BY <1>1, <1>3 DEF Burst
    <3>3. QED
      BY <1>4, <3>1, <3>2
  <2>3. QED
    BY <1>4, <2>1, <2>2 DEF Shapes, Notify, parental, no_childs
<1>11. /\ expected'[c][k] = left /\ \A x \in AnyKey \ {k} : expected'[c][x] = expected[c][x]
       /\ queue'[c] = Tail(q)
       /\ \/ /\ left = 0 /\ pc'[c] = "burst" /\ burst'[c].key = k
             /\ burst'[c].left = burst_count /\ burst'[c].value = Head(q).value
          \/ left # 0 /\ pc'[c] = "dispatch" /\ burst'[c] = burst[c]
  BY <1>3, <1>4 DEF Shapes
<1>12. \A d \in Child \ {c} : Kept(d)
  BY <1>4 DEF Shapes, Kept
<1>13. \A x \in AnyKey : Counted(c, x)'
  <2>1. TAKE x \in AnyKey
  <2>2. Owed(c, x)' = expected'[c][x]
    BY <1>1, <1>5, <1>8, <1>11 DEF Owed
  <2>3. /\ expected[c][x] \in Nat /\ refused[c][x] \in Nat /\ Count(Tail(q), x) \in Nat
        /\ Count(q, x) = Count(Tail(q), x) + (IF k = x THEN 1 ELSE 0)
        /\ expected[c][x] <= burst_count
        /\ refused[c][x] = 0 => Count(q, x) = expected[c][x]
        /\ refused[c][x] # 0 => Count(q, x) <= expected[c][x] - refused[c][x]
    BY <1>6, <1>7
  <2>4. CASE x = k
    <3>1. expected'[c][x] = expected[c][x] - 1 /\ Count(q, x) = Count(Tail(q), x) + 1
      BY <1>11, <2>3, <2>4 DEF left
    <3>2. /\ expected'[c][x] <= burst_count
          /\ refused[c][x] = 0 => Count(Tail(q), x) = expected'[c][x]
          /\ refused[c][x] # 0 => Count(Tail(q), x) <= expected'[c][x] - refused[c][x]
      BY <1>1, <2>3, <3>1
    <3>3. QED
      BY <1>1, <1>4, <1>11, <2>2, <3>2 DEF Counted
  <2>5. CASE x # k
    <3>1. expected'[c][x] = expected[c][x] /\ Count(q, x) = Count(Tail(q), x)
      BY <1>11, <2>3, <2>5
    <3>2. QED
      BY <1>1, <1>4, <1>11, <2>2, <2>3, <3>1 DEF Counted
  <2>6. QED
    BY <2>4, <2>5
<1>14. \A x \in AnyKey : Told(c, x)'
  <2>1. SUFFICES ASSUME NEW x \in AnyKey, NEW j \in 1 .. Len(Tail(q)), Tail(q)[j].key = x,
                        \A i \in j + 1 .. Len(Tail(q)) : Tail(q)[i].key # x
                 PROVE  Tail(q)[j].value = store[c][x]
    BY <1>4, <1>5, <1>11 DEF Told
  <2>2. j + 1 \in 1 .. Len(q) /\ q[j + 1] = Tail(q)[j]
    BY <1>2
  <2>3. ASSUME NEW i \in (j + 1) + 1 .. Len(q) PROVE q[i].key # x
    <3>1. i - 1 \in j + 1 .. Len(Tail(q)) /\ i - 1 \in 1 .. Len(q) - 1 /\ (i - 1) + 1 = i
      BY <1>2
    <3>2. Tail(q)[i - 1] = q[i]
      BY <1>2, <3>1
    <3>3. QED
      BY <2>1, <3>1, <3>2
  <2>4. QED
    BY <1>5, <2>1, <2>2, <2>3 DEF Told
<1>15. \A x \in AnyKey : Followed(c, x)'
  BY <1>4, <1>5 DEF Followed, Start
<1>16. Bursting(c)' /\ Begun(c)'
  <2>1. Bursting(c)'
    BY <1>1, <1>3, <1>4, <1>5, <1>9, <1>11 DEF ChildRight, Bursting
  <2>2. Begun(c)'
    BY <1>11 DEF Begun
  <2>3. QED
    BY <2>1, <2>2
<1>17. QED
  BY <1>10, <1>12, <1>13, <1>14, <1>15, <1>16 DEF Preserved, ChildRight

LEMMA BurstChangeIsRight ==
  ASSUME Shapes, NEW c \in Child, ChildRight(c), BurstChange(c), UNCHANGED options
  PROVE  Preserved(c)
<1> DEFINE k == burst[c].key
           base == IF k = "uint" THEN store[c][k] ELSE burst[c].value
           v == (base + 1) % Wrap[k]
<1>1. /\ burst_count \in Nat \ {0} /\ UNCHANGED burst_count
      /\ burst \in [Child -> Burst] /\ burst[c] \in Burst
  BY CommandLine DEF Shapes, burst_count
<1>2. /\ k \in AnyKey /\ burst[c].left \in Nat /\ burst[c].left > 0 /\ burst[c].left <= burst_count
      /\ pc[c] = "burst" /\ base \in Nat
      /\ refused[c][k] = 0 => base = store[c][k]
  <2>1. pc[c] = "burst" /\ burst[c].left > 0 /\ k # "none"
    BY DEF BurstChange, InBurst, ChildRight, Bursting
  <2>2. k \in AnyKey /\ burst[c].left \in Nat /\ burst[c].value \in Nat
    BY <1>1, <2>1 DEF Burst
  <2>3. QED
    BY <2>1, <2>2 DEF Shapes, ChildRight, Bursting
<1>3. /\ Wrap[k] \in Nat \ {0, 1} /\ store[c][k] \in Nat /\ store[c][k] < Wrap[k]
      /\ made[c][k] \in Nat /\ Start(c, k) \in Nat /\ refused[c][k] \in Nat
  BY <1>2, CommandLine DEF Shapes, ChildRight, Told
<1>4. v \in Nat /\ v < Wrap[k] /\ (base = store[c][k] => v # store[c][k])
  BY <1>2, <1>3, ChangeMoves
<1>5. (((Start(c, k) + made[c][k]) % Wrap[k]) + 1) % Wrap[k]
         = (Start(c, k) + ((made[c][k] + 1) % Wrap[k])) % Wrap[k]
  BY <1>3, ChangeFollows
<1>6. /\ Store(c, k, v) /\ burst' = [burst EXCEPT ![c].left = @ - 1, ![c].value = v]
      /\ UNCHANGED <<pc, at, expected, refused>>
  BY DEF BurstChange, NextValue, inc_str, Store
<1>7. \A x \in AnyKey : Told(c, x) /\ Counted(c, x) /\ Followed(c, x)
  BY DEF ChildRight
<1> HIDE DEF v
<1>8. /\ store' \in [Child -> [AnyKey -> Nat]] /\ queue' \in [Child -> Seq(Notification)]
      /\ made' \in [Child -> [AnyKey -> Nat]]
      /\ \A d \in Child \ {c} : /\ store'[d] = store[d] /\ queue'[d] = queue[d]
                                /\ made'[d] = made[d]
      /\ store'[c][k] = v /\ made'[c][k] = (made[c][k] + 1) % Wrap[k]
      /\ \A x \in AnyKey \ {k} : store'[c][x] = store[c][x] /\ made'[c][x] = made[c][x]
      /\ \A x \in AnyKey : /\ Told(c, x)'
                           /\ Count(queue'[c], x) = Count(queue[c], x)
                                + (IF x = k /\ v # store[c][k] THEN 1 ELSE 0)
  BY <1>2, <1>4, <1>6, <1>7, StoreIsTold
<1> HIDE DEF k, base
<1>9. /\ burst'[c].key = k /\ burst'[c].left = burst[c].left - 1 /\ burst'[c].value = v
      /\ burst'[c] \in Burst /\ burst[c].key = k
      /\ \A d \in Child \ {c} : burst'[d] = burst[d]
  <2>1. burst[c].left - 1 \in Nat
    BY <1>2
  <2>2. QED
    BY <1>1, <1>4, <1>6, <2>1 DEF Burst, k
<1>10. Shapes'
  <2>1. burst' \in [Child -> Burst]
    BY <1>1, <1>6, <1>9
  <2>2. QED
    BY <1>6, <1>8, <2>1 DEF Shapes, BurstChange, parental, no_childs
<1>11. \A d \in Child \ {c} : Kept(d)
  BY <1>6, <1>8, <1>9 DEF Kept
<1>12. \A x \in AnyKey : Counted(c, x)'
  <2>1. TAKE x \in AnyKey
  <2>2. /\ expected[c][x] <= burst_count /\ Count(queue[c], x) \in Nat
        /\ refused[c][x] = 0 => Count(queue[c], x) = Owed(c, x)
        /\ refused[c][x] # 0 => Count(queue[c], x) <= Owed(c, x) - refused[c][x]
    BY <1>7, CountIsNat DEF Counted, Shapes
  <2>3. CASE x = k
    <3>1. Owed(c, x) = burst_count - burst[c].left /\ Owed(c, x)' = Owed(c, x) + 1
      BY <1>1, <1>2, <1>9, <2>3 DEF Owed
    <3>2. /\ Count(queue'[c], x) <= Count(queue[c], x) + 1 /\ Count(queue'[c], x) \in Nat
          /\ refused[c][x] = 0 => Count(queue'[c], x) = Count(queue[c], x) + 1
      BY <1>2, <1>4, <1>8, <2>2, <2>3
    <3>3. Owed(c, x) \in Int /\ refused[c][x] \in Nat
      BY <1>1, <1>2, <1>3, <2>3, <3>1
    <3>4. /\ refused[c][x] = 0 => Count(queue'[c], x) = Owed(c, x)'
          /\ refused[c][x] # 0 => Count(queue'[c], x) <= Owed(c, x)' - refused[c][x]
      BY <2>2, <3>1, <3>2, <3>3
    <3>5. QED
      BY <1>1, <1>6, <2>2, <3>4 DEF Counted
  <2>4. CASE x # k
    <3>1. Owed(c, x)' = Owed(c, x) /\ Count(queue'[c], x) = Count(queue[c], x)
      BY <1>1, <1>6, <1>8, <1>9, <2>2, <2>4 DEF Owed
    <3>2. QED
      BY <1>1, <1>6, <2>2, <3>1 DEF Counted
  <2>5. QED
    BY <2>3, <2>4
<1>13. \A x \in AnyKey : Followed(c, x)'
  <2>1. TAKE x \in AnyKey
  <2>2. CASE x = k
    <3>1. refused[c][k] = 0 \/ k = "uint" => v = (store[c][k] + 1) % Wrap[k]
      BY <1>2 DEF v, base
    <3>2. QED
      BY <1>2, <1>5, <1>6, <1>7, <1>8, <2>2, <3>1 DEF Followed, Start
  <2>3. CASE x # k
    BY <1>6, <1>7, <1>8, <2>3 DEF Followed, Start
  <2>4. QED
    BY <2>2, <2>3
<1>14. Bursting(c)'
  <2>1. burst'[c].left <= burst_count /\ k # "none" /\ pc'[c] = "burst"
    BY <1>1, <1>2, <1>6, <1>9 DEF AnyKey
  <2>2. burst'[c].value = store'[c][k]
    BY <1>8, <1>9
  <2>3. QED
    BY <1>1, <1>9, <2>1, <2>2 DEF Bursting
<1>15. Begun(c)'
  BY <1>2, <1>6 DEF Begun
<1>16. QED
  BY <1>8, <1>10, <1>11, <1>12, <1>13, <1>14, <1>15 DEF Preserved, ChildRight

(* A refused change will not be notified: the count of its key is now too     *)
(* high, and stays so.                                                        *)
LEMMA BurstRefusedIsRight ==
  ASSUME Shapes, NEW c \in Child, ChildRight(c), BurstRefused(c), UNCHANGED options
  PROVE  Preserved(c)
<1> DEFINE k == burst[c].key
           v == NextValue(c)
<1>1. /\ burst_count \in Nat \ {0} /\ UNCHANGED burst_count
      /\ burst \in [Child -> Burst] /\ burst[c] \in Burst
  BY CommandLine DEF Shapes, burst_count
<1>2. /\ k \in AnyKey /\ burst[c].left \in Nat /\ burst[c].left > 0 /\ burst[c].left <= burst_count
      /\ pc[c] = "burst" /\ burst[c].value \in Nat
  <2>1. pc[c] = "burst" /\ burst[c].left > 0 /\ k # "none"
    BY DEF BurstRefused, InBurst, ChildRight, Bursting
  <2>2. QED
    BY <1>1, <2>1 DEF Burst, ChildRight, Bursting
<1>3. v \in Nat /\ refused[c][k] \in Nat
  <2>1. Wrap[k] \in Nat \ {0, 1} /\ store[c][k] \in Nat
    BY <1>2, CommandLine DEF Shapes
  <2>2. \A x \in Nat : (x + 1) % Wrap[k] \in Nat
    BY <2>1
  <2>3. QED
    BY <1>2, <2>1, <2>2 DEF NextValue, inc_str, Shapes
<1>4. /\ burst' = [burst EXCEPT ![c].left = @ - 1, ![c].value = v]
      /\ refused' = [refused EXCEPT ![c][k] = @ + 1]
      /\ UNCHANGED <<pc, at, expected, store, queue, made>>
  BY DEF BurstRefused
<1> HIDE DEF v, k
<1>5. /\ burst'[c].key = k /\ burst'[c].left = burst[c].left - 1
      /\ burst'[c] \in Burst /\ burst[c].key = k
      /\ \A d \in Child \ {c} : burst'[d] = burst[d]
  <2>1. burst[c].left - 1 \in Nat
    BY <1>2
  <2>2. QED
    BY <1>1, <1>3, <1>4, <2>1 DEF Burst, k
<1>6. /\ refused'[c][k] = refused[c][k] + 1
      /\ \A x \in AnyKey \ {k} : refused'[c][x] = refused[c][x]
      /\ \A d \in Child \ {c} : refused'[d] = refused[d]
  BY <1>2, <1>4 DEF Shapes
<1>7. Shapes'
  <2>1. burst' \in [Child -> Burst]
    BY <1>1, <1>4, <1>5
  <2>2. refused' \in [Child -> [AnyKey -> Nat]]
    BY <1>2, <1>3, <1>4 DEF Shapes
  <2>3. QED
    BY <1>4, <2>1, <2>2 DEF Shapes, BurstRefused, parental, no_childs
<1>8. \A d \in Child \ {c} : Kept(d)
  BY <1>4, <1>5, <1>6 DEF Kept
<1>9. \A x \in AnyKey : Told(c, x) /\ Counted(c, x) /\ Followed(c, x)
  BY DEF ChildRight
<1>10. \A x \in AnyKey : Counted(c, x)'
  <2>1. TAKE x \in AnyKey
  <2>2. /\ expected[c][x] <= burst_count /\ Count(queue[c], x) \in Nat
        /\ refused[c][x] = 0 => Count(queue[c], x) = Owed(c, x)
        /\ refused[c][x] # 0 => Count(queue[c], x) <= Owed(c, x) - refused[c][x]
    BY <1>9, CountIsNat DEF Counted, Shapes
  <2>3. CASE x = k
    <3>1. Owed(c, x) = burst_count - burst[c].left /\ Owed(c, x)' = Owed(c, x) + 1
      BY <1>1, <1>2, <1>5, <2>3 DEF Owed
    <3>2. Owed(c, x) \in Int /\ refused[c][x] \in Nat /\ refused'[c][x] = refused[c][x] + 1
      BY <1>1, <1>2, <1>3, <1>6, <2>3, <3>1
    <3>3. refused'[c][x] # 0 /\ Count(queue[c], x) <= Owed(c, x)' - refused'[c][x]
      BY <2>2, <3>1, <3>2
    <3>4. QED
      BY <1>1, <1>4, <2>2, <3>3 DEF Counted
  <2>4. CASE x # k
    <3>1. Owed(c, x)' = Owed(c, x) /\ refused'[c][x] = refused[c][x]
      BY <1>1, <1>4, <1>5, <1>6, <2>2, <2>4 DEF Owed
    <3>2. QED
      BY <1>1, <1>4, <2>2, <3>1 DEF Counted
  <2>5. QED
    BY <2>3, <2>4
<1>11. \A x \in AnyKey : Told(c, x)'
  BY <1>4, <1>9 DEF Told
<1>12. \A x \in AnyKey : Followed(c, x)'
  BY <1>3, <1>4, <1>6, <1>9 DEF Followed, Start
<1>13. Bursting(c)'
  <2>1. burst'[c].left <= burst_count /\ k # "none" /\ pc'[c] = "burst"
    BY <1>1, <1>2, <1>4, <1>5 DEF AnyKey
  <2>2. refused'[c][k] # 0
    BY <1>3, <1>6
  <2>3. QED
    BY <1>1, <1>5, <2>1, <2>2 DEF Bursting
<1>14. Begun(c)'
  BY <1>2, <1>4 DEF Begun
<1>15. QED
  BY <1>7, <1>8, <1>10, <1>11, <1>12, <1>13, <1>14 DEF Preserved, ChildRight

LEMMA BurstEndsIsRight ==
  ASSUME Shapes, NEW c \in Child, ChildRight(c), BurstEnds(c), UNCHANGED options
  PROVE  Preserved(c)
<1> DEFINE k == burst[c].key
<1>1. burst_count \in Nat \ {0} /\ UNCHANGED burst_count
  BY CommandLine DEF Shapes, burst_count
<1>2. k \in AnyKey /\ burst[c].left = 0 /\ pc[c] = "burst"
  BY DEF BurstEnds, ChildRight, Bursting, Shapes, Burst
<1>3. /\ burst' = [burst EXCEPT ![c] = NoBurst] /\ pc' = [pc EXCEPT ![c] = "dispatch"]
      /\ expected' = [expected EXCEPT ![c][k] = burst_count]
      /\ UNCHANGED <<at, store, queue, made, refused>>
  BY DEF BurstEnds, Goto, map
<1> HIDE DEF k
<1>4. Shapes'
  <2>1. expected' \in [Child -> [AnyKey -> Nat]]
    BY <1>1, <1>2, <1>3 DEF Shapes
  <2>2. burst' \in [Child -> Burst] /\ pc' \in [Child -> Stage]
    <3>1. NoBurst \in Burst /\ "dispatch" \in Stage
      BY DEF NoBurst, Burst, Stage
    <3>2. QED
      BY <1>3, <3>1 DEF Shapes
  <2>3. QED
    BY <1>3, <2>1, <2>2 DEF Shapes, BurstEnds, parental, no_childs
<1>5. /\ expected'[c][k] = burst_count /\ pc'[c] = "dispatch" /\ burst'[c] = NoBurst
      /\ \A x \in AnyKey \ {k} : expected'[c][x] = expected[c][x]
      /\ \A d \in Child \ {c} : Kept(d)
  BY <1>2, <1>3 DEF Shapes, Kept
<1>6. \A x \in AnyKey : /\ Told(c, x) /\ Counted(c, x) /\ Followed(c, x)
                        /\ x # "none" /\ burst[c].key = k
  BY DEF ChildRight, AnyKey, k
<1>7. \A x \in AnyKey : Counted(c, x)'
  <2>1. TAKE x \in AnyKey
  <2>2. Owed(c, x)' = expected'[c][x]
    BY <1>5, <1>6 DEF Owed, NoBurst
  <2>3. Owed(c, x) = expected'[c][x] /\ expected'[c][x] <= burst_count
    BY <1>1, <1>2, <1>5, <1>6 DEF Owed, Counted
  <2>4. QED
    BY <1>1, <1>3, <1>6, <2>2, <2>3 DEF Counted
<1>8. \A x \in AnyKey : Told(c, x)' /\ Followed(c, x)'
  BY <1>2, <1>3, <1>6 DEF Told, Followed, Start
<1>9. Bursting(c)' /\ Begun(c)'
  BY <1>1, <1>5 DEF Bursting, Begun, NoBurst
<1>10. QED
  BY <1>4, <1>5, <1>7, <1>8, <1>9 DEF Preserved, ChildRight

LEMMA ChildStepIsRight ==
  ASSUME LoadInv, NEW c \in Child, ChildStep(c), UNCHANGED options
  PROVE  Preserved(c) /\ pc[c] # "none" /\ UNCHANGED forked
<1>1. Shapes /\ ChildRight(c)
  BY DEF LoadInv
<1>2. pc[c] # "none" /\ UNCHANGED forked
  BY DEF ChildStep, Interrupted, Living, Connect, ConnectLater, SetKey, Track, RequestFails,
         FirstChange, Notify, InBurst, BurstChange, BurstRefused, BurstEnds, DispatchEnds,
         End, parental, ChildRight, Bursting
<1>3. Preserved(c)
  <2>1. CASE Interrupted(c) \/ RequestFails(c) \/ DispatchEnds(c)
    BY <1>1, <2>1, EndIsRight DEF Interrupted, RequestFails, DispatchEnds
  <2>2. CASE ConnectLater(c)
    <3>1. Shapes' /\ \A d \in Child : Kept(d)
      BY <1>1, <2>2 DEF ConnectLater, Shapes, Kept, parental, map, no_childs
    <3>2. ChildRight(c)'
      BY <1>1, <3>1, KeptIsRight
    <3>3. QED
      BY <3>1, <3>2 DEF Preserved
  <2>3. CASE Connect(c)
    BY <1>1, <2>3, ConnectIsRight
  <2>4. CASE SetKey(c)
    BY <1>1, <2>4, SetKeyIsRight
  <2>5. CASE Track(c)
    BY <1>1, <2>5, TrackIsRight
  <2>6. CASE FirstChange(c)
    BY <1>1, <2>6, FirstChangeIsRight
  <2>7. CASE Notify(c)
    BY <1>1, <2>7, NotifyIsRight
  <2>8. CASE BurstChange(c)
    BY <1>1, <2>8, BurstChangeIsRight
  <2>9. CASE BurstRefused(c)
    BY <1>1, <2>9, BurstRefusedIsRight
  <2>10. CASE BurstEnds(c)
    BY <1>1, <2>10, BurstEndsIsRight
  <2>11. QED
    BY <2>1, <2>2, <2>3, <2>4, <2>5, <2>6, <2>7, <2>8, <2>9, <2>10 DEF ChildStep
<1>4. QED
  BY <1>2, <1>3

------------------------------------------------------------------------------
(***************************************************************************)
(* The whole.                                                              *)
(***************************************************************************)

LEMMA InitIsRight ==
  ASSUME Init
  PROVE  LoadInv
<1>1. /\ burst_count \in Nat /\ no_childs \in Nat /\ 1 .. no_childs \subseteq Child
      /\ \A k \in AnyKey : Wrap[k] \in Nat \ {0, 1} /\ k # "none" /\ Zero[k] = 0
  BY CommandLine DEF Init, AnyKey, Zero
<1>2. NoBurst \in Burst /\ Zero \in [AnyKey -> Nat] /\ <<>> \in Seq(Notification)
  BY EmptySeq DEF NoBurst, Burst, Zero
<1>3. Shapes
  BY <1>1, <1>2 DEF Init, Shapes, Stage, PerKey, Zero
<1>4. ASSUME NEW c \in Child PROVE ChildRight(c) /\ pc[c] = "none"
  <2>1. /\ pc[c] = "none" /\ at[c] = 1 /\ queue[c] = <<>> /\ burst[c] = NoBurst
        /\ expected[c] = Zero /\ refused[c] = Zero /\ made[c] = Zero /\ store[c] = Zero
    BY DEF Init, PerKey, Zero
  <2>2. \A k \in AnyKey : Count(<<>>, k) = 0
    BY <1>2, CountIsNat
  <2>3. \A k \in AnyKey : Counted(c, k)
    BY <1>1, <2>1, <2>2 DEF Counted, Owed, NoBurst
  <2>4. \A k \in AnyKey : Told(c, k)
    BY <1>1, <2>1 DEF Told
  <2>5. (\A k \in AnyKey : Followed(c, k)) /\ Bursting(c) /\ Begun(c)
    BY <1>1, <2>1 DEF Followed, Bursting, Begun, NoBurst
  <2>6. QED
    BY <2>1, <2>3, <2>4, <2>5 DEF ChildRight
<1>5. QED
  BY <1>3, <1>4 DEF LoadInv

(* The other steps leave the children alone, or make the next one.            *)
LEMMA ParentStepIsRight ==
  ASSUME LoadInv, UNCHANGED options,
         \/ ParentStep \/ InterruptParent \/ CorosyncStops
         \/ \E c \in Child : InterruptChild(c)
  PROVE  LoadInv'
<1>1. /\ Shapes /\ no_childs \in Nat /\ 1 .. no_childs \subseteq Child
      /\ \A c \in Child : c \in Nat /\ ChildRight(c) /\ (c > forked => pc[c] = "none")
  <2>1. Shapes /\ "uint" \in AnyKey
    BY DEF LoadInv, AnyKey
  <2>2. no_childs \in Nat /\ 1 .. no_childs \subseteq Child /\ \A c \in Child : c \in Nat
    BY <2>1, CommandLine DEF Shapes
  <2>3. QED
    BY <2>1, <2>2 DEF LoadInv
<1>2. CASE Fork
  <2>1. PICK f \in Child : /\ f > forked /\ pc[f] = "none" /\ forked' = f
                           /\ f \in 0 .. no_childs /\ \A d \in Nat : d > f => d > forked
    <3>1. forked \in 0 .. no_childs /\ forked < no_childs /\ forked' = forked + 1
      BY <1>1, <1>2 DEF Fork, Shapes
    <3>2. forked + 1 \in 1 .. no_childs /\ forked + 1 > forked
      BY <1>1, <3>1
    <3>3. \A d \in Nat : d > forked + 1 => d > forked
      BY <3>1
    <3>4. QED
      BY <1>1, <3>1, <3>2, <3>3
  <2>2. /\ pc' = [pc EXCEPT ![f] = "start"]
        /\ UNCHANGED <<at, expected, burst, store, queue, made, refused>>
    BY <1>2, <2>1 DEF Fork, Goto, children, map
  <2>3. Shapes'
    BY <1>1, <1>2, <2>1, <2>2 DEF Fork, Shapes, Stage, map, no_childs
  <2>4. pc'[f] = "start" /\ \A d \in Child \ {f} : Kept(d)
    BY <2>1, <2>2, <1>1 DEF Shapes, Kept
  <2>5. ChildRight(f)'
    <3>1. ChildRight(f)
      BY <1>1, <2>1
    <3>2. \A k \in AnyKey : Counted(f, k)' /\ Told(f, k)' /\ Followed(f, k)'
      BY <2>1, <2>2, <2>4, <3>1 DEF ChildRight, Counted, Told, Followed, Owed, burst_count
    <3>3. Bursting(f)' /\ Begun(f)'
      BY <2>1, <2>2, <2>4, <3>1 DEF ChildRight, Bursting, Begun, burst_count
    <3>4. QED
      BY <3>2, <3>3 DEF ChildRight
  <2>6. ASSUME NEW d \in Child \ {f} PROVE ChildRight(d)' /\ (d > forked' => pc'[d] = "none")
    <3>1. ChildRight(d)'
      BY <1>1, <2>4, KeptIsRight
    <3>2. QED
      BY <1>1, <2>1, <2>4, <3>1 DEF Kept
  <2>7. f > forked' => pc'[f] = "none"
    BY <1>1, <2>1
  <2>8. QED
    BY <2>3, <2>5, <2>6, <2>7 DEF LoadInv
<1>3. CASE \/ ForkFails \/ ForksDone \/ Wakes \/ Wait \/ Finish \/ HandlerSignals \/ HandlerPolls
           \/ InterruptParent \/ CorosyncStops \/ \E c \in Child : InterruptChild(c)
  <2>1. UNCHANGED <<pc, at, expected, burst, store, queue, made, refused, forked>>
    BY <1>3 DEF ForkFails, ForksDone, Wakes, Wait, Finish, HandlerSignals, HandlerPolls,
                InterruptParent, CorosyncStops, InterruptChild, children, parental, map
  <2>2. /\ parent' \in {"fork", "sleep", "wait", "signal", "poll", "finished", "dead"}
        /\ reaped' \subseteq Child /\ pipes' \subseteq Child /\ service' \in {"up", "gone"}
    BY <1>1, <1>3 DEF Shapes, ForkFails, ForksDone, Wakes, Wait, Finish, HandlerSignals,
                      HandlerPolls, InterruptParent, CorosyncStops, InterruptChild, parental
  <2>3. Shapes'
    BY <1>1, <2>1, <2>2 DEF Shapes, no_childs
  <2>4. \A c \in Child : Kept(c)
    BY <2>1 DEF Kept
  <2>5. \A c \in Child : ChildRight(c)'
    BY <1>1, <2>4, KeptIsRight
  <2>6. QED
    BY <1>1, <2>1, <2>3, <2>5 DEF LoadInv
<1>4. QED
  BY <1>2, <1>3 DEF ParentStep

LEMMA StepIsRight ==
  ASSUME LoadInv, [Next]_vars
  PROVE  LoadInv'
<1>1. CASE UNCHANGED vars
  <2>1. /\ UNCHANGED <<options, pc, at, expected, burst, parent, forked, reaped, pipes>>
        /\ UNCHANGED <<service, store, queue, made, refused>>
    BY <1>1 DEF vars, children, parental, map
  <2>2. Shapes' /\ \A c \in Child : Kept(c)
    BY <2>1 DEF LoadInv, Shapes, Kept, no_childs
  <2>3. \A c \in Child : ChildRight(c)'
    BY <2>1, <2>2, KeptIsRight DEF LoadInv
  <2>4. QED
    BY <2>1, <2>2, <2>3 DEF LoadInv
<1>2. ASSUME NEW c \in Child, ChildStep(c), UNCHANGED options PROVE LoadInv'
  <2>1. Preserved(c) /\ pc[c] # "none" /\ UNCHANGED forked
    BY <1>2, ChildStepIsRight
  <2>2. c > forked' => pc'[c] = "none"
    BY <2>1 DEF LoadInv
  <2>3. ASSUME NEW d \in Child \ {c} PROVE ChildRight(d)' /\ (d > forked' => pc'[d] = "none")
    <3>1. ChildRight(d)'
      BY <1>2, <2>1, KeptIsRight DEF LoadInv, Preserved
    <3>2. QED
      BY <2>1, <3>1 DEF LoadInv, Preserved, Kept
  <2>4. QED
    BY <2>1, <2>2, <2>3 DEF LoadInv, Preserved
<1>3. QED
  BY <1>1, <1>2, ParentStepIsRight DEF Next

(* Bursts of a key are made from the newest value and counted down exactly,   *)
(* child by child, in every state of the load.                                *)
THEOREM LoadInvariant == Spec => []LoadInv
<1>1. Init => LoadInv
  BY InitIsRight
<1>2. LoadInv /\ [Next]_vars => LoadInv'
  BY StepIsRight
<1>3. QED
  BY <1>1, <1>2, PTL DEF Spec

(* Bursts of a key never overlap: the notifications under way are those the   *)
(* child counts on, and fewer once a change was refused (cmap_notify).        *)
THEOREM Bursts == Spec => []BurstsCounted
<1>1. LoadInv => BurstsCounted
  <2> SUFFICES ASSUME LoadInv PROVE BurstsCounted
    OBVIOUS
  <2>1. /\ Shapes /\ burst_count \in Nat
        /\ \A c \in Child, k \in AnyKey : Counted(c, k) /\ Told(c, k) /\ Wrap[k] \in Nat \ {0, 1}
        /\ \A c \in Child : burst[c] \in Burst /\ Bursting(c)
    BY CommandLine DEF LoadInv, ChildRight, Shapes
  <2>2. ASSUME NEW c \in Child, NEW k \in AnyKey
        PROVE  /\ store[c][k] \in 0 .. Wrap[k] - 1
               /\ expected[c][k] \in 0 .. burst_count /\ refused[c][k] \in 0 .. burst_count
    <3>1. /\ store[c][k] \in Nat /\ expected[c][k] \in Nat /\ refused[c][k] \in Nat
          /\ burst[c].left \in Nat /\ Count(queue[c], k) \in Nat
      <4>1. queue[c] \in Seq(Notification) /\ burst[c] \in Burst
        BY <2>1 DEF Shapes
      <4>2. Count(queue[c], k) \in Nat /\ burst[c].left \in Nat
        BY <4>1, CountIsNat DEF Burst
      <4>3. QED
        BY <2>1, <4>2 DEF Shapes
    <3>2. Owed(c, k) <= burst_count /\ Owed(c, k) \in Int
      BY <2>1, <3>1 DEF Counted, Owed
    <3>3. store[c][k] < Wrap[k] /\ expected[c][k] <= burst_count
      BY <2>1 DEF Counted, Told
    <3>4. refused[c][k] # 0 => Count(queue[c], k) <= Owed(c, k) - refused[c][k]
      BY <2>1 DEF Counted
    <3>5. QED
      BY <2>1, <3>1, <3>2, <3>3, <3>4
  <2>3. TypeOK
    BY <2>1, <2>2 DEF TypeOK, Shapes, Stage
  <2>4. QED
    BY <2>1, <2>3 DEF BurstsCounted, Counted, Owed, UnderWay, Count
<1>2. QED
  BY <1>1, LoadInvariant, PTL

(* Each change moves a value by one from the newest, over the ends of bursts  *)
(* and over the wrap (inc_str, confdb_key_change_notify).                     *)
THEOREM Values == Spec => []ValuesFollow
<1>1. LoadInv => ValuesFollow
  BY DEF LoadInv, ChildRight, Followed, ValuesFollow
<1>2. QED
  BY <1>1, LoadInvariant, PTL

=============================================================================
