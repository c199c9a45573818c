-------------------------- MODULE BusClientsProofs --------------------------
(***************************************************************************)
(* The safety properties of the bus helpers, for any set of values.        *)
(*                                                                         *)
(* Each helper has an inductive invariant of its own; ClientsInv is that   *)
(* of the helper that is used.  The first section holds what the lists of  *)
(* bus/watch.go need: induction over a list from the well-foundedness of   *)
(* the natural numbers, and what sorting and removing do to a list.        *)
(***************************************************************************)
EXTENDS MCBusClients, WellFoundedInduction, SequenceTheorems, TLAPS

-----------------------------------------------------------------------------
(* Lists. *)

\* A sequence over a set is one over every larger set.
LEMMA SeqMono == ASSUME NEW S, NEW T, S \subseteq T PROVE Seq(S) \subseteq Seq(T)
  OBVIOUS

\* A set of natural numbers that is not empty has a smallest element.
LEMMA SmallestElement == ASSUME NEW T \in SUBSET Nat, T # {} PROVE \E x \in T : \A y \in T : x <= y
  <1> DEFINE R == OpToRel(<, Nat)
  <1>1. IsWellFoundedOn(R, Nat) BY NatLessThanWellFounded
  <1>2. \A y, x \in Nat : y < x => <<y, x>> \in R BY DEF OpToRel
  <1> HIDE DEF R
  <1>3. PICK x \in T : \A y \in T : ~ (<<y, x>> \in R) BY <1>1, WFMin
  <1>4. x \in Nat /\ \A y \in T : y \in Nat OBVIOUS
  <1>5. \A y \in T : ~(y < x) BY <1>2, <1>3, <1>4
  <1> QED BY <1>4, <1>5

\* Induction over the natural numbers, for a set.
LEMMA SetInduction ==
  ASSUME NEW T, 0 \in T, \A n \in Nat : n \in T => n + 1 \in T PROVE \A n \in Nat : n \in T
  <1> SUFFICES ASSUME Nat \ T # {} PROVE FALSE OBVIOUS
  <1>1. PICK x \in Nat \ T : \A y \in Nat \ T : x <= y BY SmallestElement
  <1>2. x - 1 \in Nat /\ x - 1 \notin T BY <1>1
  <1> QED BY <1>1, <1>2

\* The comparator of bus/watch.go never says less, its difference being unsigned:
\* the insertion leaves an element where it is.
LEMMA InsertLast == ASSUME NEW s \in Seq(Int), NEW x \in Int PROVE Insert(s, x) = Append(s, x)
  <1>0. \A a \in Int, m \in Nat \ {0} : a % m \in 0..(m - 1)
    OBVIOUS
  <1>1. \A y \in Int : ~(IdDiff(x, y) < 0)
    <2> TAKE y \in Int
    <2>1. x - y \in Int OBVIOUS
    <2>2. (x - y) % IdModulus \in 0..(IdModulus - 1) BY <1>0, <2>1, IdModulusAssumption
    <2> QED BY <2>2, IdModulusAssumption DEF IdDiff
  <1>x. \A k \in 1..Len(s) : ~(IdDiff(x, s[k]) < 0)
    BY <1>1
  <1>y. Len(s) \in Rest(s, x)
    BY <1>x DEF Rest
  <1>z. ASSUME NEW j \in Rest(s, x) PROVE j = Len(s)
    <2>1. j \in 0..Len(s) /\ \A k \in (j + 1)..Len(s) : IdDiff(x, s[k]) < 0
      BY DEF Rest
    <2>2. j < Len(s) => Len(s) \in (j + 1)..Len(s) /\ Len(s) \in 1..Len(s)
      BY <2>1
    <2> QED BY <2>1, <2>2, <1>x
  <1>2. Rest(s, x) = {Len(s)}
    BY <1>y, <1>z
  <1>3. (CHOOSE j \in Rest(s, x) : TRUE) = Len(s)
    BY <1>2
  <1>4. SubSeq(s, 1, Len(s)) = s /\ SubSeq(s, Len(s) + 1, Len(s)) = <<>>
    OBVIOUS
  <1>5. Insert(s, x) = SubSeq(s, 1, (Len(s) + 1) - 1) \o <<x>> \o SubSeq(s, Len(s) + 1, Len(s))
    BY <1>3 DEF Insert, InsertAt
  <1>6. (Len(s) + 1) - 1 = Len(s)
    OBVIOUS
  <1>7. Insert(s, x) = s \o <<x>> \o <<>>
    BY <1>4, <1>5, <1>6
  <1>8. s \o <<x>> \in Seq(Int) /\ s \o <<x>> = Append(s, x)
    OBVIOUS
  <1> QED BY <1>7, <1>8

\* slices.SortFunc with the comparator of bus/watch.go leaves every list as it is: the
\* values stay in the order in which they came, whatever their ids.
THEOREM SortKeeps == ASSUME NEW s \in Seq(Int) PROVE SortFunc(s) = s
  <1> DEFINE E(f) == f = [i \in 0..Len(s) |-> IF i = 0 THEN <<>> ELSE Insert(f[i-1], s[i])]
  <1> DEFINE g == CHOOSE f : E(f)
  <1>1. SortFunc(s) = g[Len(s)] BY DEF SortFunc
  <1> DEFINE h == [i \in 0..Len(s) |-> SubSeq(s, 1, i)]
  <1>a. \A i \in 1..Len(s) : s[i] \in Int /\ SubSeq(s,1,i-1) \in Seq(Int) /\ SubSeq(s,1,i) = Append(SubSeq(s,1,i-1), s[i]) OBVIOUS
  <1>2. \A i \in 1..Len(s) : SubSeq(s,1,i) = Insert(SubSeq(s,1,i-1), s[i]) BY <1>a, InsertLast
  <1>b. SubSeq(s,1,0) = <<>> OBVIOUS
  <1>d. E(h) BY <1>2, <1>b
  <1>3. E(g) BY <1>d
  <1> HIDE DEF g, h
  <1> DEFINE T == {i \in Nat : i <= Len(s) => g[i] = SubSeq(s,1,i)}
  <1>4. 0 \in T BY <1>3, <1>b
  <1>5. ASSUME NEW n \in Nat, n \in T PROVE n + 1 \in T
    <2> SUFFICES ASSUME n + 1 <= Len(s) PROVE g[n+1] = SubSeq(s,1,n+1) OBVIOUS
    <2>1. g[n] = SubSeq(s,1,n) BY <1>5
    <2>2. n+1 \in 1..Len(s) /\ (n+1)-1 = n OBVIOUS
    <2>3. g[n+1] = Insert(g[n], s[n+1]) BY <1>3, <2>2
    <2> QED BY <2>1, <2>3, <2>2, <1>2
  <1> HIDE DEF T
  <1>6. \A n \in Nat : n \in T BY <1>4, <1>5, SetInduction
  <1>7. g[Len(s)] = SubSeq(s,1,Len(s)) BY <1>6 DEF T
  <1>8. SubSeq(s,1,Len(s)) = s OBVIOUS
  <1> QED BY <1>1, <1>7, <1>8

\* slices.Index and slices.Delete: the element at some index of the value is removed.
LEMMA RemoveFirstIsRemoveAt ==
  ASSUME NEW S, NEW s \in Seq(S), NEW v, Contains(s, v)
  PROVE  \E i \in 1..Len(s) : s[i] = v /\ RemoveFirst(s, v) = RemoveAt(s, i)
  <1> DEFINE I == {i \in 1..Len(s) : s[i] = v}
  <1>1. I # {} /\ I \in SUBSET Nat BY DEF Contains
  <1>2. \E x \in I : \A y \in I : x <= y BY <1>1, SmallestElement
  <1>3. Min(I) \in I BY <1>2 DEF Min
  <1>4. SelectInSeq(s, LAMBDA x : x = v) = Min(I) BY <1>1 DEF SelectInSeq
  <1> QED BY <1>3, <1>4, <1>1 DEF RemoveFirst, Contains

\* No value is listed twice.
Unique(s) == \A i, j \in 1..Len(s) : s[i] = s[j] => i = j

\* The empty list.
LEMMA EmptyListed == Unique(<<>>) /\ \A v : ~Contains(<<>>, v)
  <1>1. 1..Len(<<>>) = {}
    OBVIOUS
  <1> QED BY <1>1 DEF Unique, Contains

\* Ids are numbers.
LEMMA StreamSeq == Seq(Stream) \subseteq Seq(Int)
  <1>1. Stream \subseteq Int
    BY StreamAssumption
  <1> QED BY <1>1, SeqMono

\* Appending a value that is not listed.
LEMMA AppendListed ==
  ASSUME NEW S, NEW s \in Seq(S), NEW v \in S
  PROVE  /\ Append(s, v) \in Seq(S)
         /\ \A x : Contains(Append(s, v), x) <=> Contains(s, x) \/ x = v
         /\ Unique(s) /\ ~Contains(s, v) => Unique(Append(s, v))
  <1> DEFINE t == Append(s, v)
  <1>1. /\ t \in Seq(S) /\ Len(t) = Len(s) + 1 /\ t[Len(s) + 1] = v
        /\ \A i \in 1..Len(s) : t[i] = s[i]
    OBVIOUS
  <1>2. 1..(Len(s) + 1) = 1..Len(s) \cup {Len(s) + 1}
    OBVIOUS
  <1> HIDE DEF t
  <1>3. \A x : Contains(t, x) <=> Contains(s, x) \/ x = v
    BY <1>1, <1>2 DEF Contains
  <1>4. Unique(s) /\ ~Contains(s, v) => Unique(t)
    BY <1>1, <1>2 DEF Contains, Unique
  <1> QED BY <1>1, <1>3, <1>4 DEF t

\* Removing a value that is listed once.
LEMMA RemoveFirstListed ==
  ASSUME NEW S, NEW s \in Seq(S), NEW v, Contains(s, v), Unique(s)
  PROVE  /\ RemoveFirst(s, v) \in Seq(S)
         /\ Unique(RemoveFirst(s, v))
         /\ \A x : Contains(RemoveFirst(s, v), x) <=> Contains(s, x) /\ x # v
  <1>1. PICK i \in 1..Len(s) : s[i] = v /\ RemoveFirst(s, v) = RemoveAt(s, i)
    BY RemoveFirstIsRemoveAt
  <1> DEFINE t == RemoveAt(s, i)
  <1>2. /\ t \in Seq(S) /\ Len(t) = Len(s) - 1
        /\ \A k \in 1..Len(t) : t[k] = IF k < i THEN s[k] ELSE s[k + 1]
    <2> DEFINE a == SubSeq(s, 1, i - 1)
               b == SubSeq(s, i + 1, Len(s))
    <2>1. /\ a \in Seq(S) /\ Len(a) = i - 1
          /\ \A k \in 1..(i - 1) : a[k] = s[k]
      OBVIOUS
    <2>2. /\ b \in Seq(S) /\ Len(b) = Len(s) - i
          /\ \A k \in 1..(Len(s) - i) : b[k] = s[i + k]
      OBVIOUS
    <2>3. t = a \o b
      BY DEF RemoveAt
    <2> HIDE DEF a, b, t
    <2>4. t \in Seq(S) /\ Len(t) = Len(s) - 1
      BY <2>1, <2>2, <2>3
    <2>5. ASSUME NEW k \in 1..Len(t) PROVE t[k] = IF k < i THEN s[k] ELSE s[k + 1]
      <3>1. CASE k < i
        BY <2>1, <2>2, <2>3, <2>4, <3>1
      <3>2. CASE ~(k < i)
        <4>1. k - (i - 1) \in 1..(Len(s) - i) /\ i + (k - (i - 1)) = k + 1
          <5>1. k \in Int /\ i \in Int /\ Len(s) \in Int /\ k <= Len(s) - 1 /\ i <= k
            BY <2>4, <3>2
          <5> QED BY <5>1
        <4>2. k \in 1..(Len(a) + Len(b)) /\ ~(k <= Len(a)) /\ Len(a) = i - 1
          BY <2>1, <2>2, <2>4, <3>2
        <4>3. t[k] = b[k - (i - 1)]
          BY <2>1, <2>2, <2>3, <4>2, ConcatProperties
        <4> QED BY <2>2, <3>2, <4>1, <4>3
      <3> QED BY <3>1, <3>2
    <2> QED BY <2>4, <2>5
  <1> HIDE DEF t
  <1>3. Unique(t)
    BY <1>2 DEF Unique
  <1>4. ASSUME NEW x, Contains(t, x) PROVE Contains(s, x) /\ x # v
    <2>1. PICK k \in 1..Len(t) : t[k] = x
      BY <1>4 DEF Contains
    <2>2. CASE k < i
      BY <1>1, <1>2, <2>1, <2>2 DEF Contains, Unique
    <2>3. CASE ~(k < i)
      BY <1>1, <1>2, <2>1, <2>3 DEF Contains, Unique
    <2> QED BY <2>2, <2>3
  <1>5. ASSUME NEW x, Contains(s, x), x # v PROVE Contains(t, x)
    <2>1. PICK k \in 1..Len(s) : s[k] = x
      BY <1>5 DEF Contains
    <2>2. CASE k < i
      <3>1. k \in 1..Len(t) /\ t[k] = x
        BY <1>2, <2>1, <2>2
      <3> QED BY <3>1 DEF Contains
    <2>3. CASE k > i
      <3>1. k - 1 \in 1..Len(t) /\ t[k - 1] = x
        BY <1>2, <2>1, <2>3
      <3> QED BY <3>1 DEF Contains
    <2> QED BY <1>1, <1>5, <2>1, <2>2, <2>3
  <1> QED BY <1>1, <1>2, <1>3, <1>4, <1>5 DEF t

-----------------------------------------------------------------------------
(* ExecOneOffWithFilter *)

\* A reference is held until the goroutine returns, and then exactly with a value;
\* the value returned is the accepted one, and a value that is gone was told.
OneOffInv ==
  /\ OneOff!Awake
  /\ pc # "done" => held
  /\ pc = "releasing" => ret.val = NoValue
  /\ pc = "done" => (held <=> ret.val # NoValue)
  /\ pc = "done" /\ ret.val # NoValue => ret.val = val
  /\ val # NoValue => val \in given /\ (val \in gone \/ ended => disposals)

\* The invariant holds when ExecOneOffWithFilter is called.
LEMMA OneOffInit == OneOff!Init => OneOff!TypeOK /\ OneOffInv
  <1> SUFFICES ASSUME OneOff!Init PROVE OneOff!TypeOK /\ OneOffInv
    OBVIOUS
  <1> USE DEF OneOff!Init, OneOff!StreamInit, OneOff!IdleInit
  <1>1. OneOff!TypeOK
    BY DEF OneOff!TypeOK, OneOff!StreamTypeOK, OneOff!IdleTypeOK, OneOff!Modes, OneOff!Errors
  <1>2. OneOffInv
    BY DEF OneOffInv, OneOff!Awake
  <1> QED BY <1>1, <1>2

\* Every step of ExecOneOffWithFilter keeps the types.
LEMMA OneOffTypeStep == ASSUME OneOff!TypeOK, [OneOff!Next]_(OneOff!vars) PROVE OneOff!TypeOK'
  <1> USE DEF OneOff!TypeOK, OneOff!StreamTypeOK, OneOff!IdleTypeOK,
              OneOff!idleVars, OneOff!streamVars
  <1>0. {"none", "filter", "resolver", "add", "disposed", "canceled"} \subseteq OneOff!Errors
    BY DEF OneOff!Errors
  <1>1. ASSUME NEW v \in Stream, NEW answer \in OneOff!Answers, OneOff!HandleValueAdded(v, answer)
        PROVE  OneOff!TypeOK'
    <2>1. val' \in Stream \cup {NoValue} /\ resErr' \in OneOff!Errors
      BY <1>0, <1>1 DEF OneOff!HandleValueAdded
    <2>2. signal' \in BOOLEAN
      BY <1>1 DEF OneOff!HandleValueAdded
    <2> QED BY <1>1, <2>1, <2>2 DEF OneOff!HandleValueAdded, OneOff!Added
  <1>2. ASSUME NEW v \in Stream, OneOff!HandleValueRemoved(v) PROVE OneOff!TypeOK'
    BY <1>0, <1>2 DEF OneOff!HandleValueRemoved, OneOff!Removed
  <1>3. CASE OneOff!HandleInstanceDisposed
    BY <1>0, <1>3 DEF OneOff!HandleInstanceDisposed, OneOff!Disposed
  <1>4. ASSUME NEW b \in BOOLEAN, NEW failed \in BOOLEAN, OneOff!IdleCallback(b, failed)
        PROVE  OneOff!TypeOK'
    <2>1. wait' \in BOOLEAN /\ resErr' \in OneOff!Errors
      BY <1>0, <1>4 DEF OneOff!IdleCallback, OneOff!IdleCb
    <2> QED BY <1>4, <2>1 DEF OneOff!IdleCallback, OneOff!IdleCall
  <1>5. CASE OneOff!AddIdleCallback
    BY <1>0, <1>5 DEF OneOff!AddIdleCallback, OneOff!Register
  <1>f. CASE OneOff!AddDirectiveFails
    BY <1>0, <1>f DEF OneOff!AddDirectiveFails, OneOff!NotAdded, OneOff!Returns
  <1>6. CASE OneOff!CheckState
    <2>1. ret' \in [val: Stream \cup {NoValue}, err: OneOff!Errors]
      BY <1>0, <1>6 DEF OneOff!CheckState, OneOff!Returns
    <2>2. pc' \in {"adding", "loop", "waiting", "releasing", "done"}
      BY <1>6 DEF OneOff!CheckState, OneOff!Returns
    <2> QED BY <1>6, <2>1, <2>2 DEF OneOff!CheckState
  <1>7. CASE OneOff!ReleaseRef
    BY <1>0, <1>7 DEF OneOff!ReleaseRef, OneOff!Release
  <1>8. CASE OneOff!Wake
    BY <1>0, <1>8 DEF OneOff!Wake
  <1>9. CASE OneOff!Canceled
    BY <1>0, <1>9 DEF OneOff!Canceled
  <1>10. CASE OneOff!CancelCtx
    BY <1>0, <1>10 DEF OneOff!CancelCtx
  <1>11. CASE UNCHANGED OneOff!vars
    BY <1>11 DEF OneOff!vars, OneOff!localVars
  <1> QED BY <1>1, <1>2, <1>3, <1>4, <1>5, <1>f, <1>6, <1>7, <1>8, <1>9, <1>10, <1>11
          DEF OneOff!Next, OneOff!CallerStep

\* Every step of ExecOneOffWithFilter keeps the invariant.
LEMMA OneOffStep == ASSUME OneOff!TypeOK, OneOffInv, [OneOff!Next]_(OneOff!vars) PROVE OneOffInv'
  <1> USE DEF OneOffInv, OneOff!TypeOK, OneOff!Awake, OneOff!StreamTypeOK, OneOff!IdleTypeOK,
              OneOff!idleVars, OneOff!streamVars
  <1>1. ASSUME NEW v \in Stream, NEW answer \in OneOff!Answers, OneOff!HandleValueAdded(v, answer)
        PROVE  OneOffInv'
    BY <1>1 DEF OneOff!HandleValueAdded, OneOff!Added, OneOff!Answers
  <1>2. ASSUME NEW v \in Stream, OneOff!HandleValueRemoved(v) PROVE OneOffInv'
    BY <1>2 DEF OneOff!HandleValueRemoved, OneOff!Removed
  <1>3. CASE OneOff!HandleInstanceDisposed
    BY <1>3 DEF OneOff!HandleInstanceDisposed, OneOff!Disposed
  <1>4. ASSUME NEW b \in BOOLEAN, NEW failed \in BOOLEAN, OneOff!IdleCallback(b, failed)
        PROVE  OneOffInv'
    BY <1>4 DEF OneOff!IdleCallback, OneOff!IdleCall
  <1>5. CASE OneOff!AddIdleCallback
    BY <1>5 DEF OneOff!AddIdleCallback, OneOff!Register
  <1>f. CASE OneOff!AddDirectiveFails
    BY <1>f DEF OneOff!AddDirectiveFails, OneOff!NotAdded, OneOff!Returns
  <1>6. CASE OneOff!CheckState
    BY <1>6 DEF OneOff!CheckState, OneOff!Returns
  <1>7. CASE OneOff!ReleaseRef
    BY <1>7 DEF OneOff!ReleaseRef, OneOff!Release
  <1>8. CASE OneOff!Wake
    BY <1>8 DEF OneOff!Wake
  <1>9. CASE OneOff!Canceled
    BY <1>9 DEF OneOff!Canceled
  <1>10. CASE OneOff!CancelCtx
    BY <1>10 DEF OneOff!CancelCtx
  <1>11. CASE UNCHANGED OneOff!vars
    BY <1>11 DEF OneOff!vars, OneOff!localVars
  <1> QED BY <1>1, <1>2, <1>3, <1>4, <1>5, <1>f, <1>6, <1>7, <1>8, <1>9, <1>10, <1>11
          DEF OneOff!Next, OneOff!CallerStep

-----------------------------------------------------------------------------
(* ExecCollectValuesWithFilter *)

\* As OneOffInv; from the decision to return on the collection is what is returned.
CollectInv ==
  /\ Collect!Awake
  /\ pc # "done" => held
  /\ pc = "releasing" => result.err # "none"
  /\ pc = "done" => (held <=> result.err = "none")
  /\ returned => pc \in {"releasing", "done"}
  /\ ~returned => vals = accepted \ gone
  /\ pc = "done" /\ result.err = "none" =>
       returned /\ result.vals = vals /\ (vals \cap gone # {} => disposals)

\* The invariant holds when ExecCollectValuesWithFilter is called.
LEMMA CollectInit == Collect!Init => Collect!TypeOK /\ CollectInv
  <1> SUFFICES ASSUME Collect!Init PROVE Collect!TypeOK /\ CollectInv
    OBVIOUS
  <1> USE DEF Collect!Init, Collect!StreamInit, Collect!IdleInit
  <1>1. Collect!TypeOK
    BY DEF Collect!TypeOK, Collect!StreamTypeOK, Collect!IdleTypeOK, Collect!Errors
  <1>2. CollectInv
    BY DEF CollectInv, Collect!Awake
  <1> QED BY <1>1, <1>2

\* Every step of ExecCollectValuesWithFilter keeps the types.
LEMMA CollectTypeStep == ASSUME Collect!TypeOK, [Collect!Next]_(Collect!vars) PROVE Collect!TypeOK'
  <1> USE DEF Collect!TypeOK, Collect!StreamTypeOK, Collect!IdleTypeOK,
              Collect!idleVars, Collect!streamVars
  <1>0. {"none", "filter", "resolver", "add", "disposed", "canceled"} \subseteq Collect!Errors
    BY DEF Collect!Errors
  <1>1. ASSUME NEW v \in Stream, NEW answer \in {"accept", "reject", "fail"},
               Collect!HandleValueAdded(v, answer)
        PROVE  Collect!TypeOK'
    <2>1. vals' \subseteq Stream /\ accepted' \subseteq Stream /\ resErr' \in Collect!Errors
      BY <1>0, <1>1 DEF Collect!HandleValueAdded
    <2>2. signal' \in BOOLEAN
      BY <1>1 DEF Collect!HandleValueAdded
    <2> QED BY <1>1, <2>1, <2>2 DEF Collect!HandleValueAdded, Collect!Added
  <1>2. ASSUME NEW v \in Stream, Collect!HandleValueRemoved(v) PROVE Collect!TypeOK'
    BY <1>2 DEF Collect!HandleValueRemoved, Collect!Removed
  <1>3. CASE Collect!HandleInstanceDisposed
    BY <1>0, <1>3 DEF Collect!HandleInstanceDisposed, Collect!Disposed
  <1>4. ASSUME NEW b \in BOOLEAN, NEW failed \in BOOLEAN, Collect!IdleCallback(b, failed)
        PROVE  Collect!TypeOK'
    BY <1>0, <1>4 DEF Collect!IdleCallback, Collect!IdleCall
  <1>5. CASE Collect!AddIdleCallback
    BY <1>5 DEF Collect!AddIdleCallback, Collect!Register
  <1>f. CASE Collect!AddDirectiveFails
    BY <1>0, <1>f DEF Collect!AddDirectiveFails, Collect!NotAdded
  <1>6. CASE Collect!CheckState
    <2>1. result' \in [vals: SUBSET Stream, err: Collect!Errors]
      BY <1>0, <1>6 DEF Collect!CheckState
    <2>2. pc' \in {"adding", "loop", "waiting", "releasing", "done"}
      BY <1>6 DEF Collect!CheckState
    <2>3. returned' \in BOOLEAN
      BY <1>6 DEF Collect!CheckState
    <2> QED BY <1>6, <2>1, <2>2, <2>3 DEF Collect!CheckState
  <1>7. CASE Collect!ReleaseRef
    BY <1>7 DEF Collect!ReleaseRef, Collect!Release
  <1>8. CASE Collect!Wake
    BY <1>8 DEF Collect!Wake
  <1>9. CASE Collect!Canceled
    BY <1>0, <1>9 DEF Collect!Canceled
  <1>10. CASE Collect!CancelCtx
    BY <1>10 DEF Collect!CancelCtx
  <1>11. CASE UNCHANGED Collect!vars
    BY <1>11 DEF Collect!vars, Collect!localVars
  <1> QED BY <1>1, <1>2, <1>3, <1>4, <1>5, <1>f, <1>6, <1>7, <1>8, <1>9, <1>10, <1>11
          DEF Collect!Next, Collect!CallerStep

\* Every step of ExecCollectValuesWithFilter keeps the invariant.
LEMMA CollectStep == ASSUME Collect!TypeOK, CollectInv, [Collect!Next]_(Collect!vars) PROVE CollectInv'
  <1> USE DEF CollectInv, Collect!TypeOK, Collect!Awake, Collect!ReturnVals, Collect!StreamTypeOK,
              Collect!IdleTypeOK, Collect!idleVars, Collect!streamVars
  <1>1. ASSUME NEW v \in Stream, NEW answer \in {"accept", "reject", "fail"},
               Collect!HandleValueAdded(v, answer)
        PROVE  CollectInv'
    BY <1>1 DEF Collect!HandleValueAdded, Collect!Added
  <1>2. ASSUME NEW v \in Stream, Collect!HandleValueRemoved(v) PROVE CollectInv'
    BY <1>2 DEF Collect!HandleValueRemoved, Collect!Removed
  <1>3. CASE Collect!HandleInstanceDisposed
    BY <1>3 DEF Collect!HandleInstanceDisposed, Collect!Disposed
  <1>4. ASSUME NEW b \in BOOLEAN, NEW failed \in BOOLEAN, Collect!IdleCallback(b, failed)
        PROVE  CollectInv'
    BY <1>4 DEF Collect!IdleCallback, Collect!IdleCall
  <1>5. CASE Collect!AddIdleCallback
    BY <1>5 DEF Collect!AddIdleCallback, Collect!Register
  <1>f. CASE Collect!AddDirectiveFails
    BY <1>f DEF Collect!AddDirectiveFails, Collect!NotAdded
  <1>6. CASE Collect!CheckState
    BY <1>6 DEF Collect!CheckState
  <1>7. CASE Collect!ReleaseRef
    BY <1>7 DEF Collect!ReleaseRef, Collect!Release
  <1>8. CASE Collect!Wake
    BY <1>8 DEF Collect!Wake
  <1>9. CASE Collect!Canceled
    BY <1>9 DEF Collect!Canceled
  <1>10. CASE Collect!CancelCtx
    BY <1>10 DEF Collect!CancelCtx
  <1>11. CASE UNCHANGED Collect!vars
    BY <1>11 DEF Collect!vars, Collect!localVars
  <1> QED BY <1>1, <1>2, <1>3, <1>4, <1>5, <1>f, <1>6, <1>7, <1>8, <1>9, <1>10, <1>11
          DEF Collect!Next, Collect!CallerStep

-----------------------------------------------------------------------------
(* ExecCollectValuesWatchWithFilter *)

\* What the last snapshot l the callback was called with must be when nothing is pending.
Told(l) ==
  /\ l # NoSnapshot => l = CollectWatch!Current
  /\ l = NoSnapshot => resErr = "none" /\ ~idle /\ (waitIdle \/ vals = {})

\* The flag is set only with the broadcast; with the flag clear, the snapshot being
\* handed out or the last one is the current one.
CollectWatchInv ==
  /\ pendingEmit => signal
  /\ pc \notin {"calling", "stopped"} /\ ~pendingEmit => Told(last)
  /\ pc = "calling" => snapshot \in CollectWatch!Snapshots
  /\ pc = "calling" /\ ~pendingEmit => snapshot = CollectWatch!Current
  /\ snapshot # NoSnapshot \/ last # NoSnapshot => emittedOnce
  /\ emittedOnce /\ pc # "calling" => last # NoSnapshot
  /\ waitIdle /\ (pendingEmit \/ emittedOnce) => cause

\* The invariant holds when ExecCollectValuesWatchWithFilter is called.
LEMMA CollectWatchInit == CollectWatch!Init => CollectWatch!TypeOK /\ CollectWatchInv
  <1> SUFFICES ASSUME CollectWatch!Init PROVE CollectWatch!TypeOK /\ CollectWatchInv
    OBVIOUS
  <1> USE DEF CollectWatch!Init, CollectWatch!StreamInit, CollectWatch!IdleInit
  <1>1. CollectWatch!TypeOK
    BY DEF CollectWatch!TypeOK, CollectWatch!StreamTypeOK, CollectWatch!IdleTypeOK, CollectWatch!Errors
  <1>2. CollectWatchInv
    BY DEF CollectWatchInv, Told
  <1> QED BY <1>1, <1>2

\* Every step of ExecCollectValuesWatchWithFilter keeps the types.
LEMMA CollectWatchTypeStep == ASSUME CollectWatch!TypeOK, [CollectWatch!Next]_(CollectWatch!vars) PROVE CollectWatch!TypeOK'
  <1> USE DEF CollectWatch!TypeOK, CollectWatch!StreamTypeOK, CollectWatch!IdleTypeOK,
              CollectWatch!idleVars, CollectWatch!streamVars, CollectWatch!EmitNow
  <1>0. {"none", "filter", "resolver", "disposed"} \subseteq CollectWatch!Errors
    BY DEF CollectWatch!Errors
  <1>1. ASSUME NEW v \in Stream, NEW answer \in {"accept", "reject", "fail"},
               CollectWatch!HandleValueAdded(v, answer)
        PROVE  CollectWatch!TypeOK'
    <2> USE <1>0, <1>1 DEF CollectWatch!HandleValueAdded
    <2>1. pendingEmit' \in BOOLEAN /\ signal' \in BOOLEAN /\ cause' \in BOOLEAN
      BY DEF CollectWatch!FirstError, CollectWatch!ScheduleEmitIfReady
    <2>2. resErr' \in CollectWatch!Errors
      BY DEF CollectWatch!FirstError
    <2>3. vals' \subseteq Stream
      OBVIOUS
    <2> QED BY <2>1, <2>2, <2>3 DEF CollectWatch!Added
  <1>2. ASSUME NEW v \in Stream, CollectWatch!HandleValueRemoved(v) PROVE CollectWatch!TypeOK'
    <2> USE <1>2 DEF CollectWatch!HandleValueRemoved
    <2>1. pendingEmit' \in BOOLEAN /\ signal' \in BOOLEAN
      BY DEF CollectWatch!ScheduleEmitIfReady
    <2> QED BY <2>1 DEF CollectWatch!Removed
  <1>3. CASE CollectWatch!HandleInstanceDisposed
    <2> USE <1>0, <1>3 DEF CollectWatch!HandleInstanceDisposed
    <2>1. pendingEmit' \in BOOLEAN /\ signal' \in BOOLEAN /\ cause' \in BOOLEAN
      BY DEF CollectWatch!FirstError
    <2>2. resErr' \in CollectWatch!Errors
      BY DEF CollectWatch!FirstError
    <2> QED BY <2>1, <2>2 DEF CollectWatch!Disposed
  <1>4. ASSUME NEW b \in BOOLEAN, NEW failed \in BOOLEAN, CollectWatch!IdleCallback(b, failed)
        PROVE  CollectWatch!TypeOK'
    <2> USE <1>0, <1>4 DEF CollectWatch!IdleCallback
    <2>1. pendingEmit' \in BOOLEAN /\ signal' \in BOOLEAN /\ cause' \in BOOLEAN
      OBVIOUS
    <2>2. resErr' \in CollectWatch!Errors
      OBVIOUS
    <2> QED BY <2>1, <2>2 DEF CollectWatch!IdleCall
  <1>5. CASE CollectWatch!AddIdleCallback
    BY <1>5 DEF CollectWatch!AddIdleCallback, CollectWatch!Register
  <1>f. CASE CollectWatch!AddDirectiveFails
    BY <1>0, <1>f DEF CollectWatch!AddDirectiveFails, CollectWatch!NotAdded
  <1>6. CASE CollectWatch!TakeSnapshot
    <2>1. CollectWatch!Current \in CollectWatch!Snapshots
      BY DEF CollectWatch!Current, CollectWatch!Snapshots
    <2> QED BY <1>6, <2>1 DEF CollectWatch!TakeSnapshot
  <1>7. ASSUME NEW ok \in BOOLEAN, CollectWatch!Callback(ok) PROVE CollectWatch!TypeOK'
    BY <1>7 DEF CollectWatch!Callback
  <1>8. CASE CollectWatch!Wake
    BY <1>8 DEF CollectWatch!Wake
  <1>9. CASE CollectWatch!Canceled
    BY <1>9 DEF CollectWatch!Canceled
  <1>10. CASE CollectWatch!CancelCtx
    BY <1>10 DEF CollectWatch!CancelCtx
  <1>11. CASE CollectWatch!Cleanup
    <2>1. CollectWatch!StreamTypeOK'
      BY <1>11 DEF CollectWatch!Cleanup, CollectWatch!Release
    <2> QED BY <1>11, <2>1 DEF CollectWatch!Cleanup, CollectWatch!localVars
  <1>12. CASE UNCHANGED CollectWatch!vars
    BY <1>12 DEF CollectWatch!vars, CollectWatch!localVars
  <1> QED BY <1>1, <1>2, <1>3, <1>4, <1>5, <1>f, <1>6, <1>7, <1>8, <1>9, <1>10, <1>11, <1>12
          DEF CollectWatch!Next, CollectWatch!CallerStep

\* Every step of ExecCollectValuesWatchWithFilter keeps the invariant.
LEMMA CollectWatchStep ==
  ASSUME CollectWatch!TypeOK, CollectWatchInv, [CollectWatch!Next]_(CollectWatch!vars)
  PROVE  CollectWatchInv'
  <1> USE NoSnapshotAssumption DEF CollectWatchInv, Told, CollectWatch!TypeOK, CollectWatch!Current,
              CollectWatch!idleVars, CollectWatch!streamVars, CollectWatch!EmitNow
  <1>1. ASSUME NEW v \in Stream, NEW answer \in {"accept", "reject", "fail"},
               CollectWatch!HandleValueAdded(v, answer)
        PROVE  CollectWatchInv'
    <2> USE <1>1 DEF CollectWatch!HandleValueAdded, CollectWatch!Added,
            CollectWatch!FirstError, CollectWatch!ScheduleEmitIfReady
    <2>1. CASE answer = "accept" BY <2>1
    <2>2. CASE answer = "reject" BY <2>2
    <2>3. CASE answer = "fail" BY <2>3
    <2> QED BY <2>1, <2>2, <2>3
  <1>2. ASSUME NEW v \in Stream, CollectWatch!HandleValueRemoved(v) PROVE CollectWatchInv'
    BY <1>2 DEF CollectWatch!HandleValueRemoved, CollectWatch!Removed, CollectWatch!ScheduleEmitIfReady
  <1>3. CASE CollectWatch!HandleInstanceDisposed
    BY <1>3 DEF CollectWatch!HandleInstanceDisposed, CollectWatch!Disposed, CollectWatch!FirstError
  <1>4. ASSUME NEW b \in BOOLEAN, NEW failed \in BOOLEAN, CollectWatch!IdleCallback(b, failed)
        PROVE  CollectWatchInv'
    BY <1>4 DEF CollectWatch!IdleCallback, CollectWatch!IdleCall
  <1>5. CASE CollectWatch!AddIdleCallback
    BY <1>5 DEF CollectWatch!AddIdleCallback, CollectWatch!Register
  <1>f. CASE CollectWatch!AddDirectiveFails
    BY <1>f DEF CollectWatch!AddDirectiveFails, CollectWatch!NotAdded
  <1>6. CASE CollectWatch!TakeSnapshot
    <2>1. CollectWatch!Current \in CollectWatch!Snapshots
      BY DEF CollectWatch!Current, CollectWatch!Snapshots
    <2> QED BY <1>6, <2>1 DEF CollectWatch!TakeSnapshot
  <1>7. ASSUME NEW ok \in BOOLEAN, CollectWatch!Callback(ok) PROVE CollectWatchInv'
    BY <1>7 DEF CollectWatch!Callback
  <1>8. CASE CollectWatch!Wake
    BY <1>8 DEF CollectWatch!Wake
  <1>9. CASE CollectWatch!Canceled
    BY <1>9 DEF CollectWatch!Canceled
  <1>10. CASE CollectWatch!CancelCtx
    BY <1>10 DEF CollectWatch!CancelCtx
  <1>11. CASE CollectWatch!Cleanup
    BY <1>11 DEF CollectWatch!Cleanup, CollectWatch!Release, CollectWatch!localVars
  <1>12. CASE UNCHANGED CollectWatch!vars
    BY <1>12 DEF CollectWatch!vars, CollectWatch!localVars
  <1> QED BY <1>1, <1>2, <1>3, <1>4, <1>5, <1>f, <1>6, <1>7, <1>8, <1>9, <1>10, <1>11, <1>12
          DEF CollectWatch!Next, CollectWatch!CallerStep

\* The invariant implies the properties of ExecCollectValuesWatchWithFilter.
LEMMA CollectWatchSafe ==
  CollectWatch!TypeOK /\ CollectWatchInv => CollectWatch!LastIsCurrent /\ CollectWatch!BuffersUntilIdle
  BY DEF CollectWatchInv, Told, CollectWatch!TypeOK, CollectWatch!LastIsCurrent, CollectWatch!BuffersUntilIdle

-----------------------------------------------------------------------------
(* ExecOneOffWatchCb and ExecOneOffWatchCh *)

\* The values that can be selected are those that are there and were not rejected; a
\* callback runs with the value that is selected.
WatchLatestInv ==
  /\ rejected \subseteq given
  /\ vals = (given \ gone) \ rejected
  /\ WatchLatest!LatestIsReadable
  /\ call = WatchLatest!NoCall /\ ~ended =>
       /\ curr # NoValue => curr = latest /\ curr \in vals
       /\ curr = NoValue => vals = {}
  /\ call # WatchLatest!NoCall =>
       /\ call.val = latest /\ call.val = curr
       /\ call.from \in {"added", "removed"} => call.val \in vals
       /\ call.from = "added" => vals = {call.val}
       /\ call.from = "end" => call.val = NoValue /\ (vals = {} \/ ended)

\* The invariant holds when ExecOneOffWatchCb is called.
LEMMA WatchLatestInit == WatchLatest!Init => WatchLatest!TypeOK /\ WatchLatestInv
  <1> SUFFICES ASSUME WatchLatest!Init PROVE WatchLatest!TypeOK /\ WatchLatestInv
    OBVIOUS
  <1> USE DEF WatchLatest!Init, WatchLatest!StreamInit
  <1>1. WatchLatest!TypeOK
    <2>1. valCh \in Seq(Stream \cup {NoValue}) /\ Len(valCh) <= 1
      OBVIOUS
    <2> QED BY <2>1 DEF WatchLatest!TypeOK, WatchLatest!StreamTypeOK
  <1>2. WatchLatestInv
    BY DEF WatchLatestInv, WatchLatest!LatestIsReadable
  <1> QED BY <1>1, <1>2

\* The record of a callback that runs is never the one that says that none runs.
LEMMA WatchLatestCall ==
  /\ \A c \in WatchLatest!Call : c # WatchLatest!NoCall
  /\ \A v \in Stream \cup {NoValue}, from \in {"added", "removed", "end"} :
       [at |-> "send", val |-> v, from |-> from] \in WatchLatest!Call
  BY DEF WatchLatest!Call, WatchLatest!NoCall

\* Every step of ExecOneOffWatchCb keeps the types.
LEMMA WatchLatestTypeStep == ASSUME WatchLatest!TypeOK, [WatchLatest!Next]_(WatchLatest!vars) PROVE WatchLatest!TypeOK'
  <1> DEFINE Values == Stream \cup {NoValue}
  <1> USE DEF WatchLatest!TypeOK, WatchLatest!StreamTypeOK, WatchLatest!streamVars
  <1>0. ASSUME NEW v \in Values, NEW from \in {"added", "removed", "end"}, WatchLatest!Calls(v, from)
        PROVE  call' \in WatchLatest!Call /\ curr' \in Values /\ latest' \in Values
    BY <1>0, WatchLatestCall DEF WatchLatest!Calls
  <1>00. ASSUME NEW s \in SUBSET Stream, WatchLatest!SelectNext(s)
         PROVE  call' \in WatchLatest!Call /\ curr' \in Values /\ latest' \in Values
    BY <1>0, <1>00 DEF WatchLatest!SelectNext
  <1>1. ASSUME NEW v \in Stream, WatchLatest!HandleValueAdded(v) PROVE WatchLatest!TypeOK'
    BY <1>0, <1>1 DEF WatchLatest!HandleValueAdded, WatchLatest!Added
  <1>2. ASSUME NEW v \in Stream, WatchLatest!HandleValueRemoved(v) PROVE WatchLatest!TypeOK'
    BY <1>00, <1>2 DEF WatchLatest!HandleValueRemoved, WatchLatest!Removed
  <1>3. CASE WatchLatest!HandleInstanceDisposed
    BY <1>0, <1>3 DEF WatchLatest!HandleInstanceDisposed, WatchLatest!Disposed
  <1>4. ASSUME NEW accept \in BOOLEAN, WatchLatest!Send(accept) PROVE WatchLatest!TypeOK'
    <2>1. call \in WatchLatest!Call /\ call.val \in Values
      BY <1>4 DEF WatchLatest!Send, WatchLatest!Call
    <2>2. valCh' = <<call.val>>
      BY <1>4 DEF WatchLatest!Send
    <2>3. valCh' \in Seq(Values) /\ Len(valCh') <= 1
      BY <2>1, <2>2
    <2>4. /\ call' \in WatchLatest!Call \cup {WatchLatest!NoCall}
          /\ curr' \in Values /\ latest' \in Values
          /\ vals' \subseteq Stream /\ rejected' \subseteq Stream
      BY <1>00, <1>4, <2>1 DEF WatchLatest!Send, WatchLatest!Returned
    <2> QED BY <1>4, <2>3, <2>4 DEF WatchLatest!Send
  <1>5. CASE WatchLatest!Full
    <2>1. call' \in WatchLatest!Call
      BY <1>5 DEF WatchLatest!Full, WatchLatest!Call
    <2> QED BY <1>5, <2>1 DEF WatchLatest!Full
  <1>6. CASE WatchLatest!Drop
    <2>1. call' \in WatchLatest!Call
      BY <1>6 DEF WatchLatest!Drop, WatchLatest!Call
    <2> QED BY <1>6, <2>1 DEF WatchLatest!Drop
  <1>7. CASE WatchLatest!Receive
    BY <1>7 DEF WatchLatest!Receive
  <1>8. CASE WatchLatest!Stop
    BY <1>8 DEF WatchLatest!Stop, WatchLatest!Release
  <1>9. CASE UNCHANGED WatchLatest!vars
    BY <1>9 DEF WatchLatest!vars, WatchLatest!localVars
  <1> QED BY <1>1, <1>2, <1>3, <1>4, <1>5, <1>6, <1>7, <1>8, <1>9 DEF WatchLatest!Next

\* Every step of ExecOneOffWatchCb keeps the invariant.
LEMMA WatchLatestStep ==
  ASSUME WatchLatest!TypeOK, WatchLatestInv, [WatchLatest!Next]_(WatchLatest!vars)
  PROVE  WatchLatestInv'
  <1> USE NoValueAssumption DEF WatchLatestInv, WatchLatest!StreamTypeOK,
              WatchLatest!LatestIsReadable, WatchLatest!streamVars
  <1>0. /\ WatchLatest!StreamTypeOK /\ vals \subseteq Stream
        /\ call \in WatchLatest!Call \cup {WatchLatest!NoCall}
        /\ valCh \in Seq(Stream \cup {NoValue}) /\ Len(valCh) <= 1
    BY DEF WatchLatest!TypeOK
  <1>a. ASSUME NEW v \in Stream \cup {NoValue}, NEW from \in {"added", "removed", "end"},
               WatchLatest!Calls(v, from)
        PROVE  /\ call' # WatchLatest!NoCall /\ call'.val = v /\ call'.from = from
               /\ curr' = v /\ latest' = v
    BY <1>a, WatchLatestCall DEF WatchLatest!Calls
  <1>b. ASSUME NEW s \in SUBSET Stream, WatchLatest!SelectNext(s)
        PROVE  /\ call' # WatchLatest!NoCall /\ call'.val = curr' /\ call'.val = latest'
               /\ \/ s = {} /\ call'.val = NoValue /\ call'.from = "end"
                  \/ call'.val \in s /\ call'.from = "removed"
    BY <1>a, <1>b DEF WatchLatest!SelectNext
  <1>1. ASSUME NEW v \in Stream, WatchLatest!HandleValueAdded(v) PROVE WatchLatestInv'
    <2> USE <1>0, <1>1 DEF WatchLatest!HandleValueAdded, WatchLatest!Added
    <2>1. CASE curr = NoValue /\ WatchLatest!Calls(v, "added")
      BY <1>a, <2>1
    <2>2. CASE curr # NoValue /\ UNCHANGED <<curr, call, latest>>
      BY <2>2
    <2> QED BY <2>1, <2>2
  <1>2. ASSUME NEW v \in Stream, WatchLatest!HandleValueRemoved(v) PROVE WatchLatestInv'
    <2> USE <1>0, <1>2 DEF WatchLatest!HandleValueRemoved, WatchLatest!Removed
    <2>1. CASE curr = v /\ WatchLatest!SelectNext(vals \ {v})
      BY <1>b, <2>1
    <2>2. CASE curr # v /\ UNCHANGED <<curr, call, latest>>
      BY <2>2
    <2> QED BY <2>1, <2>2
  <1>3. CASE WatchLatest!HandleInstanceDisposed
    <2> USE <1>0, <1>3 DEF WatchLatest!HandleInstanceDisposed, WatchLatest!Disposed
    <2>1. CASE curr # NoValue /\ WatchLatest!Calls(NoValue, "end")
      BY <1>a, <2>1
    <2>2. CASE curr = NoValue /\ UNCHANGED <<curr, call, latest>>
      BY <2>2
    <2> QED BY <2>1, <2>2
  <1>4. ASSUME NEW accept \in BOOLEAN, WatchLatest!Send(accept) PROVE WatchLatestInv'
    <2>0. call \in WatchLatest!Call /\ call.val \in Stream \cup {NoValue}
          /\ call.from \in {"added", "removed", "end"}
      BY <1>0, <1>4 DEF WatchLatest!Send, WatchLatest!Call
    <2> USE <1>0, <1>4, <2>0 DEF WatchLatest!Send, WatchLatest!Returned
    <2>1. CASE accept
      BY <2>1
    <2>2. CASE ~accept /\ call.from = "removed"
      BY <1>b, <2>2
    <2>3. CASE ~accept /\ call.from # "removed"
      BY <2>3
    <2> QED BY <2>1, <2>2, <2>3
  <1>5. CASE WatchLatest!Full
    BY <1>0, <1>5, WatchLatestCall DEF WatchLatest!Full, WatchLatest!Call
  <1>6. CASE WatchLatest!Drop
    BY <1>0, <1>6, WatchLatestCall DEF WatchLatest!Drop, WatchLatest!Call
  <1>7. CASE WatchLatest!Receive
    BY <1>0, <1>7 DEF WatchLatest!Receive
  <1>8. CASE WatchLatest!Stop
    BY <1>0, <1>8 DEF WatchLatest!Stop, WatchLatest!Release
  <1>9. CASE UNCHANGED WatchLatest!vars
    BY <1>9, <1>0 DEF WatchLatest!vars, WatchLatest!localVars
  <1> QED BY <1>1, <1>2, <1>3, <1>4, <1>5, <1>6, <1>7, <1>8, <1>9 DEF WatchLatest!Next

\* The invariant implies the properties of ExecOneOffWatchCb.
LEMMA WatchLatestSafe ==
  WatchLatestInv => WatchLatest!SelectedIsValid /\ WatchLatest!LatestIsReadable
  BY DEF WatchLatestInv, WatchLatest!SelectedIsValid

-----------------------------------------------------------------------------
(* ExecOneOffWatchSelectCb *)

\* The operators on lists the instances bring along are those of this module.
LEMMA SelectOps ==
  /\ \A s : Select!SortFunc(s) = SortFunc(s)
  /\ \A s, v : Select!RemoveFirst(s, v) = RemoveFirst(s, v)
  <1>1. \A s : Select!SortFunc(s) = SortFunc(s)
    BY DEF Select!SortFunc, SortFunc, Select!Insert, Insert, Select!InsertAt, InsertAt,
           Select!Rest, Rest, Select!IdDiff, IdDiff
  <1>2. \A s, v : Select!RemoveFirst(s, v) = RemoveFirst(s, v)
    BY DEF Select!RemoveFirst, RemoveFirst, Select!RemoveAt, RemoveAt,
           Select!SelectInSeq, SelectInSeq, Select!Min, Min
  <1> QED BY <1>1, <1>2

\* The list is that of the values that are there, and the callback knows its first.
SelectInv ==
  /\ Select!TypeOK
  /\ Unique(sortedVals)
  /\ \A v : Contains(sortedVals, v) <=> v \in given \ gone /\ ~ended
  /\ curr = IF sortedVals = <<>> THEN NoValue ELSE Head(sortedVals)
  /\ latest = curr

\* The invariant holds when ExecOneOffWatchSelectCb is called.
LEMMA SelectInit == Select!Init => SelectInv
  <1> SUFFICES ASSUME Select!Init PROVE SelectInv
    OBVIOUS
  <1> USE DEF Select!Init, Select!StreamInit
  <1>1. Select!TypeOK
    <2>1. sortedVals \in Seq(Stream)
      OBVIOUS
    <2> QED BY <2>1 DEF Select!TypeOK, Select!StreamTypeOK
  <1> QED BY <1>1, EmptyListed DEF SelectInv

\* A list that is not empty has a first value, which is listed.
LEMMA HeadListed ==
  ASSUME NEW S, NEW s \in Seq(S)
  PROVE  /\ s # <<>> => Head(s) \in S /\ Contains(s, Head(s))
         /\ s = <<>> <=> \A v : ~Contains(s, v)
  <1>1. s # <<>> => 1 \in 1..Len(s) /\ Head(s) = s[1] /\ s[1] \in S
    OBVIOUS
  <1>2. s # <<>> => Head(s) \in S /\ Contains(s, Head(s))
    BY <1>1 DEF Contains
  <1>3. s = <<>> => \A v : ~Contains(s, v)
    BY DEF Contains
  <1> QED BY <1>2, <1>3

\* selectNextValue tells the callback the first value of any list.
LEMMA SelectNextValueStep ==
  ASSUME SelectInv, NEW s \in Seq(Stream), Select!SelectNextValue(s)
  PROVE  /\ sortedVals' = s
         /\ curr' = (IF s = <<>> THEN NoValue ELSE Head(s))
         /\ latest' = curr'
         /\ curr' \in Stream \cup {NoValue}
  BY HeadListed DEF SelectInv, Select!SelectNextValue

\* Every step keeps the invariant.
LEMMA SelectStep == ASSUME SelectInv, [Select!Next]_(Select!vars) PROVE SelectInv'
  <1>0. /\ sortedVals \in Seq(Stream) /\ Select!StreamTypeOK
        /\ curr \in Stream \cup {NoValue} /\ latest \in Stream \cup {NoValue}
    BY DEF SelectInv, Select!TypeOK
  <1>1. ASSUME NEW v \in Stream, Select!HandleValueAdded(v) PROVE SelectInv'
    <2> DEFINE t == Append(sortedVals, v)
    <2>1. ~Contains(sortedVals, v)
      BY <1>0, <1>1 DEF SelectInv, Select!HandleValueAdded, Select!Added, Select!StreamTypeOK
    <2>2. /\ t \in Seq(Stream) /\ Unique(t)
          /\ \A x : Contains(t, x) <=> Contains(sortedVals, x) \/ x = v
      BY <1>0, <2>1, AppendListed DEF SelectInv
    <2>3. t \in Seq(Int)
      BY <2>2, StreamSeq
    <2>4. Select!SelectNextValue(t)
      BY <1>1, <2>3, SortKeeps, SelectOps DEF Select!HandleValueAdded
    <2> HIDE DEF t
    <2>5. /\ sortedVals' = t /\ latest' = curr' /\ curr' \in Stream \cup {NoValue}
          /\ curr' = (IF t = <<>> THEN NoValue ELSE Head(t))
      BY <2>2, <2>4, SelectNextValueStep
    <2>6. Select!StreamTypeOK'
      BY <1>0, <1>1 DEF Select!HandleValueAdded, Select!Added, Select!StreamTypeOK
    <2>7. \A x : Contains(t, x) <=> x \in given' \ gone' /\ ~ended'
      BY <1>0, <1>1, <2>2 DEF SelectInv, Select!HandleValueAdded, Select!Added, Select!StreamTypeOK
    <2> QED BY <2>2, <2>5, <2>6, <2>7 DEF SelectInv, Select!TypeOK
  <1>2. ASSUME NEW v \in Stream, Select!HandleValueRemoved(v) PROVE SelectInv'
    <2> DEFINE t == RemoveFirst(sortedVals, v)
    <2>1. Contains(sortedVals, v)
      BY <1>0, <1>2 DEF SelectInv, Select!HandleValueRemoved, Select!Removed
    <2>2. /\ t \in Seq(Stream) /\ Unique(t)
          /\ \A x : Contains(t, x) <=> Contains(sortedVals, x) /\ x # v
      BY <1>0, <2>1, RemoveFirstListed DEF SelectInv
    <2>4. Select!SelectNextValue(t)
      BY <1>2, SelectOps DEF Select!HandleValueRemoved
    <2> HIDE DEF t
    <2>5. /\ sortedVals' = t /\ latest' = curr' /\ curr' \in Stream \cup {NoValue}
          /\ curr' = (IF t = <<>> THEN NoValue ELSE Head(t))
      BY <2>2, <2>4, SelectNextValueStep
    <2>6. Select!StreamTypeOK'
      BY <1>0, <1>2 DEF Select!HandleValueRemoved, Select!Removed, Select!StreamTypeOK
    <2>7. \A x : Contains(t, x) <=> x \in given' \ gone' /\ ~ended'
      BY <1>0, <1>2, <2>2 DEF SelectInv, Select!HandleValueRemoved, Select!Removed, Select!StreamTypeOK
    <2> QED BY <2>2, <2>5, <2>6, <2>7 DEF SelectInv, Select!TypeOK
  <1>3. CASE Select!HandleInstanceDisposed
    BY <1>0, <1>3, EmptyListed DEF Select!HandleInstanceDisposed, Select!Disposed, SelectInv,
                      Select!TypeOK, Select!StreamTypeOK
  <1>4. CASE Select!ReleaseRef
    BY <1>0, <1>4 DEF Select!ReleaseRef, Select!Release, Select!localVars, SelectInv,
                      Select!TypeOK, Select!StreamTypeOK
  <1>5. CASE UNCHANGED Select!vars
    BY <1>0, <1>5 DEF Select!vars, Select!streamVars, Select!localVars, SelectInv,
                      Select!TypeOK, Select!StreamTypeOK
  <1> QED BY <1>1, <1>2, <1>3, <1>4, <1>5 DEF Select!Next

\* The invariant implies the properties of ExecOneOffWatchSelectCb.
LEMMA SelectSafe == SelectInv => Select!SelectedIsValid
  <1> SUFFICES ASSUME SelectInv PROVE Select!SelectedIsValid
    OBVIOUS
  <1>1. sortedVals \in Seq(Stream)
    BY DEF SelectInv, Select!TypeOK
  <1> QED BY <1>1, HeadListed, NoValueAssumption DEF SelectInv, Select!SelectedIsValid

-----------------------------------------------------------------------------
(* ExecWatchTransformEffect *)

\* The operators on lists the instance brings along are those of this module.
LEMMA EffectOps ==
  /\ \A s : WatchEffect!SortFunc(s) = SortFunc(s)
  /\ \A s, v : WatchEffect!RemoveFirst(s, v) = RemoveFirst(s, v)
  /\ \A s, v : WatchEffect!Contains(s, v) <=> Contains(s, v)
  <1>1. \A s : WatchEffect!SortFunc(s) = SortFunc(s)
    BY DEF WatchEffect!SortFunc, SortFunc, WatchEffect!Insert, Insert, WatchEffect!InsertAt, InsertAt,
           WatchEffect!Rest, Rest, WatchEffect!IdDiff, IdDiff
  <1>2. \A s, v : WatchEffect!RemoveFirst(s, v) = RemoveFirst(s, v)
    BY DEF WatchEffect!RemoveFirst, RemoveFirst, WatchEffect!RemoveAt, RemoveAt,
           WatchEffect!SelectInSeq, SelectInSeq, WatchEffect!Min, Min
  <1>3. \A s, v : WatchEffect!Contains(s, v) <=> Contains(s, v)
    BY DEF WatchEffect!Contains, Contains
  <1> QED BY <1>1, <1>2, <1>3

\* The list of the transformed values, and the value of it the effect is applied to.
EffectList ==
  /\ xfrmVals \in Seq(Stream) /\ Unique(xfrmVals)
  /\ effectVal \in Stream \cup {NoValue} /\ applied \subseteq Stream
  /\ effectVal # NoValue => Contains(xfrmVals, effectVal)
  /\ applied = {effectVal} \ {NoValue}

\* The types of the variables EffectList does not speak of.
EffectTypes ==
  /\ WatchEffect!StreamTypeOK
  /\ vals \subseteq given /\ rels \subseteq vals /\ canceled \subseteq Stream
  /\ dropping \subseteq Stream
  /\ keyed \in [Stream -> WatchEffect!Routine]
  /\ releasing \in Stream \cup {NoValue}
  /\ ctxDone \in BOOLEAN

\* Where the goroutine of a value is, and who has its release function: the
\* goroutine itself, the table, or the call of the instance that undoes it.
EffectOwner(v) ==
  /\ keyed[v] # "none" => v \in given
  /\ v \in rels \/ releasing = v => keyed[v] = "done"
  /\ ~(v \in rels /\ releasing = v)
  /\ Contains(xfrmVals, v) <=>
       keyed[v] \in {"applied", "keep", "undo"} \/ v \in rels \/ releasing = v
  /\ keyed[v] = "undo" => v \in canceled \/ v \notin vals
  /\ keyed[v] = "done" => v \in rels \/ v \in canceled \/ v \notin vals

WatchEffectInv == EffectList /\ EffectTypes /\ \A v \in Stream : EffectOwner(v)

\* The invariant holds when ExecWatchTransformEffect is called.
LEMMA WatchEffectInit == WatchEffect!Init => WatchEffectInv
  <1> SUFFICES ASSUME WatchEffect!Init PROVE WatchEffectInv
    OBVIOUS
  <1> USE NoValueAssumption DEF WatchEffect!Init, WatchEffect!StreamInit
  <1>1. EffectList
    BY EmptyListed DEF EffectList
  <1>2. EffectTypes
    BY DEF EffectTypes, WatchEffect!StreamTypeOK, WatchEffect!Routine
  <1>3. \A v \in Stream : EffectOwner(v)
    BY EmptyListed DEF EffectOwner
  <1> QED BY <1>1, <1>2, <1>3 DEF WatchEffectInv

\* The effect: the value is listed, and the effect applied to the first of the list.
LEMMA EffectApplies ==
  ASSUME EffectList, NEW v \in Stream, ~Contains(xfrmVals, v), WatchEffect!Effect(v)
  PROVE  EffectList' /\ \A x : Contains(xfrmVals', x) <=> Contains(xfrmVals, x) \/ x = v
  <1> DEFINE t == Append(xfrmVals, v)
  <1>1. /\ t \in Seq(Stream) /\ Unique(t)
        /\ \A x : Contains(t, x) <=> Contains(xfrmVals, x) \/ x = v
    BY AppendListed DEF EffectList
  <1>2. t \in Seq(Int)
    BY <1>1, StreamSeq
  <1>3. WatchEffect!MaybeCallEffect(t)
    BY <1>2, SortKeeps, EffectOps DEF WatchEffect!Effect
  <1> HIDE DEF t
  <1>4. t # <<>>
    BY <1>1, HeadListed
  <1>5. Head(t) \in Stream /\ Contains(t, Head(t))
    BY <1>1, <1>4, HeadListed
  <1>6. xfrmVals' = t /\ effectVal' = Head(t)
    BY <1>3 DEF WatchEffect!MaybeCallEffect
  <1>7. applied' = {Head(t)}
    BY <1>3, <1>5, NoValueAssumption DEF WatchEffect!MaybeCallEffect, EffectList
  <1>8. EffectList'
    BY <1>1, <1>5, <1>6, <1>7, NoValueAssumption DEF EffectList
  <1> QED BY <1>1, <1>6, <1>8

\* The release function: the value is taken from the list, its effect undone.
LEMMA UndoUndoes ==
  ASSUME EffectList, NEW v \in Stream, Contains(xfrmVals, v), WatchEffect!Undo(v)
  PROVE  EffectList' /\ \A x : Contains(xfrmVals', x) <=> Contains(xfrmVals, x) /\ x # v
  <1> DEFINE t == RemoveFirst(xfrmVals, v)
  <1>1. /\ t \in Seq(Stream) /\ Unique(t)
        /\ \A x : Contains(t, x) <=> Contains(xfrmVals, x) /\ x # v
    BY RemoveFirstListed DEF EffectList
  <1>2. xfrmVals' = t
    BY EffectOps DEF WatchEffect!Undo
  <1>3. /\ effectVal' = (IF effectVal = v THEN NoValue ELSE effectVal)
        /\ applied' = (IF effectVal = v THEN applied \ {v} ELSE applied)
    BY EffectOps DEF WatchEffect!Undo
  <1> HIDE DEF t
  <1>4. EffectList'
    BY <1>1, <1>2, <1>3, NoValueAssumption DEF EffectList
  <1> QED BY <1>1, <1>2, <1>4

\* Every step keeps the invariant.
LEMMA WatchEffectStep ==
  ASSUME WatchEffectInv, [WatchEffect!Next]_(WatchEffect!vars)
  PROVE  WatchEffectInv'
  <1> USE NoValueAssumption DEF WatchEffectInv, WatchEffect!streamVars, WatchEffect!Goes
  <1>0. ASSUME UNCHANGED <<xfrmVals, effectVal, applied>> PROVE EffectList'
    BY <1>0 DEF EffectList
  <1>1. ASSUME NEW v \in Stream, WatchEffect!HandleValueAdded(v) PROVE WatchEffectInv'
    <2> USE <1>1 DEF WatchEffect!HandleValueAdded, WatchEffect!Added
    <2>1. EffectTypes'
      BY DEF EffectTypes, WatchEffect!StreamTypeOK, WatchEffect!Routine
    <2>2. \A x \in Stream : EffectOwner(x)'
      BY DEF EffectTypes, EffectOwner, WatchEffect!StreamTypeOK
    <2> QED BY <1>0, <2>1, <2>2
  <1>2. ASSUME NEW v \in Stream, WatchEffect!HandleValueRemoved(v) PROVE WatchEffectInv'
    <2> USE <1>2 DEF WatchEffect!HandleValueRemoved, WatchEffect!Removed
    <2>1. EffectTypes'
      BY DEF EffectTypes, WatchEffect!StreamTypeOK
    <2>2. \A x \in Stream : EffectOwner(x)'
      BY DEF EffectOwner
    <2> QED BY <1>0, <2>1, <2>2
  <1>3. CASE WatchEffect!HandleInstanceDisposed
    <2> USE <1>3 DEF WatchEffect!HandleInstanceDisposed, WatchEffect!Disposed
    <2>1. EffectTypes'
      BY DEF EffectTypes, WatchEffect!StreamTypeOK
    <2>2. \A x \in Stream : EffectOwner(x)'
      BY DEF EffectOwner
    <2> QED BY <1>0, <2>1, <2>2
  <1>4. ASSUME NEW v \in Stream, WatchEffect!DropValue(v) PROVE WatchEffectInv'
    <2> USE <1>4 DEF WatchEffect!DropValue
    <2>1. EffectTypes'
      BY DEF EffectTypes, WatchEffect!StreamTypeOK
    <2>2. \A x \in Stream : EffectOwner(x)'
      BY DEF EffectTypes, EffectOwner
    <2> QED BY <1>0, <2>1, <2>2
  <1>5. CASE WatchEffect!ReleaseDropped
    <2> USE <1>5 DEF WatchEffect!ReleaseDropped
    <2>1. releasing \in Stream /\ Contains(xfrmVals, releasing)
      BY DEF EffectTypes, EffectOwner
    <2>2. EffectList' /\ \A x : Contains(xfrmVals', x) <=> Contains(xfrmVals, x) /\ x # releasing
      BY <2>1, UndoUndoes
    <2>3. EffectTypes'
      BY DEF EffectTypes, WatchEffect!StreamTypeOK
    <2>4. \A x \in Stream : EffectOwner(x)'
      BY <2>2 DEF EffectOwner
    <2> QED BY <2>2, <2>3, <2>4
  <1>6. ASSUME NEW v \in Stream, NEW ok \in BOOLEAN, WatchEffect!Transformed(v, ok) PROVE WatchEffectInv'
    <2> USE <1>6 DEF WatchEffect!Transformed
    <2>1. EffectTypes'
      BY DEF EffectTypes, WatchEffect!StreamTypeOK, WatchEffect!Routine
    <2>2. \A x \in Stream : EffectOwner(x)'
      BY DEF EffectTypes, EffectOwner
    <2> QED BY <1>0, <2>1, <2>2
  <1>7. ASSUME NEW v \in Stream, WatchEffect!CallEffect(v) PROVE WatchEffectInv'
    <2> USE <1>7 DEF WatchEffect!CallEffect
    <2>1. ~Contains(xfrmVals, v)
      BY DEF EffectOwner
    <2>2. EffectList' /\ \A x : Contains(xfrmVals', x) <=> Contains(xfrmVals, x) \/ x = v
      BY <2>1, EffectApplies
    <2>3. EffectTypes'
      BY DEF EffectTypes, WatchEffect!StreamTypeOK, WatchEffect!Routine
    <2>4. \A x \in Stream : EffectOwner(x)'
      BY <2>2 DEF EffectTypes, EffectOwner
    <2> QED BY <2>2, <2>3, <2>4
  <1>8. ASSUME NEW v \in Stream, WatchEffect!CheckCanceled(v) PROVE WatchEffectInv'
    <2> USE <1>8 DEF WatchEffect!CheckCanceled
    <2>1. EffectTypes'
      BY DEF EffectTypes, WatchEffect!StreamTypeOK, WatchEffect!Routine
    <2>2. \A x \in Stream : EffectOwner(x)'
      BY DEF EffectTypes, EffectOwner
    <2> QED BY <1>0, <2>1, <2>2
  <1>9. ASSUME NEW v \in Stream, WatchEffect!KeepRelease(v) PROVE WatchEffectInv'
    <2> USE <1>9 DEF WatchEffect!KeepRelease
    <2>1. EffectTypes'
      BY DEF EffectTypes, WatchEffect!StreamTypeOK, WatchEffect!Routine
    <2>2. \A x \in Stream : EffectOwner(x)'
      BY DEF EffectTypes, EffectOwner
    <2> QED BY <1>0, <2>1, <2>2
  <1>10. ASSUME NEW v \in Stream, WatchEffect!UndoEffect(v) PROVE WatchEffectInv'
    <2> USE <1>10 DEF WatchEffect!UndoEffect
    <2>1. Contains(xfrmVals, v)
      BY DEF EffectOwner
    <2>2. EffectList' /\ \A x : Contains(xfrmVals', x) <=> Contains(xfrmVals, x) /\ x # v
      BY <2>1, UndoUndoes
    <2>3. EffectTypes'
      BY DEF EffectTypes, WatchEffect!StreamTypeOK, WatchEffect!Routine
    <2>4. \A x \in Stream : EffectOwner(x)'
      BY <2>2 DEF EffectTypes, EffectOwner
    <2> QED BY <2>2, <2>3, <2>4
  <1>11. CASE WatchEffect!CancelCtx
    <2> USE <1>11 DEF WatchEffect!CancelCtx
    <2>1. EffectTypes'
      BY DEF EffectTypes, WatchEffect!StreamTypeOK
    <2>2. \A x \in Stream : EffectOwner(x)'
      BY DEF EffectOwner
    <2> QED BY <1>0, <2>1, <2>2
  <1>12. CASE WatchEffect!ReleaseRef
    <2> USE <1>12 DEF WatchEffect!ReleaseRef, WatchEffect!Release, WatchEffect!localVars
    <2>1. EffectTypes'
      BY DEF EffectTypes, WatchEffect!StreamTypeOK
    <2>2. \A x \in Stream : EffectOwner(x)'
      BY DEF EffectOwner
    <2> QED BY <1>0, <2>1, <2>2
  <1>13. CASE UNCHANGED WatchEffect!vars
    <2> USE <1>13 DEF WatchEffect!vars, WatchEffect!localVars
    <2>1. EffectTypes'
      BY DEF EffectTypes, WatchEffect!StreamTypeOK
    <2>2. \A x \in Stream : EffectOwner(x)'
      BY DEF EffectOwner
    <2> QED BY <1>0, <2>1, <2>2
  <1> QED BY <1>1, <1>2, <1>3, <1>4, <1>5, <1>6, <1>7, <1>8, <1>9, <1>10, <1>11, <1>12, <1>13
          DEF WatchEffect!Next, WatchEffect!RoutineStep

\* The invariant implies the properties of ExecWatchTransformEffect.
LEMMA WatchEffectSafe ==
  WatchEffectInv => WatchEffect!OneEffect /\ WatchEffect!RemovedIsUndone /\ WatchEffect!KeptIsApplied
  <1> SUFFICES ASSUME WatchEffectInv
               PROVE  WatchEffect!OneEffect /\ WatchEffect!RemovedIsUndone /\ WatchEffect!KeptIsApplied
    OBVIOUS
  <1> USE DEF WatchEffectInv
  <1>1. WatchEffect!OneEffect
    BY DEF EffectList, WatchEffect!OneEffect
  <1>2. WatchEffect!RemovedIsUndone
    BY EffectOps, NoValueAssumption DEF WatchEffect!RemovedIsUndone, WatchEffect!Finished, WatchEffect!InCall,
       EffectList, EffectTypes, EffectOwner, WatchEffect!StreamTypeOK
  <1>3. WatchEffect!KeptIsApplied
    BY EffectOps DEF WatchEffect!KeptIsApplied, EffectTypes, EffectOwner, WatchEffect!StreamTypeOK
  <1> QED BY <1>1, <1>2, <1>3

-----------------------------------------------------------------------------
(* The helpers together: the invariant of the one that is used. *)

\* The invariant of the helper that is used.
ClientsInv ==
  /\ client = "OneOff" => OneOff!TypeOK /\ OneOffInv
  /\ client = "Collect" => Collect!TypeOK /\ CollectInv
  /\ client = "CollectWatch" => CollectWatch!TypeOK /\ CollectWatchInv
  /\ client = "WatchLatest" => WatchLatest!TypeOK /\ WatchLatestInv
  /\ client = "Select" => SelectInv
  /\ client = "WatchEffect" => WatchEffectInv

\* ClientsInv is an inductive invariant of the helpers.
LEMMA ClientsCorrect == Spec => []ClientsInv
  <1>1. Init => ClientsInv
    BY OneOffInit, CollectInit, CollectWatchInit, WatchLatestInit, SelectInit, WatchEffectInit
       DEF Init, ClientsInv
  <1>2. ASSUME ClientsInv, [Next]_vars PROVE ClientsInv'
    <2>0. client' = client
      BY <1>2 DEF Next, vars
    <2> USE <1>2, <2>0 DEF ClientsInv
    <2>1. CASE client = "OneOff"
      <3>1. [OneOff!Next]_(OneOff!vars)
        BY <2>1 DEF Next, vars, streamVars, OneOff!vars, OneOff!streamVars, OneOff!idleVars, OneOff!localVars
      <3> QED BY <2>1, <3>1, OneOffTypeStep, OneOffStep
    <2>2. CASE client = "Collect"
      <3>1. [Collect!Next]_(Collect!vars)
        BY <2>2 DEF Next, vars, streamVars, Collect!vars, Collect!streamVars, Collect!idleVars, Collect!localVars
      <3> QED BY <2>2, <3>1, CollectTypeStep, CollectStep
    <2>3. CASE client = "CollectWatch"
      <3>1. [CollectWatch!Next]_(CollectWatch!vars)
        BY <2>3 DEF Next, vars, streamVars, CollectWatch!vars, CollectWatch!streamVars,
                    CollectWatch!idleVars, CollectWatch!localVars
      <3> QED BY <2>3, <3>1, CollectWatchTypeStep, CollectWatchStep
    <2>4. CASE client = "WatchLatest"
      <3>1. [WatchLatest!Next]_(WatchLatest!vars)
        BY <2>4 DEF Next, vars, streamVars, WatchLatest!vars, WatchLatest!streamVars, WatchLatest!localVars
      <3> QED BY <2>4, <3>1, WatchLatestTypeStep, WatchLatestStep
    <2>5. CASE client = "Select"
      <3>1. [Select!Next]_(Select!vars)
        BY <2>5 DEF Next, vars, streamVars, Select!vars, Select!streamVars, Select!localVars
      <3> QED BY <2>5, <3>1, SelectStep
    <2>6. CASE client = "WatchEffect"
      <3>1. [WatchEffect!Next]_(WatchEffect!vars)
        BY <2>6 DEF Next, vars, streamVars, WatchEffect!vars, WatchEffect!streamVars, WatchEffect!localVars
      <3> QED BY <2>6, <3>1, WatchEffectStep
    <2> QED BY <2>1, <2>2, <2>3, <2>4, <2>5, <2>6
  <1> QED BY <1>1, <1>2, PTL DEF Spec

\* For any values, and any order in which callbacks, the caller and a cancellation
\* come: a caller that waits in ExecOneOff or ExecCollectValues is woken when there is
\* something to return.
THEOREM CallersAwakeAlways == Spec => []CallersAwake
  <1>1. ClientsInv => CallersAwake
    BY DEF ClientsInv, CallersAwake, OneOffInv, CollectInv
  <1> QED BY <1>1, ClientsCorrect, PTL

\* The caller is told of every value it got, or is about to get, that is gone.
THEOREM InvalidIsToldAlways == Spec => []InvalidIsTold
  <1>1. ClientsInv => InvalidIsTold
    <2>1. OneOffInv => OneOff!InvalidIsTold
      BY DEF OneOffInv, OneOff!InvalidIsTold
    <2>2. CollectInv => Collect!CollectedIsValid
      BY DEF CollectInv, Collect!CollectedIsValid
    <2> QED BY <2>1, <2>2 DEF ClientsInv, InvalidIsTold
  <1> QED BY <1>1, ClientsCorrect, PTL

\* ExecOneOff returns with the reference exactly if it returns a value, ExecCollectValues
\* exactly if it returns without an error: no path leaks it, also not that on which
\* ReturnWhenIdle returns neither a value nor an error, and none releases it with a value.
THEOREM RefWithValueAlways == Spec => []RefWithValue
  <1>1. ClientsInv => RefWithValue
    BY DEF ClientsInv, RefWithValue, OneOffInv, OneOff!RefWithValue, CollectInv, Collect!RefUnlessError
  <1> QED BY <1>1, ClientsCorrect, PTL

\* ExecCollectValuesWatch has handed out the current snapshot whenever it waits with
\* nothing signalled, and with waitIdle none before the directive was idle.
THEOREM WatchIsCurrentAlways == Spec => []WatchIsCurrent
  <1>1. ClientsInv => WatchIsCurrent
    BY CollectWatchSafe DEF ClientsInv, WatchIsCurrent
  <1> QED BY <1>1, ClientsCorrect, PTL

\* The callback of ExecOneOffWatchSelectCb and of ExecOneOffWatchCb, and the reader of
\* the channel of ExecOneOffWatchCh, know the latest value, which is there.
THEOREM LatestIsValidAlways == Spec => []LatestIsValid
  <1>1. ClientsInv => LatestIsValid
    BY SelectSafe, WatchLatestSafe DEF ClientsInv, LatestIsValid
  <1> QED BY <1>1, ClientsCorrect, PTL

\* ExecWatchTransformEffect applies one effect at a time and undoes exactly those of
\* removed values, wherever the removal overtakes the transformation.
THEOREM EffectsAgreeAlways == Spec => []EffectsAgree
  <1>1. ClientsInv => EffectsAgree
    BY WatchEffectSafe DEF ClientsInv, EffectsAgree
  <1> QED BY <1>1, ClientsCorrect, PTL

=============================================================================
