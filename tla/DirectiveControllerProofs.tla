--------------------- MODULE DirectiveControllerProofs ---------------------
(***************************************************************************)
(* The properties of the directive controller, for any number of callers,  *)
(* handlers and instances and any relations between directives.            *)
(***************************************************************************)
EXTENDS MCDirectiveController, WellFoundedInduction, TLAPS

-----------------------------------------------------------------------------
(* The inductive invariant. *)

\* The first len elements of array a are instances.
Filled(a, len) ==
  /\ a \in 1..Len(arrs) /\ len \in 0..Len(arrs[a])
  /\ \A k \in 1..len : arrs[a][k] \in 1..dirID

\* A range loop stays inside the array it started with.
LoopsOK ==
  /\ Filled(Len(arrs), nDir)
  /\ \A p \in Callers : caller[p].at = "superceeding" =>
       Filled(caller[p].a, caller[p].len) /\ caller[p].i >= 1
  /\ \A h \in Handlers : handler[h].at = "removing" =>
       Filled(handler[h].a, handler[h].len) /\ handler[h].i >= 1

TypeInv == TypeOK /\ LoopsOK

In(x, s) == \E n \in 1..Len(s) : s[n] = x
Distinct(s) == \A m, n \in 1..Len(s) : s[m] = s[n] => m = n

Sorted == \A m, n \in 1..nDir : m < n => Arr[m] < Arr[n]

\* The handlers that are listed, each once.
HandlersOK ==
  /\ Distinct(hnd)
  /\ \A h \in Handlers :
       /\ In(h, hnd) <=> handler[h].at \in {"calling", "attaching", "on", "released"}
       /\ hndRel[h] => handler[h].at \in {"released", "removing", "off"}

\* The caller will ask the handler about the instance, or the handler's AddHandler will.
CallerAsks(p, h, di) == caller[p].at = "calling" /\ caller[p].di = di /\ In(h, caller[p].todo)
HandlerAsks(h, di) == handler[h].at = "calling" /\ In(di, handler[h].todo)

\* One caller works on an instance.  What AddDirective and AddHandler have copied has
\* no duplicates and was there then.
CopiesOK ==
  /\ \A p \in Callers : caller[p].at = "calling" => Distinct(caller[p].todo) /\ caller[p].di <= dirID
  /\ \A p, q \in Callers :
       caller[p].at = "calling" /\ caller[q].at = "calling" /\ caller[p].di = caller[q].di => p = q
  /\ \A h \in Handlers : handler[h].at = "calling" =>
       Distinct(handler[h].todo) /\ \A n \in 1..Len(handler[h].todo) : handler[h].todo[n] <= dirID
  /\ \A p \in Callers, h \in Handlers :
       caller[p].at = "calling" /\ In(h, caller[p].todo) => handler[h].at # "new"

\* A handler is asked once, by one of the two.
Once(h, di) ==
  /\ asked[<<h, di>>] <= 1
  /\ handler[h].at = "new" \/ di > dirID => asked[<<h, di>>] = 0
  /\ HandlerAsks(h, di) => asked[<<h, di>>] = 0
  /\ \A p \in Callers : CallerAsks(p, h, di) => asked[<<h, di>>] = 0 /\ ~HandlerAsks(h, di)

\* A handler that is not released was asked about each instance that is listed, or will be.
Seen(h, di) ==
  handler[h].at \in {"calling", "attaching", "on"} /\ di \in Listed =>
    asked[<<h, di>>] = 1 \/ HandlerAsks(h, di) \/ \E p \in Callers : CallerAsks(p, h, di)

AskedOK == \A h \in Handlers, di \in Ids : Once(h, di) /\ Seen(h, di)

AskedInv == TypeInv /\ Sorted /\ HandlersOK /\ CopiesOK /\ AskedOK

-----------------------------------------------------------------------------
(* Sequences and the list of instances. *)

\* A nonempty set of natural numbers has a least one: the loops stop at the first index.
LEMMA LeastIndex == ASSUME NEW T \in SUBSET Nat, T # {} PROVE \E x \in T : \A y \in T : x <= y
  <1> DEFINE R == OpToRel(<, Nat)
  <1>1. IsWellFoundedOn(R, Nat) BY NatLessThanWellFounded
  <1>2. \A y, x \in Nat : y < x => <<y, x>> \in R BY DEF OpToRel
  <1> HIDE DEF R
  <1>3. PICK x \in T : \A y \in T : ~ (<<y, x>> \in R) BY <1>1, WFMin
  <1>4. x \in Nat /\ \A y \in T : y \in Nat OBVIOUS
  <1>5. \A y \in T : ~(y < x) BY <1>2, <1>3, <1>4
  <1> QED BY <1>4, <1>5

\* A list of elements of a set is one of a larger set.
LEMMA SubType ==
  ASSUME NEW S, NEW T, S \subseteq T, NEW s \in Seq(S)
  PROVE  s \in Seq(T)
  <1>1. Len(s) \in Nat /\ s \in [1..Len(s) -> S]
    OBVIOUS
  <1>2. s \in [1..Len(s) -> T]
    BY <1>1
  <1> QED BY <1>1, <1>2

\* The head of a list is taken.
LEMMA TailDoes ==
  ASSUME NEW S, NEW s \in Seq(S), s # <<>>
  PROVE  /\ Head(s) \in S /\ Tail(s) \in Seq(S)
         /\ \A x : In(x, s) <=> x = Head(s) \/ In(x, Tail(s))
         /\ Distinct(s) => Distinct(Tail(s)) /\ ~In(Head(s), Tail(s))
  <1>1. Len(s) \in Nat \ {0} /\ Head(s) = s[1] /\ Head(s) \in S /\ Tail(s) \in Seq(S)
    OBVIOUS
  <1>2. Len(Tail(s)) = Len(s) - 1 /\ \A n \in 1..Len(Tail(s)) : Tail(s)[n] = s[n + 1]
    OBVIOUS
  <1>3. ASSUME NEW x, In(x, s) PROVE x = Head(s) \/ In(x, Tail(s))
    <2>1. PICK n \in 1..Len(s) : s[n] = x
      BY <1>3 DEF In
    <2>2. CASE n = 1
      BY <1>1, <2>1, <2>2
    <2>3. CASE n # 1
      <3>1. n - 1 \in 1..Len(Tail(s)) /\ (n - 1) + 1 = n
        BY <1>1, <1>2, <2>3
      <3>2. Tail(s)[n - 1] = x
        BY <1>2, <2>1, <3>1
      <3> QED BY <3>1, <3>2 DEF In
    <2> QED BY <2>2, <2>3
  <1>4. ASSUME NEW x, x = Head(s) \/ In(x, Tail(s)) PROVE In(x, s)
    <2>1. CASE x = Head(s)
      BY <1>1, <2>1 DEF In
    <2>2. CASE In(x, Tail(s))
      <3>1. PICK n \in 1..Len(Tail(s)) : Tail(s)[n] = x
        BY <2>2 DEF In
      <3>2. n + 1 \in 1..Len(s) /\ s[n + 1] = x
        BY <1>1, <1>2, <3>1
      <3> QED BY <3>2 DEF In
    <2> QED BY <1>4, <2>1, <2>2
  <1>5. ASSUME Distinct(s) PROVE Distinct(Tail(s)) /\ ~In(Head(s), Tail(s))
    <2>1. Distinct(Tail(s))
      <3> SUFFICES ASSUME NEW m \in 1..Len(Tail(s)), NEW n \in 1..Len(Tail(s)), Tail(s)[m] = Tail(s)[n] PROVE m = n
        BY DEF Distinct
      <3>1. m + 1 \in 1..Len(s) /\ n + 1 \in 1..Len(s) /\ s[m + 1] = s[n + 1]
        BY <1>1, <1>2
      <3>2. m + 1 = n + 1
        BY <1>5, <3>1 DEF Distinct
      <3> QED BY <1>1, <1>2, <3>2
    <2>2. ASSUME In(Head(s), Tail(s)) PROVE FALSE
      <3>1. PICK n \in 1..Len(Tail(s)) : Tail(s)[n] = Head(s)
        BY <2>2 DEF In
      <3>2. n + 1 \in 1..Len(s) /\ 1 \in 1..Len(s) /\ s[n + 1] = s[1]
        BY <1>1, <1>2, <3>1
      <3>3. n + 1 = 1
        BY <1>5, <3>2 DEF Distinct
      <3> QED BY <1>1, <1>2, <3>3
    <2> QED BY <2>1, <2>2
  <1> QED BY <1>1, <1>3, <1>4, <1>5

\* An element is appended.
LEMMA AppendDoes ==
  ASSUME NEW S, NEW s \in Seq(S), NEW e \in S
  PROVE  /\ Append(s, e) \in Seq(S)
         /\ \A x : In(x, Append(s, e)) <=> x = e \/ In(x, s)
         /\ Distinct(s) /\ ~In(e, s) => Distinct(Append(s, e))
  <1>1. /\ Append(s, e) \in Seq(S) /\ Len(Append(s, e)) = Len(s) + 1 /\ Len(s) \in Nat
        /\ Append(s, e)[Len(s) + 1] = e /\ \A n \in 1..Len(s) : Append(s, e)[n] = s[n]
    OBVIOUS
  <1>2. 1..(Len(s) + 1) = 1..Len(s) \cup {Len(s) + 1}
    BY <1>1
  <1>3. \A x : In(x, Append(s, e)) <=> x = e \/ In(x, s)
    BY <1>1, <1>2 DEF In
  <1>4. Distinct(s) /\ ~In(e, s) => Distinct(Append(s, e))
    BY <1>1, <1>2 DEF Distinct, In
  <1> QED BY <1>1, <1>3, <1>4

\* The slot of the element is filled with the last one.
LEMMA UnlistedDoes ==
  ASSUME hnd \in Seq(Handlers), Distinct(hnd), NEW h \in Handlers, In(h, hnd)
  PROVE  /\ Unlisted(h) \in Seq(Handlers) /\ Distinct(Unlisted(h))
         /\ \A x : In(x, Unlisted(h)) <=> x # h /\ In(x, hnd)
  <1> DEFINE n == CHOOSE m \in DOMAIN hnd : hnd[m] = h
             N == Len(hnd)
             t == [hnd EXCEPT ![n] = Last(hnd)]
             u == SubSeq(t, 1, Len(t) - 1)
  <1>1. DOMAIN hnd = 1..N /\ N \in Nat
    OBVIOUS
  <1>2. n \in 1..N /\ hnd[n] = h
    BY <1>1 DEF In
  <1>3. Last(hnd) = hnd[N] /\ N \in 1..N
    BY <1>1, <1>2 DEF Last
  <1> HIDE DEF n
  <1>4. t \in Seq(Handlers) /\ Len(t) = N /\ \A m \in 1..N : t[m] = IF m = n THEN hnd[N] ELSE hnd[m]
    BY <1>1, <1>2, <1>3
  <1>5. Unlisted(h) = u
    BY DEF Unlisted, Front, n
  <1> HIDE DEF t
  <1>6. u \in Seq(Handlers) /\ Len(u) = N - 1 /\ \A m \in 1..(N - 1) : u[m] = t[m]
    BY <1>1, <1>3, <1>4
  <1> HIDE DEF u
  <1>7. \A m \in 1..(N - 1) : m \in 1..N /\ u[m] = IF m = n THEN hnd[N] ELSE hnd[m]
    BY <1>1, <1>4, <1>6
  <1>8. \A i, j \in 1..N : hnd[i] = hnd[j] => i = j
    BY DEF Distinct
  <1>n. \A x : In(x, hnd) <=> \E i \in 1..N : hnd[i] = x
    BY DEF In
  <1> HIDE DEF N
  <1>9. Distinct(u)
    <2> SUFFICES ASSUME NEW i \in 1..(N - 1), NEW j \in 1..(N - 1), u[i] = u[j] PROVE i = j
      BY <1>6 DEF Distinct
    <2>1. i \in 1..N /\ j \in 1..N /\ i # N /\ j # N
      BY <1>1
    <2> QED BY <1>3, <1>7, <1>8, <2>1
  <1>10. ASSUME NEW x, In(x, u) PROVE x # h /\ In(x, hnd)
    <2>1. PICK i \in 1..(N - 1) : u[i] = x
      BY <1>6, <1>10 DEF In
    <2>2. PICK j \in 1..N : hnd[j] = x /\ j # n
      <3>1. i \in 1..N /\ i # N
        BY <1>1
      <3>2. CASE i = n
        BY <1>3, <1>7, <2>1, <3>1, <3>2
      <3>3. CASE i # n
        BY <1>7, <2>1, <3>1, <3>3
      <3> QED BY <3>2, <3>3
    <2> QED BY <1>2, <1>8, <1>n, <2>2
  <1>11. ASSUME NEW x, x # h, In(x, hnd) PROVE In(x, u)
    <2>1. PICK i \in 1..N : hnd[i] = x
      BY <1>11, <1>n
    <2>2. i # n
      BY <1>2, <1>11, <2>1
    <2>3. CASE i # N
      <3>1. i \in 1..(N - 1)
        BY <1>1, <2>3
      <3> QED BY <1>6, <1>7, <2>1, <2>2, <3>1 DEF In
    <2>4. CASE i = N
      <3>1. n \in 1..(N - 1)
        BY <1>1, <1>2, <2>2, <2>4
      <3> QED BY <1>6, <1>7, <2>1, <2>4, <3>1 DEF In
    <2> QED BY <2>3, <2>4
  <1> QED BY <1>5, <1>6, <1>9, <1>10, <1>11

\* The list is in the current array.
LEMMA ArrType ==
  ASSUME TypeInv
  PROVE  /\ Len(arrs) \in Nat \ {0} /\ Arr \in Seq(0..dirID) /\ nDir \in 0..Len(Arr) /\ Len(Arr) \in Nat
         /\ dirID \in Nat /\ \A n \in 1..nDir : Arr[n] \in 1..dirID
  <1>1. arrs \in Seq(Seq(0..dirID)) /\ arrs # <<>>
    BY DEF TypeInv, TypeOK
  <1>2. Len(arrs) \in Nat \ {0} /\ Arr \in Seq(0..dirID)
    BY <1>1 DEF Arr
  <1> QED BY <1>2, BoundAssumption DEF TypeInv, TypeOK, LoopsOK, Filled, Arr

\* An element of an array stays, or becomes one that was listed or the new instance.
Shifted ==
  \A a, len : Filled(a, len) => \A k \in 1..len :
    arrs'[a][k] = arrs[a][k] \/ arrs'[a][k] \in Listed \/ arrs'[a][k] = dirID + 1

\* append writes the new instance behind the list; no other element of a filled array changes.
LEMMA AppendDirDoes ==
  ASSUME TypeInv, dirID < MaxInstances, dirID' = dirID + 1, AppendDir(dirID + 1)
  PROVE  /\ arrs' \in Seq(Seq(0..dirID')) /\ arrs' # <<>> /\ nDir' \in 0..Len(Arr') /\ nDir' = nDir + 1
         /\ \A n \in 1..nDir : Arr'[n] = Arr[n]
         /\ Arr'[nDir + 1] = dirID + 1
         /\ \A a, len : Filled(a, len) => Filled(a, len)'
         /\ Filled(Len(arrs), nDir)' /\ Shifted
  <1> DEFINE L == Len(arrs)
             D == 0..(dirID + 1)
  <1>0. /\ L \in Nat \ {0} /\ Arr \in Seq(0..dirID) /\ nDir \in 0..Len(Arr) /\ Len(Arr) \in Nat
        /\ dirID \in Nat /\ \A n \in 1..nDir : Arr[n] \in 1..dirID
    BY ArrType
  <1>1. arrs \in Seq(Seq(0..dirID)) /\ arrs \in Seq(Seq(D)) /\ Arr = arrs[L]
    <2>1. arrs \in Seq(Seq(0..dirID)) /\ Arr = arrs[L]
      BY DEF TypeInv, TypeOK, Arr
    <2>2. \A a \in 1..L : arrs[a] \in Seq(D)
      <3> SUFFICES ASSUME NEW a \in 1..L PROVE arrs[a] \in Seq(D)
        OBVIOUS
      <3>1. arrs[a] \in Seq(0..dirID)
        BY <2>1
      <3>2. 0..dirID \subseteq D
        BY <1>0
      <3> HIDE DEF D
      <3> QED BY <3>1, <3>2, SubType
    <2> HIDE DEF D
    <2> QED BY <2>1, <2>2
  <1>2. ASSUME arrs' \in Seq(Seq(D)), Len(arrs') >= L, \A a \in 1..L : Len(arrs'[a]) = Len(arrs[a]),
               \A a \in 1..L : \A k \in 1..Len(arrs[a]) : arrs'[a][k] = arrs[a][k] \/ arrs'[a][k] = dirID + 1
        PROVE  (\A a, len : Filled(a, len) => Filled(a, len)') /\ Shifted
    <2> SUFFICES ASSUME NEW a, NEW len, Filled(a, len)
                 PROVE  /\ Filled(a, len)'
                        /\ \A k \in 1..len : arrs'[a][k] = arrs[a][k] \/ arrs'[a][k] = dirID + 1
      BY DEF Shifted
    <2>1. a \in 1..L /\ len \in 0..Len(arrs[a]) /\ \A k \in 1..len : arrs[a][k] \in 1..dirID
      BY DEF Filled
    <2>2. a \in 1..Len(arrs') /\ len \in 0..Len(arrs'[a])
      <3>1. Len(arrs') \in Nat
        BY <1>2
      <3> QED BY <1>0, <1>2, <2>1, <3>1
    <2>3. Len(arrs[a]) \in Nat
      BY <1>1, <2>1
    <2>4. \A k \in 1..len : arrs'[a][k] = arrs[a][k] \/ arrs'[a][k] = dirID + 1
      <3> SUFFICES ASSUME NEW k \in 1..len PROVE arrs'[a][k] = arrs[a][k] \/ arrs'[a][k] = dirID + 1
        OBVIOUS
      <3>1. k \in 1..Len(arrs[a])
        BY <2>1, <2>3
      <3> QED BY <1>2, <2>1, <3>1
    <2>5. \A k \in 1..len : arrs'[a][k] \in 1..(dirID + 1)
      <3> SUFFICES ASSUME NEW k \in 1..len PROVE arrs'[a][k] \in 1..(dirID + 1)
        OBVIOUS
      <3>1. arrs[a][k] \in 1..dirID
        BY <2>1
      <3> QED BY <1>0, <2>4, <3>1
    <2> QED BY <2>2, <2>4, <2>5 DEF Filled
  <1>3. ASSUME arrs' \in Seq(Seq(D)), arrs' # <<>>, nDir' = nDir + 1, nDir + 1 \in 0..Len(Arr'),
               \A n \in 1..nDir : Arr'[n] = Arr[n], Arr'[nDir + 1] = dirID + 1
        PROVE  Filled(Len(arrs), nDir)'
    <2>1. Len(arrs') \in 1..Len(arrs') /\ Arr' = arrs'[Len(arrs')]
      BY <1>3 DEF Arr
    <2>2. ASSUME NEW k \in 1..(nDir + 1) PROVE Arr'[k] \in 1..(dirID + 1)
      <3>1. CASE k = nDir + 1
        BY <1>0, <1>3, <3>1
      <3>2. CASE k # nDir + 1
        <4>1. k \in 1..nDir
          BY <1>0, <3>2
        <4>2. Arr'[k] \in 1..dirID
          BY <1>0, <1>3, <4>1
        <4> QED BY <1>0, <4>2
      <3> QED BY <3>1, <3>2
    <2> QED BY <1>3, <2>1, <2>2 DEF Filled
  <1>4. CASE nDir < Len(Arr)
    <2> DEFINE b == [arrs[L] EXCEPT ![nDir + 1] = dirID + 1]
    <2>1. nDir' = nDir + 1 /\ arrs' = [arrs EXCEPT ![L] = b]
      BY <1>4 DEF AppendDir
    <2>2. nDir + 1 \in 1..Len(Arr) /\ dirID + 1 \in D
      BY <1>0, <1>4
    <2>3. arrs[L] \in Seq(D) /\ L \in 1..L
      BY <1>0, <1>1
    <2>4. b \in Seq(D) /\ Len(b) = Len(Arr) /\ b[nDir + 1] = dirID + 1 /\ \A n \in 1..Len(Arr) : n # nDir + 1 => b[n] = Arr[n]
      <3> HIDE DEF D
      <3> QED BY <1>1, <2>2, <2>3
    <2> HIDE DEF b, D
    <2>5. arrs' \in Seq(Seq(D)) /\ Len(arrs') = L /\ arrs'[L] = b /\ \A a \in 1..L : a # L => arrs'[a] = arrs[a]
      BY <1>1, <2>1, <2>3, <2>4
    <2>6. Arr' = b /\ arrs' # <<>>
      BY <1>0, <2>5 DEF Arr
    <2>7. nDir + 1 \in 0..Len(Arr') /\ (\A n \in 1..nDir : Arr'[n] = Arr[n]) /\ Arr'[nDir + 1] = dirID + 1
      <3>1. \A n \in 1..nDir : n \in 1..Len(Arr) /\ n # nDir + 1
        BY <1>0
      <3> QED BY <1>0, <2>2, <2>4, <2>6, <3>1
    <2>8. /\ \A a \in 1..L : Len(arrs'[a]) = Len(arrs[a])
          /\ \A a \in 1..L : \A k \in 1..Len(arrs[a]) : arrs'[a][k] = arrs[a][k] \/ arrs'[a][k] = dirID + 1
      BY <1>1, <2>4, <2>5
    <2>9. Len(arrs') >= L
      BY <1>0, <2>5
    <2> QED BY <1>2, <1>3, <2>1, <2>5, <2>6, <2>7, <2>8, <2>9 DEF D
  <1>5. CASE ~(nDir < Len(Arr))
    <2> DEFINE G == Grown(Len(Arr))
               b == [n \in 1..G |-> CASE n <= nDir -> Arr[n] [] n = nDir + 1 -> dirID + 1 [] OTHER -> 0]
    <2>1. nDir' = nDir + 1 /\ arrs' = Append(arrs, b)
      BY <1>5 DEF AppendDir
    <2>2. G \in Nat /\ G >= nDir + 1 /\ nDir = Len(Arr)
      BY <1>0, <1>5 DEF Grown
    <2> HIDE DEF G
    <2>3. \A n \in 1..G : b[n] = IF n <= nDir THEN Arr[n] ELSE IF n = nDir + 1 THEN dirID + 1 ELSE 0
      BY <1>0, <2>2
    <2>4. \A n \in 1..G : b[n] \in D
      <3> SUFFICES ASSUME NEW n \in 1..G PROVE b[n] \in D
        OBVIOUS
      <3>1. n <= nDir => Arr[n] \in 1..dirID
        BY <1>0, <2>2
      <3>2. 1..dirID \subseteq D /\ dirID + 1 \in D /\ 0 \in D
        BY <1>0
      <3> HIDE DEF D, b
      <3> QED BY <2>3, <3>1, <3>2
    <2>5. b \in Seq(D) /\ Len(b) = G
      <3>1. b \in [1..G -> D]
        BY <2>4
      <3>2. DOMAIN b = 1..G
        OBVIOUS
      <3> HIDE DEF b, D
      <3>3. b \in Seq(D)
        BY <2>2, <3>1
      <3> QED BY <2>2, <3>2, <3>3
    <2> HIDE DEF b, D
    <2>6. arrs' \in Seq(Seq(D)) /\ Len(arrs') = L + 1 /\ arrs'[L + 1] = b /\ \A a \in 1..L : arrs'[a] = arrs[a]
      BY <1>1, <2>1, <2>5
    <2>7. Arr' = b /\ arrs' # <<>>
      BY <1>0, <2>6 DEF Arr
    <2>8. nDir + 1 \in 0..Len(Arr') /\ (\A n \in 1..nDir : Arr'[n] = Arr[n]) /\ Arr'[nDir + 1] = dirID + 1
      <3>1. nDir + 1 \in 1..G /\ nDir + 1 \in 0..G /\ ~(nDir + 1 <= nDir) /\ \A n \in 1..nDir : n \in 1..G /\ n <= nDir
        BY <1>0, <2>2
      <3> QED BY <2>3, <2>5, <2>7, <3>1
    <2>9. Len(arrs') >= L
      BY <1>0, <2>6
    <2> QED BY <1>2, <1>3, <2>1, <2>6, <2>7, <2>8, <2>9 DEF D
  <1> QED BY <1>4, <1>5 DEF AppendDir

\* Removal shifts the elements behind the index, in place.
LEMMA DeleteDirDoes ==
  ASSUME TypeInv, dirID' = dirID, NEW idx \in 1..nDir, DeleteDir(idx)
  PROVE  /\ arrs' \in Seq(Seq(0..dirID')) /\ arrs' # <<>> /\ nDir' \in 0..Len(Arr') /\ nDir' = nDir - 1
         /\ \A n \in 1..(nDir - 1) : Arr'[n] = IF n < idx THEN Arr[n] ELSE Arr[n + 1]
         /\ \A a, len : Filled(a, len) => Filled(a, len)'
         /\ Filled(Len(arrs), nDir)' /\ Shifted
  <1> DEFINE L == Len(arrs)
             b == [n \in DOMAIN Arr |-> IF n \in idx..(nDir - 1) THEN Arr[n + 1] ELSE Arr[n]]
  <1>0. /\ L \in Nat \ {0} /\ Arr \in Seq(0..dirID) /\ nDir \in 0..Len(Arr) /\ Len(Arr) \in Nat
        /\ dirID \in Nat /\ \A n \in 1..nDir : Arr[n] \in 1..dirID
    BY ArrType
  <1>1. arrs \in Seq(Seq(0..dirID)) /\ Arr = arrs[L] /\ L \in 1..L
    BY <1>0 DEF TypeInv, TypeOK, Arr
  <1>2. nDir' = nDir - 1 /\ arrs' = [arrs EXCEPT ![L] = b]
    BY DEF DeleteDir
  <1>3. \A n \in 1..Len(Arr) : b[n] = IF n \in idx..(nDir - 1) THEN Arr[n + 1] ELSE Arr[n]
    BY <1>0
  <1>4. b \in Seq(0..dirID) /\ Len(b) = Len(Arr)
    <2>1. \A n \in 1..Len(Arr) : b[n] \in 0..dirID
      <3> SUFFICES ASSUME NEW n \in 1..Len(Arr) PROVE b[n] \in 0..dirID
        OBVIOUS
      <3>1. n \in idx..(nDir - 1) => n + 1 \in 1..Len(Arr)
        BY <1>0
      <3>2. \A m \in 1..Len(Arr) : Arr[m] \in 0..dirID
        BY <1>0
      <3> QED BY <1>3, <3>1, <3>2
    <2>2. DOMAIN b = 1..Len(Arr)
      BY <1>0
    <2>3. b \in [1..Len(Arr) -> 0..dirID]
      BY <2>1, <2>2
    <2> HIDE DEF b
    <2>4. b \in Seq(0..dirID)
      BY <1>0, <2>3
    <2> QED BY <1>0, <2>2, <2>4
  <1> HIDE DEF b
  <1>5. arrs' \in Seq(Seq(0..dirID)) /\ Len(arrs') = L /\ arrs'[L] = b /\ \A a \in 1..L : a # L => arrs'[a] = arrs[a]
    BY <1>1, <1>2, <1>4
  <1>6. Arr' = b /\ arrs' # <<>>
    BY <1>0, <1>5 DEF Arr
  <1>7. \A n \in 1..(nDir - 1) : Arr'[n] = IF n < idx THEN Arr[n] ELSE Arr[n + 1]
    <2> SUFFICES ASSUME NEW n \in 1..(nDir - 1) PROVE Arr'[n] = IF n < idx THEN Arr[n] ELSE Arr[n + 1]
      OBVIOUS
    <2>1. n \in 1..Len(Arr) /\ (n < idx <=> ~(n \in idx..(nDir - 1)))
      BY <1>0
    <2> QED BY <1>3, <1>6, <2>1
  <1>8. \A a, len : Filled(a, len) => Filled(a, len)'
    <2> SUFFICES ASSUME NEW a, NEW len, Filled(a, len) PROVE Filled(a, len)'
      OBVIOUS
    <2>1. a \in 1..L /\ len \in 0..Len(arrs[a]) /\ \A k \in 1..len : arrs[a][k] \in 1..dirID
      BY DEF Filled
    <2>2. a \in 1..Len(arrs') /\ len \in 0..Len(arrs'[a])
      BY <1>1, <1>4, <1>5, <2>1
    <2>3. CASE a # L
      BY <1>5, <2>1, <2>2, <2>3 DEF Filled
    <2>4. CASE a = L
      <3> SUFFICES ASSUME NEW k \in 1..len PROVE arrs'[a][k] \in 1..dirID
        BY <2>2 DEF Filled
      <3>1. k \in 1..Len(Arr)
        BY <1>0, <1>1, <2>1, <2>4
      <3>2. k \in idx..(nDir - 1) => Arr[k + 1] \in 1..dirID
        BY <1>0
      <3> QED BY <1>1, <1>3, <1>5, <2>1, <2>4, <3>1, <3>2
    <2> QED BY <2>3, <2>4
  <1>s. Shifted
    <2> SUFFICES ASSUME NEW a, NEW len, Filled(a, len), NEW k \in 1..len
                 PROVE  arrs'[a][k] = arrs[a][k] \/ arrs'[a][k] \in Listed
      BY DEF Shifted
    <2>1. a \in 1..L /\ len \in 0..Len(arrs[a])
      BY DEF Filled
    <2>2. CASE a # L
      BY <1>5, <2>1, <2>2
    <2>3. CASE a = L
      <3>1. k \in 1..Len(Arr)
        BY <1>0, <1>1, <2>1, <2>3
      <3>2. k \in idx..(nDir - 1) => k + 1 \in 1..nDir /\ Arr[k + 1] \in Listed
        BY <1>0 DEF Listed
      <3> QED BY <1>1, <1>3, <1>5, <2>3, <3>1, <3>2
    <2> QED BY <2>2, <2>3
  <1>9. nDir' \in 0..Len(Arr')
    BY <1>0, <1>2, <1>4, <1>6
  <1>10. Filled(Len(arrs), nDir)'
    <2>1. Len(arrs') \in 1..Len(arrs') /\ nDir' \in 0..Len(arrs'[Len(arrs')])
      BY <1>0, <1>5, <1>6, <1>9
    <2>2. ASSUME NEW k \in 1..(nDir - 1) PROVE arrs'[Len(arrs')][k] \in 1..dirID
      <3>1. k \in 1..nDir /\ k + 1 \in 1..nDir
        BY <1>0
      <3> QED BY <1>0, <1>5, <1>6, <1>7, <3>1
    <2> QED BY <1>2, <2>1, <2>2 DEF Filled
  <1> QED BY <1>2, <1>5, <1>6, <1>7, <1>8, <1>s, <1>9, <1>10

-----------------------------------------------------------------------------
(* Type correctness. *)

\* The list stays typed and its arrays filled.
ListStep ==
  /\ arrs' \in Seq(Seq(0..dirID')) /\ arrs' # <<>> /\ nDir' \in 0..Len(Arr')
  /\ \A a, len : Filled(a, len) => Filled(a, len)'
  /\ Filled(Len(arrs), nDir)' /\ Shifted

\* Nothing happens to the list.
LEMMA ListSame ==
  ASSUME TypeInv, UNCHANGED <<dirID, listVars>>
  PROVE  ListStep
  <1>1. arrs \in Seq(Seq(0..dirID)) /\ arrs # <<>> /\ nDir \in 0..Len(Arr) /\ Filled(Len(arrs), nDir)
    BY DEF TypeInv, TypeOK, LoopsOK, Arr
  <1>2. arrs' = arrs /\ nDir' = nDir /\ dirID' = dirID /\ Arr' = Arr
    BY DEF listVars, Arr
  <1> QED BY <1>1, <1>2 DEF ListStep, Filled, Shifted

\* An instance leaves the list, or its index is past the end.
Leaves(di, idx) ==
  /\ ListStep
  /\ released' = [released EXCEPT ![di] = TRUE] /\ released' \in [Ids -> BOOLEAN]
  /\ emptying' \subseteq Ids /\ panicked' \in BOOLEAN
  /\ \/ /\ idx <= nDir /\ nDir' = nDir - 1 /\ UNCHANGED panicked /\ emptying' = emptying \cup {di}
        /\ \A n \in 1..(nDir - 1) : Arr'[n] = IF n < idx THEN Arr[n] ELSE Arr[n + 1]
     \/ idx > nDir /\ panicked' /\ UNCHANGED listVars

\* removeLocked does so.
LEMMA RemoveLockedDoes ==
  ASSUME TypeInv, dirID' = dirID, NEW di \in 1..dirID, NEW idx \in Nat \ {0}, RemoveLocked(di, idx)
  PROVE  Leaves(di, idx)
  <1>0. nDir \in Nat /\ dirID \in Nat /\ 1..dirID \subseteq Ids /\ emptying \subseteq Ids /\ panicked \in BOOLEAN
    <2>1. nDir \in Nat /\ dirID \in Nat
      BY ArrType
    <2>2. dirID \in 0..MaxInstances /\ emptying \subseteq Ids /\ panicked \in BOOLEAN
      BY DEF TypeInv, TypeOK
    <2> QED BY <2>1, <2>2, BoundAssumption DEF Ids
  <1>1. released' = [released EXCEPT ![di] = TRUE] /\ released' \in [Ids -> BOOLEAN]
    BY DEF RemoveLocked, TypeInv, TypeOK
  <1>2. CASE idx <= nDir
    <2>1. DeleteDir(idx) /\ emptying' = emptying \cup {di} /\ UNCHANGED panicked
      BY <1>2 DEF RemoveLocked
    <2>2. idx \in 1..nDir
      BY <1>0, <1>2
    <2>3. ListStep /\ nDir' = nDir - 1 /\ \A n \in 1..(nDir - 1) : Arr'[n] = IF n < idx THEN Arr[n] ELSE Arr[n + 1]
      BY <2>1, <2>2, DeleteDirDoes DEF ListStep
    <2> QED BY <1>0, <1>1, <1>2, <2>1, <2>3 DEF Leaves
  <1>3. CASE ~(idx <= nDir)
    <2>1. panicked' = TRUE /\ UNCHANGED <<listVars, emptying>> /\ idx > nDir
      BY <1>0, <1>3 DEF RemoveLocked
    <2>2. ListStep
      BY <2>1, ListSame
    <2> QED BY <1>0, <1>1, <2>1, <2>2 DEF Leaves
  <1> QED BY <1>2, <1>3

\* A new instance is listed and its caller is about to ask the handlers.
Joins(p, d) ==
  /\ ListStep
  /\ dirID < MaxInstances /\ dirID' = dirID + 1 /\ dirOf' = Append(dirOf, d)
  /\ nDir' = nDir + 1 /\ (\A n \in 1..nDir : Arr'[n] = Arr[n]) /\ Arr'[nDir + 1] = dirID + 1
  /\ caller' = [caller EXCEPT ![p] =
       [at |-> "calling", di |-> dirID + 1, todo |-> hnd, res |-> <<>>]]
  /\ UNCHANGED <<released, attached, emptying, panicked>>

\* The instance is superceeded.
Superceeded(p, d, a, len, k, di) ==
  /\ di = arrs[a][k] /\ di \in 1..dirID /\ Leaves(di, k)
  /\ ~released[di] /\ <<d, dirOf[di]>> \in Equivalent
  /\ <<d, dirOf[di]>> \in Superceeds
  /\ caller' = [caller EXCEPT ![p] = [at |-> "superceeding", d |-> d,
                   a |-> a, len |-> len, i |-> k + 1, di |-> di]]
  /\ UNCHANGED <<dirID, dirOf, attached>>

\* The instance is found.
Found(p, di) ==
  /\ caller' = [caller EXCEPT ![p] = [at |-> "holding", di |-> di]]
  /\ UNCHANGED <<instVars, listVars, panicked>>

\* The loop of AddDirective makes an instance, superceeds one or finds one.
LEMMA AddLoopDoes ==
  ASSUME TypeInv, NEW p \in Callers, NEW d \in Directives, NEW a, NEW len, Filled(a, len), NEW i \in Nat \ {0},
         AddLoop(p, d, a, len, i)
  PROVE  \/ Matches(d, a, len, i) = {} /\ Joins(p, d)
         \/ \E k \in i..len : Superceeded(p, d, a, len, k, arrs[a][k])
         \/ \E di \in 1..dirID : Found(p, di)
  <1> DEFINE M == Matches(d, a, len, i)
             k == CHOOSE n \in M : \A m \in M : n <= m
             di == arrs[a][k]
  <1>0. a \in 1..Len(arrs) /\ len \in Nat /\ \A n \in 1..len : arrs[a][n] \in 1..dirID
    <2>1. a \in 1..Len(arrs) /\ len \in 0..Len(arrs[a]) /\ \A n \in 1..len : arrs[a][n] \in 1..dirID
      BY DEF Filled
    <2>2. Len(arrs[a]) \in Nat
      BY <2>1 DEF TypeInv, TypeOK
    <2> QED BY <2>1, <2>2
  <1>1. CASE M = {}
    <2>1. NewInstance(p, d)
      BY <1>1 DEF AddLoop
    <2>2. dirID < MaxInstances /\ dirID' = dirID + 1 /\ AppendDir(dirID + 1)
      BY <2>1 DEF NewInstance
    <2>3. /\ ListStep /\ nDir' = nDir + 1 /\ (\A n \in 1..nDir : Arr'[n] = Arr[n])
          /\ Arr'[nDir + 1] = dirID + 1
      BY <2>2, AppendDirDoes DEF ListStep
    <2>4. Joins(p, d)
      BY <2>1, <2>3 DEF Joins, NewInstance
    <2> QED BY <1>1, <2>4
  <1>2. CASE M # {}
    <2>1. M \subseteq i..len /\ M \subseteq Nat
      BY <1>0 DEF Matches
    <2>2. \E n \in M : \A m \in M : n <= m
      BY <1>2, <2>1, LeastIndex
    <2>3. k \in M
      BY <2>2
    <2>4. k \in i..len /\ k \in 1..len /\ k \in Nat \ {0}
      <3> HIDE DEF k, M
      <3> QED BY <1>0, <2>1, <2>3
    <2>5. di \in 1..dirID
      BY <1>0, <2>4
    <2>6. CASE <<d, dirOf[di]>> \in Superceeds
      <3>1. RemoveLocked(di, k) /\ UNCHANGED <<dirID, dirOf, attached>>
        BY <1>2, <2>6 DEF AddLoop
      <3>2. caller' = [caller EXCEPT ![p] = [at |-> "superceeding", d |-> d,
                   a |-> a, len |-> len, i |-> k + 1, di |-> di]]
        BY <1>2, <2>6 DEF AddLoop
      <3> HIDE DEF k
      <3>3. Leaves(di, k)
        BY <2>4, <2>5, <3>1, RemoveLockedDoes
      <3>4. ~released[di] /\ <<d, dirOf[di]>> \in Equivalent
        BY <2>3 DEF Matches
      <3>5. Superceeded(p, d, a, len, k, arrs[a][k])
        BY <2>5, <2>6, <3>1, <3>2, <3>3, <3>4 DEF Superceeded
      <3> QED BY <2>4, <3>5
    <2>7. CASE <<d, dirOf[di]>> \notin Superceeds
      <3>1. Found(p, di)
        BY <1>2, <2>7 DEF AddLoop, Found
      <3> HIDE DEF di
      <3> QED BY <2>5, <3>1
    <2> QED BY <2>6, <2>7
  <1> QED BY <1>1, <1>2

\* What a caller, a handler, is doing has the fields of its place.
LEMMA StateFields ==
  /\ \A c \in CallerState :
       /\ c.at = "superceeding" => /\ c.d \in Directives /\ c.a \in Nat /\ c.len \in Nat /\ c.i \in Nat /\ c.di \in Ids
       /\ c.at = "calling" => /\ c.di \in Ids /\ c.todo \in Seq(Handlers) /\ c.res \in Seq(Handlers)
       /\ c.at = "attaching" => c.di \in Ids /\ c.res \in Seq(Handlers)
       /\ c.at \in {"idle", "superceeding", "calling", "attaching", "holding"}
  /\ \A s \in HandlerState :
       /\ s.at = "calling" => /\ s.todo \in Seq(Ids) /\ s.res \in Seq(Ids)
       /\ s.at = "attaching" => s.res \in Seq(Ids)
       /\ s.at = "removing" => s.a \in Nat /\ s.len \in Nat /\ s.i \in Nat
       /\ s.at \in {"new", "on", "released", "off", "calling", "attaching", "removing"}
  BY DEF CallerState, HandlerState

\* The places are states.
LEMMA StatePlaces ==
  /\ [at |-> "idle"] \in CallerState
  /\ \A d \in Directives, a, len, i \in Nat, di \in Ids :
       [at |-> "superceeding", d |-> d, a |-> a, len |-> len, i |-> i, di |-> di] \in CallerState
  /\ \A di \in Ids, todo, res \in Seq(Handlers) :
       [at |-> "calling", di |-> di, todo |-> todo, res |-> res] \in CallerState
  /\ \A di \in Ids, res \in Seq(Handlers) : [at |-> "attaching", di |-> di, res |-> res] \in CallerState
  /\ \A di \in Ids : [at |-> "holding", di |-> di] \in CallerState
  /\ \A at \in {"new", "on", "released", "off"} : [at |-> at] \in HandlerState
  /\ \A todo, res \in Seq(Ids) : [at |-> "calling", todo |-> todo, res |-> res] \in HandlerState
  /\ \A res \in Seq(Ids) : [at |-> "attaching", res |-> res] \in HandlerState
  /\ \A a, len, i \in Nat : [at |-> "removing", a |-> a, len |-> len, i |-> i] \in HandlerState
  BY DEF CallerState, HandlerState

\* What the next step of a loop needs, and the types, make up the invariant.
LEMMA TypeAssemble ==
  ASSUME TypeInv, ListStep, dirID' \in 0..MaxInstances, dirOf' \in Seq(Directives), Len(dirOf') = dirID',
         released' \in [Ids -> BOOLEAN], attached' \in [Ids -> SUBSET Handlers], emptying' \subseteq Ids,
         hnd' \in Seq(Handlers), hndRel' \in [Handlers -> BOOLEAN], caller' \in [Callers -> CallerState],
         handler' \in [Handlers -> HandlerState], asked' \in [Handlers \X Ids -> Nat], panicked' \in BOOLEAN,
         \A p \in Callers : caller'[p].at = "superceeding" => Filled(caller'[p].a, caller'[p].len) /\ caller'[p].i >= 1,
         \A h \in Handlers : handler'[h].at = "removing" => Filled(handler'[h].a, handler'[h].len) /\ handler'[h].i >= 1
  PROVE  TypeInv'
  <1>1. TypeOK'
    BY DEF TypeOK, ListStep, Arr
  <1>2. ASSUME NEW p \in Callers, caller'[p].at = "superceeding"
        PROVE  Filled(caller[p].a, caller[p].len)' /\ caller'[p].i >= 1
    <2>1. PICK a, len : a = caller'[p].a /\ len = caller'[p].len
      OBVIOUS
    <2>2. Filled(a, len)'
      BY <1>2, <2>1 DEF ListStep
    <2> QED BY <1>2, <2>1, <2>2 DEF Filled
  <1>3. ASSUME NEW h \in Handlers, handler'[h].at = "removing"
        PROVE  Filled(handler[h].a, handler[h].len)' /\ handler'[h].i >= 1
    <2>1. PICK a, len : a = handler'[h].a /\ len = handler'[h].len
      OBVIOUS
    <2>2. Filled(a, len)'
      BY <1>3, <2>1 DEF ListStep
    <2> QED BY <1>3, <2>1, <2>2 DEF Filled
  <1>4. LoopsOK'
    BY <1>2, <1>3 DEF LoopsOK, ListStep
  <1> QED BY <1>1, <1>4 DEF TypeInv

\* Fields of what a caller or a handler is doing are replaced.
LEMMA CallerReplaced ==
  ASSUME NEW c \in [at: {"calling"}, di: Ids, todo: Seq(Handlers), res: Seq(Handlers)],
         NEW t \in Seq(Handlers), NEW r \in Seq(Handlers)
  PROVE  LET x == [[c EXCEPT !.todo = t] EXCEPT !.res = r]
             y == [c EXCEPT !.todo = t]
         IN  /\ x \in [at: {"calling"}, di: Ids, todo: Seq(Handlers), res: Seq(Handlers)] /\ x.di = c.di /\ x.todo = t
             /\ y \in [at: {"calling"}, di: Ids, todo: Seq(Handlers), res: Seq(Handlers)] /\ y.di = c.di /\ y.todo = t
  OBVIOUS

LEMMA HandlerReplaced ==
  ASSUME NEW s \in [at: {"calling"}, todo: Seq(Ids), res: Seq(Ids)], NEW t \in Seq(Ids), NEW r \in Seq(Ids)
  PROVE  LET x == [s EXCEPT !.todo = t, !.res = r]
         IN  x \in [at: {"calling"}, todo: Seq(Ids), res: Seq(Ids)] /\ x.todo = t
  OBVIOUS

\* The caller goes on with a shorter list.
CallsOn(p, di, todo) ==
  \E x \in CallerState : x.at = "calling" /\ x.di = di /\ x.todo = todo /\ caller' = [caller EXCEPT ![p] = x]

\* The caller asks the next handler, or passes over one that was released.
NextAsked(p, h, todo) ==
  /\ caller[p].todo # <<>> /\ h = Head(caller[p].todo) /\ h \in Handlers
  /\ todo = Tail(caller[p].todo) /\ todo \in Seq(Handlers)
  /\ CallsOn(p, caller[p].di, todo)
  /\ \/ hndRel[h] /\ UNCHANGED asked
     \/ ~hndRel[h] /\ Asked(h, caller[p].di)

\* CallHandler does so.
LEMMA CallHandlerDoes ==
  ASSUME TypeInv, NEW p \in Callers, CallHandler(p)
  PROVE  /\ caller[p].at = "calling" /\ caller[p].di \in Ids /\ caller[p].todo \in Seq(Handlers)
         /\ NextAsked(p, Head(caller[p].todo), Tail(caller[p].todo))
  <1> DEFINE c == caller[p]
             h == Head(c.todo)
             todo == Tail(c.todo)
             T == [at: {"calling"}, di: Ids, todo: Seq(Handlers), res: Seq(Handlers)]
  <1>1. c \in CallerState /\ c.at = "calling" /\ c.todo # <<>>
    BY DEF TypeInv, TypeOK, CallHandler
  <1>2. c \in T /\ c.di \in Ids /\ c.todo \in Seq(Handlers) /\ c.res \in Seq(Handlers)
    BY <1>1 DEF CallerState
  <1>3. h \in Handlers /\ todo \in Seq(Handlers)
    BY <1>1, <1>2
  <1>4. \A x \in T : x \in CallerState /\ x.at = "calling"
    BY DEF CallerState
  <1>5. CASE hndRel[h]
    <2>1. PICK x : x = [c EXCEPT !.todo = todo]
      OBVIOUS
    <2>2. caller' = [caller EXCEPT ![p] = x] /\ UNCHANGED asked
      BY <1>5, <2>1 DEF CallHandler
    <2>3. x \in T /\ x.di = c.di /\ x.todo = todo
      <3> HIDE DEF c, todo
      <3> QED BY <1>2, <1>3, <2>1, CallerReplaced
    <2>4. CallsOn(p, c.di, todo)
      <3> HIDE DEF c, todo, T
      <3> QED BY <1>4, <2>2, <2>3 DEF CallsOn
    <2> QED BY <1>1, <1>2, <1>3, <1>5, <2>2, <2>4 DEF NextAsked
  <1>6. CASE ~hndRel[h]
    <2>1. PICK res \in {c.res, Append(c.res, h)} :
            caller' = [caller EXCEPT ![p] = [[c EXCEPT !.todo = todo] EXCEPT !.res = res]]
      BY <1>6 DEF CallHandler
    <2>2. Asked(h, c.di)
      BY <1>6 DEF CallHandler
    <2>3. res \in Seq(Handlers)
      <3> HIDE DEF c, h
      <3> QED BY <1>2, <1>3, <2>1
    <2>4. PICK x : x = [[c EXCEPT !.todo = todo] EXCEPT !.res = res]
      OBVIOUS
    <2>5. x \in T /\ x.di = c.di /\ x.todo = todo
      <3> HIDE DEF c, todo
      <3> QED BY <1>2, <1>3, <2>3, <2>4, CallerReplaced
    <2>6. CallsOn(p, c.di, todo)
      <3> HIDE DEF c, todo, T
      <3> QED BY <1>4, <2>1, <2>4, <2>5 DEF CallsOn
    <2> QED BY <1>1, <1>2, <1>3, <1>6, <2>2, <2>6 DEF NextAsked
  <1> QED BY <1>1, <1>2, <1>5, <1>6

\* A caller leaves the handlers it has asked for the resolvers they returned.
LEMMA AttachDoes ==
  ASSUME TypeInv, NEW p \in Callers, AttachReturned(p) \/ AttachNext(p)
  PROVE  /\ caller[p].at \in {"calling", "attaching"}
         /\ caller[p].at = "calling" => caller[p].todo = <<>>
         /\ attached' \in [Ids -> SUBSET Handlers]
         /\ \E x \in CallerState : x.at \in {"holding", "attaching"} /\ caller' = [caller EXCEPT ![p] = x]
  <1> DEFINE c == caller[p]
  <1>1. c \in CallerState /\ c.at \in {"calling", "attaching"}
    BY DEF TypeInv, TypeOK, AttachReturned, AttachNext
  <1>2. c.di \in Ids /\ c.res \in Seq(Handlers)
    BY <1>1, StateFields
  <1>3. attached \in [Ids -> SUBSET Handlers]
    BY DEF TypeInv, TypeOK
  <1> HIDE DEF c
  <1>4. ASSUME NEW res \in Seq(Handlers), AttachFrom(p, c.di, res)
        PROVE  /\ attached' \in [Ids -> SUBSET Handlers]
               /\ \E x \in CallerState : x.at \in {"holding", "attaching"} /\ caller' = [caller EXCEPT ![p] = x]
    <2>1. CASE res = <<>>
      <3>1. [at |-> "holding", di |-> c.di] \in CallerState
        BY <1>2, StatePlaces
      <3> QED BY <1>3, <1>4, <2>1, <3>1 DEF AttachFrom
    <2>2. CASE res # <<>>
      <3>1. Head(res) \in Handlers /\ Tail(res) \in Seq(Handlers)
        BY <1>4, <2>2
      <3>2. [at |-> "attaching", di |-> c.di, res |-> Tail(res)] \in CallerState
        BY <1>2, <3>1, StatePlaces
      <3>3. attached' = [attached EXCEPT ![c.di] = @ \cup {Head(res)}]
            /\ caller' = [caller EXCEPT ![p] = [at |-> "attaching", di |-> c.di, res |-> Tail(res)]]
        BY <1>4, <2>2 DEF AttachFrom
      <3> QED BY <1>2, <1>3, <3>1, <3>2, <3>3
    <2> QED BY <2>1, <2>2
  <1>5. \E res \in Seq(Handlers) : AttachFrom(p, c.di, res)
    <2>1. AttachFrom(p, c.di, IF released[c.di] THEN <<>> ELSE c.res) \/ AttachFrom(p, c.di, c.res)
      BY DEF AttachReturned, AttachNext, c
    <2>2. (IF released[c.di] THEN <<>> ELSE c.res) \in Seq(Handlers)
      BY <1>2
    <2> QED BY <1>2, <2>1, <2>2
  <1>6. c.at = "calling" => c.todo = <<>>
    BY DEF AttachReturned, AttachNext, c
  <1> QED BY <1>1, <1>4, <1>5, <1>6 DEF c

\* The handler goes on with a shorter list.
AsksOn(h, todo) ==
  \E x \in HandlerState : x.at = "calling" /\ x.todo = todo /\ handler' = [handler EXCEPT ![h] = x]

\* AddHandler asks the handler about the next instance.
LEMMA CallDirectiveDoes ==
  ASSUME TypeInv, NEW h \in Handlers, CallDirective(h)
  PROVE  /\ handler[h].at = "calling" /\ handler[h].todo # <<>> /\ handler[h].todo \in Seq(Ids)
         /\ Head(handler[h].todo) \in Ids /\ Tail(handler[h].todo) \in Seq(Ids)
         /\ Asked(h, Head(handler[h].todo))
         /\ AsksOn(h, Tail(handler[h].todo))
  <1> DEFINE s == handler[h]
             todo == Tail(s.todo)
             di == Head(s.todo)
             T == [at: {"calling"}, todo: Seq(Ids), res: Seq(Ids)]
  <1>1. s \in HandlerState /\ s.at = "calling" /\ s.todo # <<>>
    BY DEF TypeInv, TypeOK, CallDirective
  <1>2. s \in T /\ s.todo \in Seq(Ids) /\ s.res \in Seq(Ids)
    BY <1>1 DEF HandlerState
  <1>3. di \in Ids /\ todo \in Seq(Ids)
    BY <1>1, <1>2
  <1>4. \A x \in T : x \in HandlerState /\ x.at = "calling"
    BY DEF HandlerState
  <1>5. PICK res \in {s.res, Append(s.res, di)} : handler' = [handler EXCEPT ![h] = [s EXCEPT !.todo = todo, !.res = res]]
    BY DEF CallDirective
  <1>6. Asked(h, di)
    BY DEF CallDirective
  <1>7. res \in Seq(Ids)
    <2> HIDE DEF s, di
    <2> QED BY <1>2, <1>3, <1>5
  <1>8. PICK x : x = [s EXCEPT !.todo = todo, !.res = res]
    OBVIOUS
  <1>9. x \in T /\ x.todo = todo
    <2> HIDE DEF s, todo
    <2> QED BY <1>2, <1>3, <1>7, <1>8, HandlerReplaced
  <1>10. AsksOn(h, todo)
    <2> HIDE DEF s, todo, T
    <2> QED BY <1>4, <1>5, <1>8, <1>9 DEF AsksOn
  <1> QED BY <1>1, <1>2, <1>3, <1>6, <1>10

\* The instances get the resolvers that the handler returned.
LEMMA AttachToInstancesDoes ==
  ASSUME TypeInv, NEW h \in Handlers, AttachToInstances(h)
  PROVE  /\ handler[h].at \in {"calling", "attaching"}
         /\ handler[h].at = "calling" => handler[h].todo = <<>>
         /\ attached' \in [Ids -> SUBSET Handlers]
         /\ \E x \in HandlerState : x.at \in {"on", "attaching"} /\ handler' = [handler EXCEPT ![h] = x]
  <1> DEFINE s == handler[h]
  <1>1. s \in HandlerState /\ s.at \in {"calling", "attaching"} /\ (s.at = "calling" => s.todo = <<>>)
    BY DEF TypeInv, TypeOK, AttachToInstances
  <1>2. s.res \in Seq(Ids)
    BY <1>1, StateFields
  <1>3. attached \in [Ids -> SUBSET Handlers]
    BY DEF TypeInv, TypeOK
  <1>4. CASE s.res = <<>>
    <2>1. [at |-> "on"] \in HandlerState
      BY StatePlaces
    <2>2. handler' = [handler EXCEPT ![h] = [at |-> "on"]] /\ UNCHANGED attached
      BY <1>4 DEF AttachToInstances
    <2> QED BY <1>1, <1>3, <2>1, <2>2
  <1>5. CASE s.res # <<>>
    <2>1. Head(s.res) \in Ids /\ Tail(s.res) \in Seq(Ids)
      BY <1>2, <1>5
    <2>2. [at |-> "attaching", res |-> Tail(s.res)] \in HandlerState
      BY <2>1, StatePlaces
    <2>3. attached' = [attached EXCEPT ![Head(s.res)] = @ \cup {h}]
          /\ handler' = [handler EXCEPT ![h] = [at |-> "attaching", res |-> Tail(s.res)]]
      BY <1>5 DEF AttachToInstances
    <2>4. attached' \in [Ids -> SUBSET Handlers]
      BY <1>3, <2>1, <2>3
    <2> QED BY <1>1, <2>2, <2>3, <2>4
  <1> QED BY <1>4, <1>5

\* The loop of removeHandlerLocked goes on in the array it started with.
LEMMA RemoveFromDoes ==
  ASSUME TypeInv, NEW h \in Handlers, NEW a, NEW len, Filled(a, len), NEW i \in Nat \ {0},
         RemoveFrom(h, a, len, i)
  PROVE  /\ attached' \in [Ids -> SUBSET Handlers]
         /\ \E x \in HandlerState : /\ x.at \in {"off", "removing"} /\ handler' = [handler EXCEPT ![h] = x]
                                    /\ x.at = "removing" => x.a = a /\ x.len = len /\ x.i >= 1
  <1> DEFINE K == {k \in i..len : h \in attached[arrs[a][k]]}
             k == CHOOSE n \in K : \A m \in K : n <= m
  <1>0. attached \in [Ids -> SUBSET Handlers]
    BY DEF TypeInv, TypeOK
  <1>1. a \in Nat /\ len \in Nat /\ \A n \in 1..len : arrs[a][n] \in Ids
    <2>1. a \in 1..Len(arrs) /\ len \in 0..Len(arrs[a]) /\ \A n \in 1..len : arrs[a][n] \in 1..dirID
      BY DEF Filled
    <2>2. Len(arrs[a]) \in Nat /\ dirID \in 0..MaxInstances
      BY <2>1 DEF TypeInv, TypeOK
    <2>3. 1..dirID \subseteq Ids
      BY <2>2, BoundAssumption DEF Ids
    <2> QED BY <2>1, <2>2, <2>3
  <1>2. CASE K = {}
    <2>1. handler' = [handler EXCEPT ![h] = [at |-> "off"]] /\ UNCHANGED attached
      BY <1>2 DEF RemoveFrom
    <2>2. [at |-> "off"] \in HandlerState
      BY StatePlaces
    <2> QED BY <1>0, <2>1, <2>2
  <1>3. CASE K # {}
    <2>1. K \subseteq i..len /\ K \subseteq Nat
      BY <1>1
    <2>2. \E n \in K : \A m \in K : n <= m
      BY <1>3, <2>1, LeastIndex
    <2>3. k \in K
      BY <2>2
    <2>4. k \in 1..len /\ k + 1 \in Nat /\ k + 1 >= 1
      <3> HIDE DEF k, K
      <3> QED BY <1>1, <2>1, <2>3
    <2>5. attached' = [attached EXCEPT ![arrs[a][k]] = @ \ {h}]
      BY <1>3 DEF RemoveFrom
    <2>6. handler' = [handler EXCEPT ![h] = [at |-> "removing", a |-> a, len |-> len, i |-> k + 1]]
      BY <1>3 DEF RemoveFrom
    <2> HIDE DEF k
    <2>7. [at |-> "removing", a |-> a, len |-> len, i |-> k + 1] \in HandlerState
      BY <1>1, <2>4, StatePlaces
    <2>8. attached' \in [Ids -> SUBSET Handlers]
      BY <1>0, <1>1, <2>4, <2>5
    <2> QED BY <2>4, <2>6, <2>7, <2>8
  <1> QED BY <1>2, <1>3

\* One caller, or one handler, moves and its loop stays inside its array.
CallerMoves(p, x) ==
  /\ x \in CallerState /\ caller' = [caller EXCEPT ![p] = x]
  /\ x.at = "superceeding" => Filled(x.a, x.len) /\ x.i >= 1

HandlerMoves(h, x) ==
  /\ x \in HandlerState /\ handler' = [handler EXCEPT ![h] = x]
  /\ x.at = "removing" => Filled(x.a, x.len) /\ x.i >= 1

CallersKept ==
  /\ caller' \in [Callers -> CallerState]
  /\ \A p \in Callers : caller'[p].at = "superceeding" => Filled(caller'[p].a, caller'[p].len) /\ caller'[p].i >= 1

HandlersKept ==
  /\ handler' \in [Handlers -> HandlerState]
  /\ \A h \in Handlers : handler'[h].at = "removing" => Filled(handler'[h].a, handler'[h].len) /\ handler'[h].i >= 1

\* The others stay where they are.
LEMMA CallerMovesDoes ==
  ASSUME TypeInv, NEW p \in Callers, NEW x, CallerMoves(p, x)
  PROVE  CallersKept /\ caller'[p] = x /\ \A q \in Callers : q # p => caller'[q] = caller[q]
  <1>1. caller \in [Callers -> CallerState]
    BY DEF TypeInv, TypeOK
  <1>2. caller' \in [Callers -> CallerState] /\ caller'[p] = x /\ \A q \in Callers : q # p => caller'[q] = caller[q]
    BY <1>1 DEF CallerMoves
  <1> QED BY <1>2 DEF CallerMoves, CallersKept, TypeInv, LoopsOK

LEMMA HandlerMovesDoes ==
  ASSUME TypeInv, NEW h \in Handlers, NEW x, HandlerMoves(h, x)
  PROVE  HandlersKept /\ handler'[h] = x /\ \A g \in Handlers : g # h => handler'[g] = handler[g]
  <1>1. handler \in [Handlers -> HandlerState]
    BY DEF TypeInv, TypeOK
  <1>2. handler' \in [Handlers -> HandlerState] /\ handler'[h] = x /\ \A g \in Handlers : g # h => handler'[g] = handler[g]
    BY <1>1 DEF HandlerMoves
  <1> QED BY <1>2 DEF HandlerMoves, HandlersKept, TypeInv, LoopsOK

LEMMA KeptSame ==
  ASSUME TypeInv
  PROVE  (UNCHANGED caller => CallersKept) /\ (UNCHANGED handler => HandlersKept)
  BY DEF TypeInv, TypeOK, LoopsOK, CallersKept, HandlersKept

\* How often handlers are asked is counted.
LEMMA AskedDoes ==
  ASSUME TypeInv, NEW h \in Handlers, NEW di \in Ids, Asked(h, di)
  PROVE  /\ asked' \in [Handlers \X Ids -> Nat]
         /\ asked'[<<h, di>>] = asked[<<h, di>>] + 1
         /\ \A g \in Handlers, e \in Ids : g # h \/ e # di => asked'[<<g, e>>] = asked[<<g, e>>]
  <1>1. asked \in [Handlers \X Ids -> Nat] /\ <<h, di>> \in Handlers \X Ids
    BY DEF TypeInv, TypeOK
  <1>2. asked' = [asked EXCEPT ![<<h, di>>] = asked[<<h, di>>] + 1] /\ asked[<<h, di>>] + 1 \in Nat
    BY <1>1 DEF Asked
  <1>3. \A g \in Handlers, e \in Ids : <<g, e>> \in Handlers \X Ids /\ (g # h \/ e # di => <<g, e>> # <<h, di>>)
    OBVIOUS
  <1> QED BY <1>1, <1>2, <1>3

\* The loop of AddDirective moves its caller.
LEMMA LoopMoves ==
  ASSUME TypeInv, NEW p \in Callers, NEW d \in Directives, NEW a, NEW len, Filled(a, len), NEW i \in Nat \ {0},
         AddLoop(p, d, a, len, i)
  PROVE  /\ ListStep /\ dirID' \in 0..MaxInstances /\ dirOf' \in Seq(Directives) /\ Len(dirOf') = dirID'
         /\ released' \in [Ids -> BOOLEAN] /\ attached' \in [Ids -> SUBSET Handlers] /\ emptying' \subseteq Ids
         /\ panicked' \in BOOLEAN /\ CallersKept
  <1> DEFINE Goal == /\ ListStep /\ dirID' \in 0..MaxInstances /\ dirOf' \in Seq(Directives) /\ Len(dirOf') = dirID'
                     /\ released' \in [Ids -> BOOLEAN] /\ attached' \in [Ids -> SUBSET Handlers] /\ emptying' \subseteq Ids
                     /\ panicked' \in BOOLEAN /\ CallersKept
  <1>0. /\ dirID \in 0..MaxInstances /\ dirOf \in Seq(Directives) /\ Len(dirOf) = dirID /\ hnd \in Seq(Handlers)
        /\ released \in [Ids -> BOOLEAN] /\ attached \in [Ids -> SUBSET Handlers] /\ emptying \subseteq Ids
        /\ panicked \in BOOLEAN
    BY DEF TypeInv, TypeOK
  <1>1. 1..dirID \subseteq Ids /\ a \in Nat /\ len \in Nat
    <2>1. a \in 1..Len(arrs) /\ len \in 0..Len(arrs[a]) /\ Len(arrs[a]) \in Nat
      BY DEF Filled, TypeInv, TypeOK
    <2> QED BY <1>0, <2>1, BoundAssumption DEF Ids
  <1>2. ASSUME Joins(p, d) PROVE Goal
    <2>1. dirID + 1 \in Ids /\ dirID + 1 \in 0..MaxInstances /\ <<>> \in Seq(Handlers)
      BY <1>0, <1>2, BoundAssumption DEF Joins, Ids
    <2>2. PICK x : x = [at |-> "calling", di |-> dirID + 1, todo |-> hnd, res |-> <<>>]
      OBVIOUS
    <2>3. x \in CallerState /\ x.at = "calling"
      BY <1>0, <2>1, <2>2, StatePlaces
    <2>4. CallerMoves(p, x)
      BY <1>2, <2>2, <2>3 DEF Joins, CallerMoves
    <2>5. dirOf' \in Seq(Directives) /\ Len(dirOf') = dirID'
      BY <1>0, <1>2 DEF Joins
    <2> QED BY <1>0, <1>2, <2>1, <2>4, <2>5, CallerMovesDoes DEF Joins
  <1>3. ASSUME NEW k \in i..len, NEW di, Superceeded(p, d, a, len, k, di) PROVE Goal
    <2>1. di \in Ids /\ k + 1 \in Nat /\ k + 1 >= 1
      BY <1>1, <1>3 DEF Superceeded
    <2>2. PICK x : x = [at |-> "superceeding", d |-> d, a |-> a, len |-> len, i |-> k + 1, di |-> di]
      OBVIOUS
    <2>3. x \in CallerState /\ x.a = a /\ x.len = len /\ x.i = k + 1
      BY <1>1, <2>1, <2>2, StatePlaces
    <2>4. CallerMoves(p, x)
      BY <1>3, <2>1, <2>2, <2>3 DEF Superceeded, CallerMoves
    <2>5. Leaves(di, k) /\ UNCHANGED <<dirID, dirOf, attached>>
      BY <1>3 DEF Superceeded
    <2> QED BY <1>0, <2>4, <2>5, CallerMovesDoes DEF Leaves
  <1>4. ASSUME NEW di \in 1..dirID, Found(p, di) PROVE Goal
    <2>1. PICK x : x = [at |-> "holding", di |-> di]
      OBVIOUS
    <2>2. x \in CallerState /\ x.at = "holding"
      BY <1>1, <2>1, StatePlaces
    <2>3. CallerMoves(p, x)
      BY <1>4, <2>1, <2>2 DEF Found, CallerMoves
    <2>4. UNCHANGED <<dirID, dirOf, released, attached, emptying, panicked>> /\ ListStep
      BY <1>4, ListSame DEF Found, instVars
    <2> QED BY <1>0, <2>3, <2>4, CallerMovesDoes
  <1> HIDE DEF Goal
  <1>5. Goal
    BY <1>2, <1>3, <1>4, AddLoopDoes
  <1> QED BY <1>5 DEF Goal

\* What the invariant says of a state, for the steps that leave most of it alone.
LEMMA Typed ==
  ASSUME TypeInv
  PROVE  /\ dirID \in 0..MaxInstances /\ dirOf \in Seq(Directives) /\ Len(dirOf) = dirID
         /\ released \in [Ids -> BOOLEAN] /\ attached \in [Ids -> SUBSET Handlers] /\ emptying \subseteq Ids
         /\ hnd \in Seq(Handlers) /\ hndRel \in [Handlers -> BOOLEAN] /\ caller \in [Callers -> CallerState]
         /\ handler \in [Handlers -> HandlerState] /\ asked \in [Handlers \X Ids -> Nat] /\ panicked \in BOOLEAN
         /\ 1..dirID \subseteq Ids /\ Filled(Len(arrs), nDir) /\ Listed \subseteq 1..dirID
  <1>1. /\ dirID \in 0..MaxInstances /\ dirOf \in Seq(Directives) /\ Len(dirOf) = dirID
        /\ released \in [Ids -> BOOLEAN] /\ attached \in [Ids -> SUBSET Handlers] /\ emptying \subseteq Ids
        /\ hnd \in Seq(Handlers) /\ hndRel \in [Handlers -> BOOLEAN] /\ caller \in [Callers -> CallerState]
        /\ handler \in [Handlers -> HandlerState] /\ asked \in [Handlers \X Ids -> Nat] /\ panicked \in BOOLEAN
    BY DEF TypeInv, TypeOK
  <1>2. 1..dirID \subseteq Ids
    BY <1>1, BoundAssumption DEF Ids
  <1>3. Filled(Len(arrs), nDir)
    BY DEF TypeInv, LoopsOK
  <1>4. Listed \subseteq 1..dirID
    BY ArrType DEF Listed
  <1> QED BY <1>1, <1>2, <1>3, <1>4

\* The steps of a caller keep the types.
LEMMA CallerTypes ==
  ASSUME TypeInv, NEW p \in Callers, CallerStep(p)
  PROVE  TypeInv'
  <1>1. ASSUME NEW d \in Directives, AddDirective(p, d) PROVE TypeInv'
    <2>1. nDir \in Nat /\ Filled(Len(arrs), nDir) /\ AddLoop(p, d, Len(arrs), nDir, 1) /\ UNCHANGED <<hnd, hndRel, handler, asked>>
      BY <1>1, Typed, ArrType DEF AddDirective
    <2> QED BY <2>1, LoopMoves, Typed, KeptSame, TypeAssemble DEF CallersKept, HandlersKept
  <1>2. ASSUME ContinueLoop(p) PROVE TypeInv'
    <2>1. caller[p] \in CallerState /\ caller[p].at = "superceeding"
      BY <1>2, Typed DEF ContinueLoop
    <2>2. Filled(caller[p].a, caller[p].len) /\ caller[p].i >= 1
      BY <2>1 DEF TypeInv, LoopsOK
    <2>3. caller[p].d \in Directives /\ caller[p].i \in Nat \ {0}
      BY <2>1, <2>2, StateFields
    <2>4. AddLoop(p, caller[p].d, caller[p].a, caller[p].len, caller[p].i) /\ UNCHANGED <<hnd, hndRel, handler, asked>>
      BY <1>2 DEF ContinueLoop
    <2> QED BY <2>2, <2>3, <2>4, LoopMoves, Typed, KeptSame, TypeAssemble DEF CallersKept, HandlersKept
  <1>3. ASSUME CallHandler(p) PROVE TypeInv'
    <2>1. UNCHANGED <<dirID, dirOf, released, attached, emptying, listVars, hnd, hndRel, handler, panicked>>
      BY <1>3 DEF CallHandler, instVars
    <2>2. caller[p].di \in Ids /\ NextAsked(p, Head(caller[p].todo), Tail(caller[p].todo))
      BY <1>3, CallHandlerDoes
    <2>3. PICK x \in CallerState : x.at = "calling" /\ caller' = [caller EXCEPT ![p] = x]
      BY <2>2 DEF NextAsked, CallsOn
    <2>4. CallersKept
      BY <2>3, CallerMovesDoes DEF CallerMoves
    <2>5. asked' \in [Handlers \X Ids -> Nat]
      BY <2>2, AskedDoes, Typed DEF NextAsked
    <2>6. ListStep /\ HandlersKept
      BY <2>1, ListSame, KeptSame
    <2> QED BY <2>1, <2>4, <2>5, <2>6, Typed, TypeAssemble DEF CallersKept, HandlersKept
  <1>4. ASSUME AttachReturned(p) \/ AttachNext(p) PROVE TypeInv'
    <2>1. UNCHANGED <<dirID, dirOf, released, emptying, listVars, hnd, hndRel, handler, asked, panicked>>
      BY <1>4 DEF AttachReturned, AttachNext
    <2>2. PICK x \in CallerState : x.at \in {"holding", "attaching"} /\ caller' = [caller EXCEPT ![p] = x]
      BY <1>4, AttachDoes
    <2>3. CallersKept
      BY <2>2, CallerMovesDoes DEF CallerMoves
    <2>4. ListStep /\ HandlersKept
      BY <2>1, ListSame, KeptSame
    <2>5. attached' \in [Ids -> SUBSET Handlers]
      BY <1>4, AttachDoes
    <2> QED BY <2>1, <2>3, <2>4, <2>5, Typed, TypeAssemble DEF CallersKept, HandlersKept
  <1>5. ASSUME ReleaseRef(p) PROVE TypeInv'
    <2>1. UNCHANGED <<dirID, dirOf, released, attached, emptying, listVars, hnd, hndRel, handler, asked, panicked>>
      BY <1>5 DEF ReleaseRef, instVars
    <2>2. PICK x : x = [at |-> "idle"]
      OBVIOUS
    <2>3. x \in CallerState /\ x.at = "idle" /\ caller' = [caller EXCEPT ![p] = x]
      BY <1>5, <2>2, StatePlaces DEF ReleaseRef
    <2>4. CallersKept
      BY <2>3, CallerMovesDoes DEF CallerMoves
    <2>5. ListStep /\ HandlersKept
      BY <2>1, ListSame, KeptSame
    <2> QED BY <2>1, <2>4, <2>5, Typed, TypeAssemble DEF CallersKept, HandlersKept
  <1> QED BY <1>1, <1>2, <1>3, <1>4, <1>5 DEF CallerStep

\* The handler that is released is listed.
LEMMA ReleasedListed ==
  ASSUME HandlersOK, NEW h \in Handlers, handler[h].at = "released"
  PROVE  Distinct(hnd) /\ In(h, hnd)
  BY DEF HandlersOK

\* The steps of a handler keep the types.
LEMMA HandlerTypes ==
  ASSUME TypeInv, HandlersOK, NEW h \in Handlers, HandlerStep(h)
  PROVE  TypeInv'
  <1>1. ASSUME AddHandler(h) PROVE TypeInv'
    <2>1. UNCHANGED <<dirID, dirOf, released, attached, emptying, listVars, hndRel, caller, asked, panicked>>
      BY <1>1 DEF AddHandler, instVars
    <2>2. hnd' \in Seq(Handlers)
      BY <1>1, Typed DEF AddHandler
    <2>3. Dir \in Seq(Ids) /\ <<>> \in Seq(Ids)
      <3>1. Arr \in Seq(0..dirID) /\ nDir \in 0..Len(Arr) /\ Len(Arr) \in Nat /\ \A n \in 1..nDir : Arr[n] \in 1..dirID
        BY ArrType
      <3>2. Len(Dir) = nDir /\ DOMAIN Dir = 1..nDir /\ \A n \in 1..nDir : Dir[n] = Arr[n]
        BY <3>1 DEF Dir
      <3>3. Dir \in Seq(0..dirID)
        BY <3>1 DEF Dir
      <3>4. \A n \in 1..nDir : Dir[n] \in Ids
        BY <3>1, <3>2, Typed
      <3>5. Dir \in [1..nDir -> Ids] /\ nDir \in Nat
        BY <3>1, <3>2, <3>3, <3>4
      <3> QED BY <3>5
    <2>4. PICK x : x = [at |-> "calling", todo |-> Dir, res |-> <<>>]
      OBVIOUS
    <2>5. x \in HandlerState /\ x.at = "calling" /\ handler' = [handler EXCEPT ![h] = x]
      BY <1>1, <2>3, <2>4, StatePlaces DEF AddHandler
    <2>6. HandlersKept
      BY <2>5, HandlerMovesDoes DEF HandlerMoves
    <2>7. ListStep /\ CallersKept
      BY <2>1, ListSame, KeptSame
    <2> QED BY <2>1, <2>2, <2>6, <2>7, Typed, TypeAssemble DEF CallersKept, HandlersKept
  <1>2. ASSUME CallDirective(h) PROVE TypeInv'
    <2>1. UNCHANGED <<dirID, dirOf, released, attached, emptying, listVars, hnd, hndRel, caller, panicked>>
      BY <1>2 DEF CallDirective, instVars
    <2>2. asked' \in [Handlers \X Ids -> Nat]
      BY <1>2, CallDirectiveDoes, AskedDoes
    <2>3. PICK x \in HandlerState : x.at = "calling" /\ handler' = [handler EXCEPT ![h] = x]
      BY <1>2, CallDirectiveDoes DEF AsksOn
    <2>4. HandlersKept
      BY <2>3, HandlerMovesDoes DEF HandlerMoves
    <2>5. ListStep /\ CallersKept
      BY <2>1, ListSame, KeptSame
    <2> QED BY <2>1, <2>2, <2>4, <2>5, Typed, TypeAssemble DEF CallersKept, HandlersKept
  <1>3. ASSUME AttachToInstances(h) PROVE TypeInv'
    <2>1. UNCHANGED <<dirID, dirOf, released, emptying, listVars, hnd, hndRel, caller, asked, panicked>>
      BY <1>3 DEF AttachToInstances
    <2>2. attached' \in [Ids -> SUBSET Handlers]
      BY <1>3, AttachToInstancesDoes
    <2>3. PICK x \in HandlerState : x.at \in {"on", "attaching"} /\ handler' = [handler EXCEPT ![h] = x]
      BY <1>3, AttachToInstancesDoes
    <2>4. HandlersKept
      BY <2>3, HandlerMovesDoes DEF HandlerMoves
    <2>5. ListStep /\ CallersKept
      BY <2>1, ListSame, KeptSame
    <2> QED BY <2>1, <2>2, <2>4, <2>5, Typed, TypeAssemble DEF CallersKept, HandlersKept
  <1>4. ASSUME RelHandler(h) PROVE TypeInv'
    <2>1. UNCHANGED <<dirID, dirOf, released, attached, emptying, listVars, hnd, caller, asked, panicked>>
      BY <1>4 DEF RelHandler, instVars
    <2>2. hndRel' \in [Handlers -> BOOLEAN]
      BY <1>4, Typed DEF RelHandler
    <2>3. PICK x : x = [at |-> "released"]
      OBVIOUS
    <2>4. x \in HandlerState /\ x.at = "released" /\ handler' = [handler EXCEPT ![h] = x]
      BY <1>4, <2>3, StatePlaces DEF RelHandler
    <2>5. HandlersKept
      BY <2>4, HandlerMovesDoes DEF HandlerMoves
    <2>6. ListStep /\ CallersKept
      BY <2>1, ListSame, KeptSame
    <2> QED BY <2>1, <2>2, <2>5, <2>6, Typed, TypeAssemble DEF CallersKept, HandlersKept
  <1>5. ASSUME RemoveHandler(h) PROVE TypeInv'
    <2>1. UNCHANGED <<dirID, dirOf, released, emptying, listVars, hndRel, caller, asked, panicked>>
      BY <1>5 DEF RemoveHandler
    <2>2. hnd' \in Seq(Handlers)
      BY <1>5, Typed, ReleasedListed, UnlistedDoes DEF RemoveHandler
    <2>3. RemoveFrom(h, Len(arrs), nDir, 1) /\ Filled(Len(arrs), nDir)
      BY <1>5, Typed DEF RemoveHandler
    <2>4. /\ attached' \in [Ids -> SUBSET Handlers]
          /\ \E x \in HandlerState : /\ x.at \in {"off", "removing"} /\ handler' = [handler EXCEPT ![h] = x]
                                     /\ x.at = "removing" => x.a = Len(arrs) /\ x.len = nDir /\ x.i >= 1
      BY <2>3, RemoveFromDoes
    <2>5. HandlersKept
      BY <2>3, <2>4, HandlerMovesDoes DEF HandlerMoves
    <2>6. ListStep /\ CallersKept
      BY <2>1, ListSame, KeptSame
    <2> QED BY <2>1, <2>2, <2>4, <2>5, <2>6, Typed, TypeAssemble DEF CallersKept, HandlersKept
  <1>6. ASSUME RemoveHandlerNext(h) PROVE TypeInv'
    <2>1. UNCHANGED <<dirID, dirOf, released, emptying, listVars, hnd, hndRel, caller, asked, panicked>>
      BY <1>6 DEF RemoveHandlerNext
    <2>2. handler[h].at = "removing" /\ handler[h] \in HandlerState
      BY <1>6, Typed DEF RemoveHandlerNext
    <2>3. Filled(handler[h].a, handler[h].len) /\ handler[h].i >= 1
      BY <2>2 DEF TypeInv, LoopsOK
    <2>4. handler[h].i \in Nat \ {0}
      BY <2>2, <2>3, StateFields
    <2>5. PICK a, len : a = handler[h].a /\ len = handler[h].len
      OBVIOUS
    <2>6. Filled(a, len) /\ RemoveFrom(h, a, len, handler[h].i)
      BY <1>6, <2>3, <2>5 DEF RemoveHandlerNext
    <2>7. /\ attached' \in [Ids -> SUBSET Handlers]
          /\ \E x \in HandlerState : /\ x.at \in {"off", "removing"} /\ handler' = [handler EXCEPT ![h] = x]
                                     /\ x.at = "removing" => x.a = a /\ x.len = len /\ x.i >= 1
      BY <2>4, <2>6, RemoveFromDoes
    <2>8. HandlersKept
      BY <2>6, <2>7, HandlerMovesDoes DEF HandlerMoves
    <2>9. ListStep /\ CallersKept
      BY <2>1, ListSame, KeptSame
    <2> QED BY <2>1, <2>7, <2>8, <2>9, Typed, TypeAssemble DEF CallersKept, HandlersKept
  <1> QED BY <1>1, <1>2, <1>3, <1>4, <1>5, <1>6 DEF HandlerStep

\* An instance that is closed is where removeLocked finds it, or is not listed.
LEMMA CloseDoes ==
  ASSUME TypeInv, NEW di, CloseInstance(di)
  PROVE  /\ UNCHANGED <<dirID, dirOf, attached, hnd, hndRel, caller, handler, asked>>
         /\ di \in 1..dirID /\ ~released[di] /\ ListStep
         /\ \/ \E n \in 1..nDir : Arr[n] = di /\ Leaves(di, n)
            \/ /\ di \notin Listed /\ released' = [released EXCEPT ![di] = TRUE]
               /\ UNCHANGED <<emptying, listVars, panicked>>
  <1>1. UNCHANGED <<dirID, dirOf, attached, hnd, hndRel, caller, handler, asked>> /\ di \in 1..dirID /\ ~released[di]
    BY DEF CloseInstance
  <1>2. CASE di \in Listed
    <2>1. PICK n \in 1..nDir : n = CHOOSE m \in 1..nDir : Arr[m] = di
      BY <1>2 DEF Listed
    <2>2. Arr[n] = di
      BY <1>2, <2>1 DEF Listed
    <2>3. RemoveLocked(di, n)
      BY <1>2, <2>1 DEF CloseInstance
    <2>4. n \in Nat \ {0}
      <3>1. nDir \in Nat
        BY ArrType
      <3>2. 1..nDir \subseteq Nat \ {0}
        BY <3>1
      <3> QED BY <2>1, <3>2, Zenon
    <2>5. Leaves(di, n)
      BY <1>1, <2>3, <2>4, RemoveLockedDoes
    <2> QED BY <1>1, <2>2, <2>5 DEF Leaves
  <1>3. CASE di \notin Listed
    <2>1. released' = [released EXCEPT ![di] = TRUE] /\ UNCHANGED <<emptying, listVars, panicked>>
      BY <1>3 DEF CloseInstance
    <2>2. ListStep
      BY <1>1, <2>1, ListSame
    <2> QED BY <1>1, <1>3, <2>1, <2>2
  <1> QED BY <1>2, <1>3

\* Closing and emptying keep the types.
LEMMA InstanceTypes ==
  ASSUME TypeInv, NEW di \in Ids, CloseInstance(di) \/ EmptyInstance(di)
  PROVE  TypeInv'
  <1>1. ASSUME CloseInstance(di) PROVE TypeInv'
    <2>1. UNCHANGED <<dirID, dirOf, attached, hnd, hndRel, caller, handler, asked>> /\ ListStep
      BY <1>1, CloseDoes
    <2>2. released' \in [Ids -> BOOLEAN] /\ emptying' \subseteq Ids /\ panicked' \in BOOLEAN
      <3>1. ASSUME NEW n, Leaves(di, n) PROVE released' \in [Ids -> BOOLEAN] /\ emptying' \subseteq Ids /\ panicked' \in BOOLEAN
        BY <3>1 DEF Leaves
      <3>2. ASSUME released' = [released EXCEPT ![di] = TRUE], UNCHANGED <<emptying, listVars, panicked>>
            PROVE  released' \in [Ids -> BOOLEAN] /\ emptying' \subseteq Ids /\ panicked' \in BOOLEAN
        BY <3>2, Typed
      <3> QED BY <1>1, <3>1, <3>2, CloseDoes
    <2>3. CallersKept /\ HandlersKept
      BY <2>1, KeptSame
    <2> QED BY <2>1, <2>2, <2>3, Typed, TypeAssemble DEF CallersKept, HandlersKept
  <1>2. ASSUME EmptyInstance(di) PROVE TypeInv'
    <2>1. UNCHANGED <<dirID, dirOf, released, listVars, hnd, hndRel, caller, handler, asked, panicked>>
      BY <1>2 DEF EmptyInstance
    <2>2. attached' \in [Ids -> SUBSET Handlers] /\ emptying' \subseteq Ids
      BY <1>2, Typed DEF EmptyInstance
    <2>3. CallersKept /\ HandlersKept /\ ListStep
      BY <2>1, KeptSame, ListSame
    <2> QED BY <2>1, <2>2, <2>3, Typed, TypeAssemble DEF CallersKept, HandlersKept
  <1> QED BY <1>1, <1>2

-----------------------------------------------------------------------------
(* Each handler is asked once. *)

\* What is removed leaves the others in order.
LEMMA LeavesList ==
  ASSUME TypeInv, Sorted, NEW di, NEW idx \in Nat \ {0}, Leaves(di, idx)
  PROVE  Listed' \subseteq Listed /\ Sorted'
  <1>0. nDir \in Nat /\ \A n \in 1..nDir : Arr[n] \in Nat
    <2>1. nDir \in Nat /\ dirID \in Nat /\ \A n \in 1..nDir : Arr[n] \in 1..dirID
      BY ArrType
    <2> QED BY <2>1
  <1>1. CASE nDir' = nDir - 1 /\ \A n \in 1..(nDir - 1) : Arr'[n] = IF n < idx THEN Arr[n] ELSE Arr[n + 1]
    <2>1. \A n \in 1..(nDir - 1) : n \in 1..nDir /\ n + 1 \in 1..nDir
      BY <1>0
    <2>2. Listed' \subseteq Listed
      BY <1>1, <2>1 DEF Listed
    <2>3. ASSUME NEW m \in 1..(nDir - 1), NEW n \in 1..(nDir - 1), m < n PROVE Arr'[m] < Arr'[n]
      <3> DEFINE i == IF m < idx THEN m ELSE m + 1
                 j == IF n < idx THEN n ELSE n + 1
      <3>1. i \in 1..nDir /\ j \in 1..nDir /\ i < j
        BY <1>0, <2>3
      <3>2. Arr'[m] = Arr[i] /\ Arr'[n] = Arr[j]
        BY <1>1
      <3> HIDE DEF i, j
      <3> QED BY <3>1, <3>2 DEF Sorted
    <2> QED BY <1>1, <2>2, <2>3 DEF Sorted
  <1>2. CASE UNCHANGED listVars
    BY <1>2 DEF listVars, Listed, Sorted, Arr
  <1> QED BY <1>1, <1>2 DEF Leaves

\* Only callers that have asked all handlers move, and instances may leave the list.
Quiet ==
  /\ UNCHANGED <<dirID, hnd, hndRel, handler, asked>>
  /\ Listed' \subseteq Listed
  /\ \A q \in Callers : \/ caller'[q] = caller[q]
                        \/ caller'[q].at # "calling" /\ (caller[q].at = "calling" => caller[q].todo = <<>>)

AskedParts == HandlersOK /\ CopiesOK /\ AskedOK

\* Nothing is in the empty list.
LEMMA InEmpty == \A x : ~In(x, <<>>)
  BY DEF In

LEMMA QuietKeeps ==
  ASSUME AskedParts, Quiet
  PROVE  AskedParts'
  <1>1. HandlersOK'
    BY DEF AskedParts, HandlersOK, Quiet
  <1>2. ASSUME NEW q \in Callers PROVE
          /\ caller'[q].at = "calling" => caller[q].at = "calling" /\ caller'[q] = caller[q]
          /\ \A h, di : CallerAsks(q, h, di) => caller'[q] = caller[q]
    <2>1. CASE caller'[q] = caller[q]
      BY <2>1
    <2>2. CASE caller'[q].at # "calling" /\ (caller[q].at = "calling" => caller[q].todo = <<>>)
      BY <2>2, InEmpty DEF CallerAsks
    <2> QED BY <2>1, <2>2 DEF Quiet
  <1>3. CopiesOK'
    <2>1. dirID' = dirID /\ handler' = handler
      BY DEF Quiet
    <2> QED BY <1>2, <2>1 DEF AskedParts, CopiesOK
  <1>4. AskedOK'
    <2> SUFFICES ASSUME NEW h \in Handlers, NEW di \in Ids PROVE (Once(h, di) /\ Seen(h, di))'
      BY DEF AskedOK
    <2>1. Once(h, di) /\ Seen(h, di) /\ dirID' = dirID /\ handler' = handler /\ asked' = asked
      BY DEF AskedParts, AskedOK, Quiet
    <2>2. HandlerAsks(h, di)' <=> HandlerAsks(h, di)
      BY <2>1 DEF HandlerAsks
    <2>3. \A q \in Callers : CallerAsks(q, h, di)' <=> CallerAsks(q, h, di)
      BY <1>2 DEF CallerAsks
    <2>4. Once(h, di)'
      BY <2>1, <2>2, <2>3 DEF Once
    <2>5. Seen(h, di)'
      BY <2>1, <2>2, <2>3 DEF Seen, Quiet
    <2> QED BY <2>4, <2>5
  <1> QED BY <1>1, <1>3, <1>4 DEF AskedParts

\* A handler that has been asked about all that was listed goes on.
HandlerGoesOn(h) ==
  /\ UNCHANGED <<dirID, caller, asked>>
  /\ Listed' = Listed
  /\ \A g \in Handlers : g # h => handler'[g] = handler[g]
  /\ handler[h].at # "new" /\ handler'[h].at \notin {"new", "calling"}
  /\ handler[h].at = "calling" => handler[h].todo = <<>>
  /\ handler'[h].at \in {"attaching", "on"} => handler[h].at \in {"calling", "attaching", "on"}

LEMMA GoesOnKeeps ==
  ASSUME CopiesOK, AskedOK, NEW h \in Handlers, HandlerGoesOn(h)
  PROVE  CopiesOK' /\ AskedOK'
  <1>1. CopiesOK'
    BY DEF CopiesOK, HandlerGoesOn
  <1>2. ASSUME NEW g \in Handlers, NEW di \in Ids PROVE (Once(g, di) /\ Seen(g, di))'
    <2>1. Once(g, di) /\ Seen(g, di) /\ dirID' = dirID /\ caller' = caller /\ asked' = asked /\ Listed' = Listed
      BY DEF AskedOK, HandlerGoesOn
    <2>2. \A q \in Callers : CallerAsks(q, g, di)' <=> CallerAsks(q, g, di)
      BY <2>1 DEF CallerAsks
    <2>3. HandlerAsks(g, di)' <=> HandlerAsks(g, di)
      <3>1. CASE g = h
        BY <3>1, InEmpty DEF HandlerAsks, HandlerGoesOn
      <3>2. CASE g # h
        BY <3>2 DEF HandlerAsks, HandlerGoesOn
      <3> QED BY <3>1, <3>2
    <2>4. /\ handler'[g].at = "new" => handler[g].at = "new"
          /\ handler'[g].at \in {"calling", "attaching", "on"} => handler[g].at \in {"calling", "attaching", "on"}
      BY DEF HandlerGoesOn
    <2>5. Once(g, di)'
      BY <2>1, <2>2, <2>3, <2>4 DEF Once
    <2>6. Seen(g, di)'
      BY <2>1, <2>2, <2>3, <2>4 DEF Seen
    <2> QED BY <2>5, <2>6
  <1> QED BY <1>1, <1>2 DEF AskedOK

\* A new instance is listed: its caller will ask every handler that is listed.
LEMMA JoinKeeps ==
  ASSUME TypeInv, AskedParts, NEW p \in Callers, NEW d, Joins(p, d), caller[p].at # "calling",
         UNCHANGED <<hnd, hndRel, handler, asked>>
  PROVE  AskedParts'
  <1>0. dirID \in Nat /\ caller \in [Callers -> CallerState] /\ hnd \in Seq(Handlers) /\ dirID + 1 \in Ids
    BY Typed, BoundAssumption DEF Joins, Ids
  <1>1. /\ caller'[p].at = "calling" /\ caller'[p].di = dirID + 1 /\ caller'[p].todo = hnd
        /\ \A q \in Callers : q # p => caller'[q] = caller[q]
    BY <1>0 DEF Joins
  <1>2. dirID' = dirID + 1 /\ handler' = handler /\ hnd' = hnd /\ asked' = asked /\ hndRel' = hndRel
    BY DEF Joins
  <1>3. HandlersOK'
    BY <1>2 DEF AskedParts, HandlersOK
  <1>4. \A q \in Callers : caller[q].at = "calling" => caller[q].di \in Nat /\ caller[q].di <= dirID /\ q # p
    <2> SUFFICES ASSUME NEW q \in Callers, caller[q].at = "calling" PROVE caller[q].di \in Nat /\ caller[q].di <= dirID /\ q # p
      OBVIOUS
    <2>1. caller[q].di \in Ids
      BY <1>0, StateFields
    <2>2. caller[q].di \in Nat
      BY <2>1, BoundAssumption DEF Ids
    <2> QED BY <2>2 DEF AskedParts, CopiesOK
  <1>5. CopiesOK'
    <2>1. ASSUME NEW q \in Callers, caller'[q].at = "calling" PROVE (Distinct(caller[q].todo))' /\ caller'[q].di <= dirID'
      <3>1. CASE q = p
        BY <1>0, <1>1, <1>2, <3>1 DEF AskedParts, HandlersOK
      <3>2. CASE q # p
        <4>1. caller'[q] = caller[q] /\ caller[q].at = "calling"
          BY <1>1, <2>1, <3>2
        <4>2. Distinct(caller[q].todo) /\ caller[q].di <= dirID /\ caller[q].di \in Nat
          BY <1>4, <4>1 DEF AskedParts, CopiesOK
        <4> QED BY <1>0, <1>2, <4>1, <4>2
      <3> QED BY <3>1, <3>2
    <2>2. ASSUME NEW q \in Callers, NEW r \in Callers, caller'[q].at = "calling", caller'[r].at = "calling",
                 caller'[q].di = caller'[r].di
          PROVE  q = r
      <3>1. \A s \in Callers : s # p /\ caller'[s].at = "calling" => caller'[s].di # dirID + 1
        BY <1>0, <1>1, <1>4
      <3>2. CASE q = p \/ r = p
        BY <1>1, <2>2, <3>1, <3>2
      <3>3. CASE q # p /\ r # p
        BY <1>1, <2>2, <3>3 DEF AskedParts, CopiesOK
      <3> QED BY <3>2, <3>3
    <2>3. ASSUME NEW h \in Handlers, handler[h].at = "calling" PROVE
            Distinct(handler[h].todo) /\ \A n \in 1..Len(handler[h].todo) : handler[h].todo[n] <= dirID + 1
      <3>1. handler[h].todo \in Seq(Ids)
        BY <2>3, Typed, StateFields
      <3>2. \A n \in 1..Len(handler[h].todo) : handler[h].todo[n] \in Nat
        <4>1. Ids \subseteq Nat
          BY BoundAssumption DEF Ids
        <4> QED BY <3>1, <4>1
      <3>3. Distinct(handler[h].todo) /\ \A n \in 1..Len(handler[h].todo) : handler[h].todo[n] <= dirID
        BY <2>3 DEF AskedParts, CopiesOK
      <3>4. \A n \in Nat : n <= dirID => n <= dirID + 1
        BY <1>0
      <3> QED BY <3>2, <3>3, <3>4
    <2>4. ASSUME NEW q \in Callers, NEW h \in Handlers, caller'[q].at = "calling", In(h, caller'[q].todo)
          PROVE  handler[h].at # "new"
      <3>1. CASE q = p
        BY <1>1, <2>4, <3>1 DEF AskedParts, HandlersOK
      <3>2. CASE q # p
        BY <1>1, <2>4, <3>2 DEF AskedParts, CopiesOK
      <3> QED BY <3>1, <3>2
    <2>5. \A q \in Callers, h \in Handlers : caller'[q].at = "calling" /\ In(h, caller[q].todo)' => handler'[h].at # "new"
      BY <1>2, <2>4 DEF In
    <2>6. \A h \in Handlers : handler'[h].at = "calling" =>
            Distinct(handler[h].todo)' /\ \A n \in 1..Len(handler'[h].todo) : handler'[h].todo[n] <= dirID'
      BY <1>2, <2>3 DEF Distinct
    <2> QED BY <2>1, <2>2, <2>5, <2>6 DEF CopiesOK
  <1>6. ASSUME NEW h \in Handlers, NEW di \in Ids PROVE (Once(h, di) /\ Seen(h, di))'
    <2>0. di \in Nat /\ asked[<<h, di>>] \in Nat
      BY Typed, BoundAssumption DEF Ids
    <2>1. Once(h, di) /\ Seen(h, di)
      BY DEF AskedParts, AskedOK
    <2>2. HandlerAsks(h, di)' <=> HandlerAsks(h, di)
      BY <1>2 DEF HandlerAsks
    <2>3. \A q \in Callers : q # p => (CallerAsks(q, h, di)' <=> CallerAsks(q, h, di))
      BY <1>1 DEF CallerAsks
    <2>4. CallerAsks(p, h, di)' <=> di = dirID + 1 /\ In(h, hnd)
      BY <1>1 DEF CallerAsks
    <2>5. ~CallerAsks(p, h, di)
      BY DEF CallerAsks
    <2>6. HandlerAsks(h, di) => di <= dirID
      BY DEF HandlerAsks, AskedParts, CopiesOK, In
    <2>7. di = dirID + 1 => asked[<<h, di>>] = 0 /\ ~HandlerAsks(h, di)
      BY <1>0, <2>0, <2>1, <2>6 DEF Once
    <2>8. Once(h, di)'
      <3>1. asked'[<<h, di>>] <= 1
        BY <1>2, <2>1 DEF Once
      <3>2. di > dirID + 1 => di > dirID
        BY <1>0, <2>0
      <3>3. handler'[h].at = "new" \/ di > dirID' => asked'[<<h, di>>] = 0
        BY <1>2, <2>1, <3>2 DEF Once
      <3>4. HandlerAsks(h, di)' => asked'[<<h, di>>] = 0
        BY <1>2, <2>1, <2>2 DEF Once
      <3>5. \A q \in Callers : CallerAsks(q, h, di)' => asked'[<<h, di>>] = 0 /\ ~HandlerAsks(h, di)'
        BY <1>2, <2>1, <2>2, <2>3, <2>4, <2>7 DEF Once
      <3> QED BY <3>1, <3>3, <3>4, <3>5 DEF Once
    <2>9. Seen(h, di)'
      <3> SUFFICES ASSUME handler[h].at \in {"calling", "attaching", "on"}, di \in Listed'
                   PROVE  asked[<<h, di>>] = 1 \/ HandlerAsks(h, di) \/ \E q \in Callers : CallerAsks(q, h, di)'
        BY <1>2, <2>2 DEF Seen
      <3>1. PICK n \in 1..(nDir + 1) : Arr'[n] = di
        BY DEF Joins, Listed
      <3>2. CASE n = nDir + 1
        <4>1. di = dirID + 1
          BY <3>1, <3>2 DEF Joins
        <4>2. In(h, hnd)
          BY DEF AskedParts, HandlersOK
        <4> QED BY <2>4, <4>1, <4>2
      <3>3. CASE n # nDir + 1
        <4>1. n \in 1..nDir
          BY <3>3, ArrType
        <4>2. di \in Listed
          BY <3>1, <4>1 DEF Joins, Listed
        <4> QED BY <2>1, <2>3, <2>5, <4>2 DEF Seen
      <3> QED BY <3>2, <3>3
    <2> QED BY <2>8, <2>9
  <1> QED BY <1>3, <1>5, <1>6 DEF AskedParts, AskedOK

\* The list that AddHandler copies.
LEMMA DirIs ==
  ASSUME TypeInv, Sorted
  PROVE  Len(Dir) = nDir /\ Distinct(Dir) /\ (\A x : In(x, Dir) <=> x \in Listed) /\ \A n \in 1..nDir : Dir[n] <= dirID
  <1>1. /\ Arr \in Seq(0..dirID) /\ nDir \in 0..Len(Arr) /\ Len(Arr) \in Nat /\ dirID \in Nat
        /\ \A n \in 1..nDir : Arr[n] \in 1..dirID
    BY ArrType
  <1>2. Len(Dir) = nDir /\ \A n \in 1..nDir : Dir[n] = Arr[n]
    BY <1>1 DEF Dir
  <1>3. \A m, n \in 1..nDir : Arr[m] = Arr[n] => m = n
    <2> SUFFICES ASSUME NEW m \in 1..nDir, NEW n \in 1..nDir, Arr[m] = Arr[n], m # n PROVE FALSE
      OBVIOUS
    <2>1. Arr[m] \in Nat /\ Arr[n] \in Nat
      BY <1>1
    <2>2. m < n \/ n < m
      BY <1>1
    <2>3. Arr[m] < Arr[n] \/ Arr[n] < Arr[m]
      BY <2>2 DEF Sorted
    <2> QED BY <2>1, <2>3
  <1>4. Distinct(Dir)
    BY <1>2, <1>3 DEF Distinct
  <1>5. \A x : In(x, Dir) <=> x \in Listed
    BY <1>2 DEF In, Listed
  <1>6. \A n \in 1..nDir : Dir[n] <= dirID
    BY <1>1, <1>2
  <1> QED BY <1>2, <1>4, <1>5, <1>6

\* A handler is listed: it will be asked about every instance that is listed.
LEMMA AddHandlerKeeps ==
  ASSUME TypeInv, Sorted, AskedParts, NEW h \in Handlers, AddHandler(h)
  PROVE  AskedParts'
  <1>0. handler \in [Handlers -> HandlerState] /\ hnd \in Seq(Handlers)
    BY Typed
  <1>1. /\ handler[h].at = "new" /\ hnd' = Append(hnd, h)
        /\ UNCHANGED <<dirID, arrs, nDir, hndRel, caller, asked>>
    BY DEF AddHandler, instVars, listVars
  <1>2. /\ handler'[h].at = "calling" /\ handler'[h].todo = Dir
        /\ \A g \in Handlers : g # h => handler'[g] = handler[g]
    BY <1>0 DEF AddHandler
  <1>3. Listed' = Listed
    BY <1>1 DEF Listed, Arr
  <1>4. HandlersOK'
    <2>1. ~In(h, hnd) /\ Distinct(hnd) /\ ~hndRel[h]
      BY <1>1 DEF AskedParts, HandlersOK
    <2>2. Distinct(hnd') /\ \A x : In(x, hnd') <=> x = h \/ In(x, hnd)
      BY <1>0, <1>1, <2>1, AppendDoes
    <2>3. ASSUME NEW g \in Handlers PROVE
            /\ In(g, hnd') <=> handler'[g].at \in {"calling", "attaching", "on", "released"}
            /\ hndRel'[g] => handler'[g].at \in {"released", "removing", "off"}
      <3>1. CASE g = h
        BY <1>1, <1>2, <2>1, <2>2, <3>1
      <3>2. CASE g # h
        BY <1>1, <1>2, <2>2, <3>2 DEF AskedParts, HandlersOK
      <3> QED BY <3>1, <3>2
    <2> QED BY <2>2, <2>3 DEF HandlersOK
  <1>5. CopiesOK'
    <2>1. ASSUME NEW g \in Handlers, handler'[g].at = "calling" PROVE
            Distinct(handler'[g].todo) /\ \A n \in 1..Len(handler'[g].todo) : handler'[g].todo[n] <= dirID
      <3>1. CASE g = h
        BY <1>2, <3>1, DirIs
      <3>2. CASE g # h
        BY <1>2, <2>1, <3>2 DEF AskedParts, CopiesOK
      <3> QED BY <3>1, <3>2
    <2>2. ASSUME NEW q \in Callers, NEW g \in Handlers, caller[q].at = "calling", In(g, caller[q].todo) PROVE handler'[g].at # "new"
      BY <1>2, <2>2 DEF AskedParts, CopiesOK
    <2> QED BY <1>1, <2>1, <2>2 DEF AskedParts, CopiesOK
  <1>6. ASSUME NEW g \in Handlers, NEW di \in Ids PROVE (Once(g, di) /\ Seen(g, di))'
    <2>1. Once(g, di) /\ Seen(g, di)
      BY DEF AskedParts, AskedOK
    <2>2. \A q \in Callers : CallerAsks(q, g, di)' <=> CallerAsks(q, g, di)
      BY <1>1 DEF CallerAsks
    <2>3. CASE g = h
      <3>1. HandlerAsks(h, di)' <=> di \in Listed
        BY <1>2, DirIs DEF HandlerAsks
      <3>2. \A q \in Callers : ~CallerAsks(q, h, di)
        BY <1>1 DEF CallerAsks, AskedParts, CopiesOK
      <3>3. asked[<<h, di>>] = 0
        BY <1>1, <2>1, <2>3 DEF Once
      <3>4. Once(h, di)'
        BY <1>1, <2>2, <2>3, <3>2, <3>3 DEF Once
      <3>5. Seen(h, di)'
        BY <1>3, <3>1 DEF Seen
      <3> QED BY <2>3, <3>4, <3>5
    <2>4. CASE g # h
      <3>1. HandlerAsks(g, di)' <=> HandlerAsks(g, di)
        BY <1>2, <2>4 DEF HandlerAsks
      <3>2. handler'[g] = handler[g] /\ asked' = asked /\ dirID' = dirID
        BY <1>1, <1>2, <2>4
      <3>3. Once(g, di)'
        BY <2>1, <2>2, <3>1, <3>2 DEF Once
      <3>4. Seen(g, di)'
        BY <1>3, <2>1, <2>2, <3>1, <3>2 DEF Seen
      <3> QED BY <3>3, <3>4
    <2> QED BY <2>3, <2>4
  <1> QED BY <1>4, <1>5, <1>6 DEF AskedParts, AskedOK

\* The caller that asks a handler is the only one that will.
LEMMA CallHandlerKeeps ==
  ASSUME TypeInv, AskedParts, NEW p \in Callers, CallHandler(p)
  PROVE  AskedParts'
  <1>0. PICK h, e, todo : h = Head(caller[p].todo) /\ e = caller[p].di /\ todo = Tail(caller[p].todo)
    OBVIOUS
  <1>1. /\ caller[p].at = "calling" /\ e \in Ids /\ caller[p].todo \in Seq(Handlers) /\ caller[p].todo # <<>>
        /\ h \in Handlers /\ todo \in Seq(Handlers) /\ CallsOn(p, e, todo)
        /\ (hndRel[h] /\ UNCHANGED asked) \/ (~hndRel[h] /\ Asked(h, e))
    BY <1>0, CallHandlerDoes DEF NextAsked
  <1>2. UNCHANGED <<dirID, hnd, hndRel, handler>> /\ Listed' = Listed
    BY DEF CallHandler, instVars, listVars, Listed, Arr
  <1>3. /\ caller'[p].at = "calling" /\ caller'[p].di = e /\ caller'[p].todo = todo
        /\ \A q \in Callers : q # p => caller'[q] = caller[q]
    BY <1>1, Typed DEF CallsOn
  <1>4. /\ Distinct(caller[p].todo) /\ Distinct(todo) /\ ~In(h, todo)
        /\ \A x : In(x, caller[p].todo) <=> x = h \/ In(x, todo)
    <2>1. Distinct(caller[p].todo)
      BY <1>1 DEF AskedParts, CopiesOK
    <2> QED BY <1>0, <1>1, <2>1, TailDoes
  <1>5. e <= dirID /\ handler[h].at # "new" /\ CallerAsks(p, h, e)
    BY <1>0, <1>1, <1>4 DEF AskedParts, CopiesOK, CallerAsks
  <1>6. HandlersOK'
    BY <1>2 DEF AskedParts, HandlersOK
  <1>7. CopiesOK'
    <2>1. ASSUME NEW q \in Callers, caller'[q].at = "calling" PROVE
            caller[q].at = "calling" /\ caller'[q].di = caller[q].di /\ Distinct(caller'[q].todo)
            /\ \A x : In(x, caller'[q].todo) => In(x, caller[q].todo)
      <3>1. CASE q = p
        BY <1>0, <1>1, <1>3, <1>4, <3>1
      <3>2. CASE q # p
        BY <1>3, <2>1, <3>2 DEF AskedParts, CopiesOK
      <3> QED BY <3>1, <3>2
    <2>2. \A q \in Callers : caller'[q].at = "calling" => Distinct(caller'[q].todo) /\ caller'[q].di <= dirID
      BY <2>1 DEF AskedParts, CopiesOK
    <2>3. \A q, r \in Callers :
            caller'[q].at = "calling" /\ caller'[r].at = "calling" /\ caller'[q].di = caller'[r].di => q = r
      BY <2>1 DEF AskedParts, CopiesOK
    <2>4. \A q \in Callers, g \in Handlers :
            caller'[q].at = "calling" /\ In(g, caller'[q].todo) => handler[g].at # "new"
      BY <2>1 DEF AskedParts, CopiesOK
    <2> QED BY <1>2, <2>2, <2>3, <2>4 DEF AskedParts, CopiesOK
  <1>8. ASSUME NEW g \in Handlers, NEW di \in Ids PROVE (Once(g, di) /\ Seen(g, di))'
    <2>1. Once(g, di) /\ Seen(g, di) /\ dirID' = dirID /\ handler' = handler
      BY <1>2 DEF AskedParts, AskedOK
    <2>2. HandlerAsks(g, di)' <=> HandlerAsks(g, di)
      BY <1>2 DEF HandlerAsks
    <2>3. \A q \in Callers : q # p => (CallerAsks(q, g, di)' <=> CallerAsks(q, g, di))
      BY <1>3 DEF CallerAsks
    <2>4. CallerAsks(p, g, di)' <=> CallerAsks(p, g, di) /\ g # h
      BY <1>0, <1>1, <1>3, <1>4 DEF CallerAsks
    <2>5. CASE g = h /\ di = e
      <3>1. \A q \in Callers : ~CallerAsks(q, h, e)'
        <4> SUFFICES ASSUME NEW q \in Callers, CallerAsks(q, h, e)' PROVE FALSE
          OBVIOUS
        <4>1. q # p
          BY <2>4, <2>5
        <4>2. caller[q].at = "calling" /\ caller[q].di = e
          BY <2>3, <2>5, <4>1 DEF CallerAsks
        <4> QED BY <1>0, <1>1, <4>1, <4>2 DEF AskedParts, CopiesOK
      <3>2. asked[<<h, e>>] = 0 /\ ~HandlerAsks(h, e)
        BY <1>5, <2>1, <2>5 DEF Once
      <3>3. CASE hndRel[h] /\ UNCHANGED asked
        <4>1. handler[h].at \in {"released", "removing", "off"}
          BY <1>1, <3>3 DEF AskedParts, HandlersOK
        <4>2. Seen(h, e)'
          BY <2>1, <4>1 DEF Seen
        <4>3. Once(h, e)'
          BY <2>1, <2>2, <2>5, <3>1, <3>2, <3>3 DEF Once
        <4> QED BY <2>5, <4>2, <4>3
      <3>4. CASE Asked(h, e)
        <4>1. asked'[<<h, e>>] = 1
          <5>1. asked'[<<h, e>>] = asked[<<h, e>>] + 1
            BY <1>1, <3>4, AskedDoes
          <5> QED BY <3>2, <5>1
        <4>2. ~(e > dirID)
          BY <1>1, <1>5, Typed, BoundAssumption DEF Ids
        <4>3. Once(h, e)'
          <5>1. asked'[<<h, e>>] <= 1
            BY <4>1
          <5>2. ~(handler'[h].at = "new" \/ e > dirID')
            BY <1>5, <2>1, <4>2
          <5> QED BY <2>2, <2>5, <3>1, <3>2, <5>1, <5>2 DEF Once
        <4>4. Seen(h, e)'
          BY <4>1 DEF Seen
        <4> QED BY <2>5, <4>3, <4>4
      <3> QED BY <1>1, <3>3, <3>4
    <2>6. CASE ~(g = h /\ di = e)
      <3>1. asked'[<<g, di>>] = asked[<<g, di>>]
        <4>1. Asked(h, e) => \A x \in Handlers, y \in Ids : x # h \/ y # e => asked'[<<x, y>>] = asked[<<x, y>>]
          BY <1>1, AskedDoes
        <4> QED BY <1>1, <2>6, <4>1
      <3>2. CallerAsks(p, g, di)' <=> CallerAsks(p, g, di)
        BY <1>0, <2>4, <2>6 DEF CallerAsks
      <3>3. Once(g, di)'
        BY <2>1, <2>2, <2>3, <3>1, <3>2 DEF Once
      <3>4. Seen(g, di)'
        BY <1>2, <2>1, <2>2, <2>3, <3>1, <3>2 DEF Seen
      <3> QED BY <3>3, <3>4
    <2> QED BY <2>5, <2>6
  <1> QED BY <1>6, <1>7, <1>8 DEF AskedParts, AskedOK

\* AddHandler asks about an instance that no caller will ask this handler about.
LEMMA CallDirectiveKeeps ==
  ASSUME TypeInv, AskedParts, NEW h \in Handlers, CallDirective(h)
  PROVE  AskedParts'
  <1>0. PICK e, todo : e = Head(handler[h].todo) /\ todo = Tail(handler[h].todo)
    OBVIOUS
  <1>1. /\ handler[h].at = "calling" /\ handler[h].todo # <<>> /\ handler[h].todo \in Seq(Ids)
        /\ e \in Ids /\ todo \in Seq(Ids) /\ Asked(h, e) /\ AsksOn(h, todo)
    BY <1>0, CallDirectiveDoes
  <1>2. UNCHANGED <<dirID, hnd, hndRel, caller>> /\ Listed' = Listed
    BY DEF CallDirective, instVars, listVars, Listed, Arr
  <1>3. /\ handler'[h].at = "calling" /\ handler'[h].todo = todo
        /\ \A g \in Handlers : g # h => handler'[g] = handler[g]
    BY <1>1, Typed DEF AsksOn
  <1>4. /\ Distinct(todo) /\ ~In(e, todo)
        /\ \A x : In(x, handler[h].todo) <=> x = e \/ In(x, todo)
    <2>1. Distinct(handler[h].todo)
      BY <1>1 DEF AskedParts, CopiesOK
    <2> QED BY <1>0, <1>1, <2>1, TailDoes
  <1>5. \A n \in 1..Len(handler[h].todo) : handler[h].todo[n] <= dirID
    BY <1>1 DEF AskedParts, CopiesOK
  <1>6. HandlerAsks(h, e) /\ e <= dirID
    BY <1>1, <1>4, <1>5 DEF HandlerAsks, In
  <1>7. HandlersOK'
    <2>1. \A g \in Handlers : handler'[g].at = handler[g].at
      BY <1>1, <1>3
    <2> QED BY <1>2, <2>1 DEF AskedParts, HandlersOK
  <1>8. CopiesOK'
    <2>1. \A n \in 1..Len(todo) : todo[n] <= dirID
      <3> SUFFICES ASSUME NEW n \in 1..Len(todo) PROVE todo[n] <= dirID
        OBVIOUS
      <3>1. In(todo[n], handler[h].todo)
        BY <1>4 DEF In
      <3> QED BY <1>5, <3>1 DEF In
    <2>2. ASSUME NEW g \in Handlers, handler'[g].at = "calling" PROVE
            Distinct(handler'[g].todo) /\ \A n \in 1..Len(handler'[g].todo) : handler'[g].todo[n] <= dirID
      <3>1. CASE g = h
        BY <1>3, <1>4, <2>1, <3>1
      <3>2. CASE g # h
        BY <1>3, <2>2, <3>2 DEF AskedParts, CopiesOK
      <3> QED BY <3>1, <3>2
    <2>3. \A g \in Handlers : handler'[g].at = handler[g].at
      BY <1>1, <1>3
    <2> QED BY <1>2, <2>2, <2>3 DEF AskedParts, CopiesOK
  <1>9. ASSUME NEW g \in Handlers, NEW di \in Ids PROVE (Once(g, di) /\ Seen(g, di))'
    <2>1. Once(g, di) /\ Seen(g, di) /\ dirID' = dirID
      BY <1>2 DEF AskedParts, AskedOK
    <2>2. \A q \in Callers : CallerAsks(q, g, di)' <=> CallerAsks(q, g, di)
      BY <1>2 DEF CallerAsks
    <2>3. HandlerAsks(g, di)' <=> HandlerAsks(g, di) /\ ~(g = h /\ di = e)
      <3>1. CASE g = h
        BY <1>1, <1>3, <1>4, <3>1 DEF HandlerAsks
      <3>2. CASE g # h
        BY <1>3, <3>2 DEF HandlerAsks
      <3> QED BY <3>1, <3>2
    <2>4. handler'[g].at = handler[g].at
      BY <1>1, <1>3
    <2>5. CASE g = h /\ di = e
      <3>1. asked[<<h, e>>] = 0 /\ \A q \in Callers : ~CallerAsks(q, h, e)
        BY <1>6, <2>1, <2>5 DEF Once
      <3>2. asked'[<<h, e>>] = 1
        <4>1. asked'[<<h, e>>] = asked[<<h, e>>] + 1
          BY <1>1, AskedDoes
        <4> QED BY <3>1, <4>1
      <3>3. ~(e > dirID)
        BY <1>1, <1>6, Typed, BoundAssumption DEF Ids
      <3>4. asked'[<<h, e>>] <= 1
        BY <3>2
      <3>5. ~(handler'[h].at = "new" \/ e > dirID')
        BY <1>3, <2>1, <3>3
      <3>6. Once(h, e)'
        BY <2>2, <2>3, <2>5, <3>1, <3>4, <3>5 DEF Once
      <3>7. Seen(h, e)'
        BY <3>2 DEF Seen
      <3> QED BY <2>5, <3>6, <3>7
    <2>6. CASE ~(g = h /\ di = e)
      <3>1. asked'[<<g, di>>] = asked[<<g, di>>]
        BY <1>1, <2>6, AskedDoes
      <3>2. Once(g, di)'
        BY <2>1, <2>2, <2>3, <2>4, <2>6, <3>1 DEF Once
      <3>3. Seen(g, di)'
        BY <1>2, <2>1, <2>2, <2>3, <2>4, <2>6, <3>1 DEF Seen
      <3> QED BY <3>2, <3>3
    <2> QED BY <2>5, <2>6
  <1> QED BY <1>7, <1>8, <1>9 DEF AskedParts, AskedOK

\* A new instance has the highest number.
LEMMA JoinsSorted ==
  ASSUME TypeInv, Sorted, NEW p, NEW d, Joins(p, d)
  PROVE  Sorted'
  <1>1. nDir \in Nat /\ dirID \in Nat /\ \A n \in 1..nDir : Arr[n] \in 1..dirID
    BY ArrType
  <1>2. nDir' = nDir + 1 /\ (\A n \in 1..nDir : Arr'[n] = Arr[n]) /\ Arr'[nDir + 1] = dirID + 1
    BY DEF Joins
  <1> SUFFICES ASSUME NEW m \in 1..(nDir + 1), NEW n \in 1..(nDir + 1), m < n PROVE Arr'[m] < Arr'[n]
    BY <1>2 DEF Sorted
  <1>3. m \in 1..nDir /\ Arr[m] \in 1..dirID
    BY <1>1
  <1>4. CASE n = nDir + 1
    BY <1>1, <1>2, <1>3, <1>4
  <1>5. CASE n # nDir + 1
    <2>1. n \in 1..nDir
      BY <1>1, <1>5
    <2> QED BY <1>2, <1>3, <2>1 DEF Sorted
  <1> QED BY <1>4, <1>5

\* The loop of AddDirective keeps what was asked.
LEMMA LoopKeeps ==
  ASSUME TypeInv, Sorted, AskedParts, NEW p \in Callers, NEW d \in Directives, NEW a, NEW len, Filled(a, len),
         NEW i \in Nat \ {0}, AddLoop(p, d, a, len, i), caller[p].at # "calling", UNCHANGED <<hnd, hndRel, handler, asked>>
  PROVE  Sorted' /\ AskedParts'
  <1>0. caller \in [Callers -> CallerState]
    BY Typed
  <1>1. ASSUME Joins(p, d) PROVE Sorted' /\ AskedParts'
    BY <1>1, JoinsSorted, JoinKeeps
  <1>2. ASSUME NEW k \in i..len, NEW di, Superceeded(p, d, a, len, k, di) PROVE Sorted' /\ AskedParts'
    <2>1. Leaves(di, k) /\ UNCHANGED <<dirID, dirOf, attached>>
      BY <1>2 DEF Superceeded
    <2>2. k \in Nat \ {0}
      <3>1. len \in Nat
        BY DEF Filled, TypeInv, TypeOK
      <3> QED BY <3>1
    <2>3. Listed' \subseteq Listed /\ Sorted'
      BY <2>1, <2>2, LeavesList
    <2>4. caller'[p].at = "superceeding" /\ \A q \in Callers : q # p => caller'[q] = caller[q]
      BY <1>0, <1>2 DEF Superceeded
    <2>5. Quiet
      BY <2>1, <2>3, <2>4 DEF Quiet
    <2> QED BY <2>3, <2>5, QuietKeeps
  <1>3. ASSUME NEW di \in 1..dirID, Found(p, di) PROVE Sorted' /\ AskedParts'
    <2>1. UNCHANGED <<dirID, arrs, nDir>>
      BY <1>3 DEF Found, instVars, listVars
    <2>2. Listed' = Listed /\ (Sorted' <=> Sorted)
      BY <2>1 DEF Listed, Sorted, Arr
    <2>3. caller'[p].at = "holding" /\ \A q \in Callers : q # p => caller'[q] = caller[q]
      BY <1>0, <1>3 DEF Found
    <2>4. Quiet
      BY <2>1, <2>2, <2>3 DEF Quiet
    <2> QED BY <2>2, <2>4, QuietKeeps
  <1> QED BY <1>1, <1>2, <1>3, AddLoopDoes

\* A step that leaves the list alone keeps it sorted.
LEMMA ListSorted ==
  ASSUME Sorted, UNCHANGED listVars
  PROVE  Sorted' /\ Listed' = Listed
  BY DEF listVars, Listed, Sorted, Arr

\* The steps of a caller keep what was asked.
LEMMA CallerKeeps ==
  ASSUME TypeInv, Sorted, AskedParts, NEW p \in Callers, CallerStep(p)
  PROVE  Sorted' /\ AskedParts'
  <1>0. caller \in [Callers -> CallerState]
    BY Typed
  <1>1. ASSUME NEW d \in Directives, AddDirective(p, d) PROVE Sorted' /\ AskedParts'
    <2>1. /\ nDir \in Nat /\ Filled(Len(arrs), nDir) /\ AddLoop(p, d, Len(arrs), nDir, 1)
          /\ UNCHANGED <<hnd, hndRel, handler, asked>> /\ caller[p].at # "calling"
      BY <1>1, Typed, ArrType DEF AddDirective
    <2> QED BY <2>1, LoopKeeps
  <1>2. ASSUME ContinueLoop(p) PROVE Sorted' /\ AskedParts'
    <2>1. caller[p] \in CallerState /\ caller[p].at = "superceeding"
      BY <1>0, <1>2 DEF ContinueLoop
    <2>2. Filled(caller[p].a, caller[p].len) /\ caller[p].i >= 1
      BY <2>1 DEF TypeInv, LoopsOK
    <2>3. caller[p].d \in Directives /\ caller[p].i \in Nat \ {0}
      BY <2>1, <2>2, StateFields
    <2>4. AddLoop(p, caller[p].d, caller[p].a, caller[p].len, caller[p].i) /\ UNCHANGED <<hnd, hndRel, handler, asked>>
      BY <1>2 DEF ContinueLoop
    <2> QED BY <2>1, <2>2, <2>3, <2>4, LoopKeeps
  <1>3. ASSUME CallHandler(p) PROVE Sorted' /\ AskedParts'
    <2>1. UNCHANGED listVars
      BY <1>3 DEF CallHandler
    <2> QED BY <1>3, <2>1, CallHandlerKeeps, ListSorted
  <1>4. ASSUME AttachReturned(p) \/ AttachNext(p) PROVE Sorted' /\ AskedParts'
    <2>1. UNCHANGED <<dirID, listVars, hnd, hndRel, handler, asked>>
      BY <1>4 DEF AttachReturned, AttachNext
    <2>2. PICK x \in CallerState : x.at \in {"holding", "attaching"} /\ caller' = [caller EXCEPT ![p] = x]
      BY <1>4, AttachDoes
    <2>3. caller'[p].at # "calling" /\ \A q \in Callers : q # p => caller'[q] = caller[q]
      BY <1>0, <2>2
    <2>4. caller[p].at = "calling" => caller[p].todo = <<>>
      BY <1>4, AttachDoes
    <2>5. Quiet /\ Sorted'
      BY <2>1, <2>3, <2>4, ListSorted DEF Quiet
    <2> QED BY <2>5, QuietKeeps
  <1>5. ASSUME ReleaseRef(p) PROVE Sorted' /\ AskedParts'
    <2>1. UNCHANGED <<dirID, listVars, hnd, hndRel, handler, asked>> /\ caller[p].at = "holding"
      BY <1>5 DEF ReleaseRef, instVars
    <2>2. caller'[p].at = "idle" /\ \A q \in Callers : q # p => caller'[q] = caller[q]
      BY <1>0, <1>5 DEF ReleaseRef
    <2>3. Quiet /\ Sorted'
      BY <2>1, <2>2, ListSorted DEF Quiet
    <2> QED BY <2>3, QuietKeeps
  <1> QED BY <1>1, <1>2, <1>3, <1>4, <1>5 DEF CallerStep

\* The steps of a handler keep what was asked.
LEMMA HandlerKeeps ==
  ASSUME TypeInv, Sorted, AskedParts, NEW h \in Handlers, HandlerStep(h)
  PROVE  Sorted' /\ AskedParts'
  <1>0. handler \in [Handlers -> HandlerState] /\ hndRel \in [Handlers -> BOOLEAN] /\ hnd \in Seq(Handlers)
    BY Typed
  <1>p. HandlersOK /\ CopiesOK /\ AskedOK
    BY DEF AskedParts
  <1>1. ASSUME AddHandler(h) PROVE Sorted' /\ AskedParts'
    <2>1. UNCHANGED listVars
      BY <1>1 DEF AddHandler
    <2> QED BY <1>1, <2>1, AddHandlerKeeps, ListSorted
  <1>2. ASSUME CallDirective(h) PROVE Sorted' /\ AskedParts'
    <2>1. UNCHANGED listVars
      BY <1>2 DEF CallDirective
    <2> QED BY <1>2, <2>1, CallDirectiveKeeps, ListSorted
  <1>3. ASSUME AttachToInstances(h) PROVE Sorted' /\ AskedParts'
    <2>1. UNCHANGED <<dirID, listVars, hnd, hndRel, caller, asked>>
      BY <1>3 DEF AttachToInstances
    <2>2. PICK x \in HandlerState : x.at \in {"on", "attaching"} /\ handler' = [handler EXCEPT ![h] = x]
      BY <1>3, AttachToInstancesDoes
    <2>3. handler'[h].at \in {"on", "attaching"} /\ \A g \in Handlers : g # h => handler'[g] = handler[g]
      BY <1>0, <2>2
    <2>4. handler[h].at \in {"calling", "attaching"} /\ (handler[h].at = "calling" => handler[h].todo = <<>>)
      BY <1>3, AttachToInstancesDoes
    <2>5. HandlerGoesOn(h) /\ Sorted'
      BY <2>1, <2>3, <2>4, ListSorted DEF HandlerGoesOn
    <2>6. \A g \in Handlers : /\ handler'[g].at \in {"calling", "attaching", "on", "released"} <=>
                                   handler[g].at \in {"calling", "attaching", "on", "released"}
                              /\ handler[g].at \in {"released", "removing", "off"} => handler'[g] = handler[g]
      BY <2>3, <2>4
    <2>7. HandlersOK'
      BY <1>p, <2>1, <2>6 DEF HandlersOK
    <2> QED BY <1>p, <2>5, <2>7, GoesOnKeeps DEF AskedParts
  <1>4. ASSUME RelHandler(h) PROVE Sorted' /\ AskedParts'
    <2>1. UNCHANGED <<dirID, listVars, hnd, caller, asked>> /\ handler[h].at = "on"
      BY <1>4 DEF RelHandler, instVars
    <2>2. /\ handler'[h].at = "released" /\ \A g \in Handlers : g # h => handler'[g] = handler[g]
          /\ \A g \in Handlers : g # h => hndRel'[g] = hndRel[g]
      BY <1>0, <1>4 DEF RelHandler
    <2>3. HandlerGoesOn(h) /\ Sorted'
      BY <2>1, <2>2, ListSorted DEF HandlerGoesOn
    <2>4. HandlersOK'
      <3>1. ASSUME NEW g \in Handlers PROVE
              /\ In(g, hnd) <=> handler'[g].at \in {"calling", "attaching", "on", "released"}
              /\ hndRel'[g] => handler'[g].at \in {"released", "removing", "off"}
        BY <1>p, <2>1, <2>2 DEF HandlersOK
      <3> QED BY <1>p, <2>1, <3>1 DEF HandlersOK
    <2> QED BY <1>p, <2>3, <2>4, GoesOnKeeps DEF AskedParts
  <1>5. ASSUME RemoveHandler(h) PROVE Sorted' /\ AskedParts'
    <2>1. UNCHANGED <<dirID, listVars, hndRel, caller, asked>> /\ handler[h].at = "released" /\ hnd' = Unlisted(h)
      BY <1>5 DEF RemoveHandler
    <2>2. RemoveFrom(h, Len(arrs), nDir, 1) /\ Filled(Len(arrs), nDir)
      BY <1>5, Typed DEF RemoveHandler
    <2>3. PICK x \in HandlerState : x.at \in {"off", "removing"} /\ handler' = [handler EXCEPT ![h] = x]
      BY <2>2, RemoveFromDoes
    <2>4. handler'[h].at \in {"off", "removing"} /\ \A g \in Handlers : g # h => handler'[g] = handler[g]
      BY <1>0, <2>3
    <2>5. Distinct(hnd') /\ \A g : In(g, hnd') <=> g # h /\ In(g, hnd)
      BY <1>0, <1>p, <2>1, ReleasedListed, UnlistedDoes
    <2>6. HandlersOK'
      <3>1. ASSUME NEW g \in Handlers PROVE
              /\ In(g, hnd') <=> handler'[g].at \in {"calling", "attaching", "on", "released"}
              /\ hndRel[g] => handler'[g].at \in {"released", "removing", "off"}
        <4>1. CASE g = h
          BY <2>4, <2>5, <4>1
        <4>2. CASE g # h
          BY <1>p, <2>4, <2>5, <4>2 DEF HandlersOK
        <4> QED BY <4>1, <4>2
      <3> QED BY <2>1, <2>5, <3>1 DEF HandlersOK
    <2>7. HandlerGoesOn(h) /\ Sorted'
      BY <2>1, <2>4, ListSorted DEF HandlerGoesOn
    <2> QED BY <1>p, <2>6, <2>7, GoesOnKeeps DEF AskedParts
  <1>6. ASSUME RemoveHandlerNext(h) PROVE Sorted' /\ AskedParts'
    <2>1. UNCHANGED <<dirID, listVars, hnd, hndRel, caller, asked>> /\ handler[h].at = "removing" /\ handler[h] \in HandlerState
      BY <1>0, <1>6 DEF RemoveHandlerNext
    <2>2. Filled(handler[h].a, handler[h].len) /\ handler[h].i >= 1
      BY <2>1 DEF TypeInv, LoopsOK
    <2>3. handler[h].i \in Nat \ {0}
      BY <2>1, <2>2, StateFields
    <2>4. RemoveFrom(h, handler[h].a, handler[h].len, handler[h].i)
      BY <1>6 DEF RemoveHandlerNext
    <2>5. PICK x \in HandlerState : x.at \in {"off", "removing"} /\ handler' = [handler EXCEPT ![h] = x]
      BY <2>2, <2>3, <2>4, RemoveFromDoes
    <2>6. handler'[h].at \in {"off", "removing"} /\ \A g \in Handlers : g # h => handler'[g] = handler[g]
      BY <1>0, <2>5
    <2>7. HandlersOK'
      <3>1. ASSUME NEW g \in Handlers PROVE
              /\ In(g, hnd) <=> handler'[g].at \in {"calling", "attaching", "on", "released"}
              /\ hndRel[g] => handler'[g].at \in {"released", "removing", "off"}
        BY <1>p, <2>1, <2>6 DEF HandlersOK
      <3> QED BY <1>p, <2>1, <3>1 DEF HandlersOK
    <2>8. HandlerGoesOn(h) /\ Sorted'
      BY <2>1, <2>6, ListSorted DEF HandlerGoesOn
    <2> QED BY <1>p, <2>7, <2>8, GoesOnKeeps DEF AskedParts
  <1> QED BY <1>1, <1>2, <1>3, <1>4, <1>5, <1>6 DEF HandlerStep

\* Closing and emptying an instance keep what was asked.
LEMMA InstanceKeeps ==
  ASSUME TypeInv, Sorted, AskedParts, NEW di \in Ids, CloseInstance(di) \/ EmptyInstance(di)
  PROVE  Sorted' /\ AskedParts'
  <1>1. ASSUME CloseInstance(di) PROVE Sorted' /\ AskedParts'
    <2>1. UNCHANGED <<dirID, hnd, hndRel, caller, handler, asked>>
      BY <1>1, CloseDoes
    <2>2. ASSUME NEW n \in 1..nDir, Leaves(di, n) PROVE Listed' \subseteq Listed /\ Sorted'
      <3>1. n \in Nat \ {0}
        BY ArrType
      <3> QED BY <2>2, <3>1, LeavesList
    <2>3. Listed' \subseteq Listed /\ Sorted'
      BY <1>1, <2>2, CloseDoes, ListSorted
    <2>4. Quiet
      BY <2>1, <2>3 DEF Quiet
    <2> QED BY <2>3, <2>4, QuietKeeps
  <1>2. ASSUME EmptyInstance(di) PROVE Sorted' /\ AskedParts'
    <2>1. UNCHANGED <<dirID, listVars, hnd, hndRel, caller, handler, asked>>
      BY <1>2 DEF EmptyInstance
    <2>2. Quiet /\ Sorted'
      BY <2>1, ListSorted DEF Quiet
    <2> QED BY <2>2, QuietKeeps
  <1> QED BY <1>1, <1>2

LEMMA AskedInit == Init => AskedInv
  <1> SUFFICES ASSUME Init PROVE AskedInv
    OBVIOUS
  <1>1. TypeOK
    <2>1. \A p \in Callers : caller[p] \in CallerState
      BY StatePlaces DEF Init
    <2>2. \A h \in Handlers : handler[h] \in HandlerState
      BY StatePlaces DEF Init
    <2>3. caller \in [Callers -> CallerState] /\ handler \in [Handlers -> HandlerState]
      BY <2>1, <2>2 DEF Init
    <2>4. dirID \in 0..MaxInstances /\ dirOf \in Seq(Directives) /\ Len(dirOf) = dirID
      BY BoundAssumption DEF Init
    <2>5. arrs \in Seq(Seq(0..dirID)) /\ arrs # <<>> /\ nDir \in 0..Len(arrs[Len(arrs)])
      <3>1. <<>> \in Seq(0..dirID)
        OBVIOUS
      <3>2. arrs = << <<>> >> /\ nDir = 0
        BY DEF Init
      <3> QED BY <3>1, <3>2
    <2>6. /\ released \in [Ids -> BOOLEAN] /\ attached \in [Ids -> SUBSET Handlers] /\ emptying \subseteq Ids
          /\ hndRel \in [Handlers -> BOOLEAN] /\ panicked \in BOOLEAN
      BY DEF Init
    <2>7. hnd \in Seq(Handlers) /\ asked \in [Handlers \X Ids -> Nat]
      BY DEF Init
    <2> QED BY <2>3, <2>4, <2>5, <2>6, <2>7 DEF TypeOK
  <1>2. LoopsOK
    <2>1. Filled(Len(arrs), nDir)
      BY DEF Init, Filled
    <2> QED BY <2>1 DEF Init, LoopsOK
  <1>3. Sorted
    BY DEF Init, Sorted
  <1>4. HandlersOK
    BY DEF Init, HandlersOK, Distinct, In
  <1>5. CopiesOK
    BY DEF Init, CopiesOK
  <1>6. AskedOK
    <2> SUFFICES ASSUME NEW h \in Handlers, NEW di \in Ids PROVE Once(h, di) /\ Seen(h, di)
      BY DEF AskedOK
    <2>1. asked[<<h, di>>] = 0 /\ handler[h].at = "new" /\ \A p \in Callers : caller[p].at = "idle"
      BY DEF Init
    <2> QED BY <2>1 DEF Once, Seen, HandlerAsks, CallerAsks
  <1> QED BY <1>1, <1>2, <1>3, <1>4, <1>5, <1>6 DEF AskedInv, TypeInv

LEMMA AskedStep ==
  ASSUME AskedInv, [Next]_vars
  PROVE  AskedInv'
  <1>0. TypeInv /\ Sorted /\ AskedParts /\ HandlersOK
    BY DEF AskedInv, AskedParts
  <1>1. ASSUME NEW p \in Callers, CallerStep(p) PROVE AskedInv'
    BY <1>0, <1>1, CallerTypes, CallerKeeps DEF AskedInv, AskedParts
  <1>2. ASSUME NEW h \in Handlers, HandlerStep(h) PROVE AskedInv'
    BY <1>0, <1>2, HandlerTypes, HandlerKeeps DEF AskedInv, AskedParts
  <1>3. ASSUME NEW di \in Ids, CloseInstance(di) \/ EmptyInstance(di) PROVE AskedInv'
    BY <1>0, <1>3, InstanceTypes, InstanceKeeps DEF AskedInv, AskedParts
  <1>4. CASE UNCHANGED vars
    <2>1. UNCHANGED <<dirID, dirOf, released, attached, emptying, arrs, nDir, hnd, hndRel, caller, handler, asked, panicked>>
      BY <1>4 DEF vars, instVars, listVars
    <2>2. Arr' = Arr /\ Listed' = Listed
      BY <2>1 DEF Listed, Arr
    <2>3. TypeOK' /\ LoopsOK'
      BY <1>0, <2>1 DEF TypeInv, TypeOK, LoopsOK, Filled
    <2>4. Sorted'
      BY <1>0, <2>1, <2>2 DEF Sorted
    <2>5. Quiet
      BY <2>1, <2>2 DEF Quiet
    <2> QED BY <1>0, <2>3, <2>4, <2>5, QuietKeeps DEF AskedInv, AskedParts, TypeInv
  <1> QED BY <1>1, <1>2, <1>3, <1>4 DEF Next

\* The inductive invariant holds throughout.
LEMMA AskedInvAlways == Spec => []AskedInv
  <1>1. AskedInv /\ [Next]_vars => AskedInv'
    BY AskedStep
  <1> QED BY <1>1, AskedInit, PTL DEF Spec

\* Every field keeps the type of its Go declaration and c.dir stays inside its backing
\* array, whatever is shifted in it while range loops hold older lengths.
THEOREM TypeCorrect == Spec => []TypeOK
  <1>1. AskedInv => TypeOK
    BY DEF AskedInv, TypeInv
  <1> QED BY <1>1, AskedInvAlways, PTL

\* AddDirective and AddHandler each list what they add before they copy the other list,
\* so no handler is asked twice about an instance, and none is forgotten.
THEOREM AskedOnceAlways == Spec => []AskedOnce
  <1>1. AskedInv => AskedOnce
    <2> SUFFICES ASSUME AskedInv, NEW h \in Handlers, NEW di \in 1..dirID
                 PROVE  asked[<<h, di>>] <= 1 /\ (Settled(h, di) /\ di \in Listed => asked[<<h, di>>] = 1)
      BY DEF AskedOnce
    <2>1. di \in Ids
      BY Typed DEF AskedInv
    <2>2. Once(h, di) /\ Seen(h, di)
      BY <2>1 DEF AskedInv, AskedOK
    <2>3. Settled(h, di) => ~HandlerAsks(h, di) /\ \A p \in Callers : ~CallerAsks(p, h, di)
      BY DEF Settled, HandlerAsks, CallerAsks
    <2>4. Settled(h, di) => handler[h].at \in {"calling", "attaching", "on"}
      BY DEF Settled
    <2> QED BY <2>2, <2>3, <2>4 DEF Once, Seen
  <1> QED BY <1>1, AskedInvAlways, PTL

-----------------------------------------------------------------------------
(* A directive is listed once.  A loop of AddDirective that superceeds goes  *)
(* on with an old array; what keeps it from finding another instance there   *)
(* is that nobody else supplies directives of its family.                    *)

\* The instance is released, or is not one the directive is equivalent to.
Dead(d, x) == released[x] \/ <<d, dirOf[x]>> \notin Equivalent

\* Neither the list nor the part of the array that a loop reads has a match.
NoLive(d, a, len) ==
  /\ \A x \in Listed : Dead(d, x)
  /\ \A k \in 1..len : Dead(d, arrs[a][k])

\* A loop that superceeds has removed the only match, unless others compete with it.
LoopsAlone ==
  \A p \in Callers : caller[p].at = "superceeding" =>
    /\ caller[p].d \in Adds[p] /\ Superceeding(caller[p].d)
    /\ Contested(caller[p].d) \/ NoLive(caller[p].d, caller[p].a, caller[p].len)

DupInv == AskedInv /\ NoDuplicates /\ LoopsAlone

\* Equivalent directives have one family.
LEMMA Kin ==
  ASSUME NEW d \in Directives, NEW e \in Directives, <<d, e>> \in Equivalent
  PROVE  /\ <<e, d>> \in Equivalent /\ d \in Family(d) /\ e \in Family(d)
         /\ Family(d) = Family(e) /\ (Contested(d) <=> Contested(e))
  <1>1. <<e, d>> \in Equivalent /\ <<d, d>> \in Equivalent
    BY EquivalenceAssumption
  <1>2. \A f \in Directives : <<d, f>> \in Equivalent <=> <<e, f>> \in Equivalent
    BY <1>1, EquivalenceAssumption
  <1>3. Family(d) = Family(e)
    BY <1>2 DEF Family
  <1>4. Contested(d) <=> Contested(e)
    BY <1>3 DEF Contested, Superceeding
  <1> QED BY <1>1, <1>3, <1>4 DEF Family

\* Two callers that supply one family contest it if it has versions.
LEMMA TwoContest ==
  ASSUME NEW p \in Callers, NEW q \in Callers, p # q, NEW d \in Adds[p], NEW e \in Adds[q],
         <<e, d>> \in Equivalent, Superceeding(e)
  PROVE  Contested(e)
  <1>1. d \in Directives /\ e \in Directives
    BY RelationAssumption
  <1>2. d \in Family(e) \cap Adds[p] /\ e \in Family(e) \cap Adds[q]
    BY <1>1, Kin
  <1>3. Family(e) \cap Adds[p] # {} /\ Family(e) \cap Adds[q] # {}
    BY <1>2
  <1> QED BY <1>3 DEF Contested

\* An instance that leaves the list makes no duplicate and no match.
LEMMA LeavesDup ==
  ASSUME TypeInv, Sorted, NEW di \in 1..dirID, NEW n \in Nat \ {0}, Leaves(di, n), UNCHANGED <<dirID, dirOf>>
  PROVE  /\ NoDuplicates => NoDuplicates'
         /\ \A d, a, len : Filled(a, len) /\ NoLive(d, a, len) => NoLive(d, a, len)'
  <1>0. nDir \in Nat /\ dirID \in Nat /\ \A m \in 1..nDir : Arr[m] \in 1..dirID
    BY ArrType
  <1>1. \A x \in 1..dirID : released[x] => released'[x]
    BY Typed DEF Leaves
  <1>2. \A d : \A x \in 1..dirID : Dead(d, x) => Dead(d, x)'
    BY <1>1 DEF Dead
  <1>3. Listed' \subseteq Listed /\ Listed \subseteq 1..dirID
    BY LeavesList, Typed
  <1>4. ASSUME NEW d, NEW a, NEW len, Filled(a, len), NoLive(d, a, len) PROVE NoLive(d, a, len)'
    <2>1. Filled(a, len)' /\ Shifted
      BY <1>4 DEF Leaves, ListStep
    <2>2. ASSUME NEW k \in 1..len PROVE Dead(d, arrs[a][k])'
      <3>1. arrs'[a][k] \in 1..dirID /\ arrs[a][k] \in 1..dirID
        BY <1>4, <2>1 DEF Filled
      <3>2. arrs'[a][k] = arrs[a][k] \/ arrs'[a][k] \in Listed
        BY <1>0, <1>4, <2>1, <3>1 DEF Shifted
      <3>3. Dead(d, arrs'[a][k])
        BY <1>4, <3>2 DEF NoLive
      <3>4. \A x \in 1..dirID : Dead(d, x) => released'[x] \/ <<d, dirOf'[x]>> \notin Equivalent
        BY <1>2 DEF Dead
      <3> QED BY <3>1, <3>3, <3>4 DEF Dead
    <2>3. \A x \in Listed' : Dead(d, x)'
      BY <1>2, <1>3, <1>4 DEF NoLive
    <2> QED BY <2>2, <2>3 DEF NoLive
  <1>5. ASSUME NoDuplicates PROVE NoDuplicates'
    <2>1. CASE nDir' = nDir - 1 /\ \A m \in 1..(nDir - 1) : Arr'[m] = IF m < n THEN Arr[m] ELSE Arr[m + 1]
      <3> SUFFICES ASSUME NEW i \in 1..(nDir - 1), NEW j \in 1..(nDir - 1), i < j, ~released'[Arr'[i]],
                          <<dirOf[Arr'[j]], dirOf[Arr'[i]]>> \in Equivalent
                   PROVE  Contested(dirOf[Arr'[j]])
        BY <2>1 DEF NoDuplicates
      <3> DEFINE x == IF i < n THEN i ELSE i + 1
                 y == IF j < n THEN j ELSE j + 1
      <3>1. x \in 1..nDir /\ y \in 1..nDir /\ x < y
        BY <1>0
      <3>2. Arr'[i] = Arr[x] /\ Arr'[j] = Arr[y]
        BY <2>1
      <3> HIDE DEF x, y
      <3>3. ~released[Arr[x]]
        BY <1>0, <1>1, <3>1, <3>2
      <3> QED BY <1>5, <3>1, <3>2, <3>3 DEF NoDuplicates
    <2>2. CASE UNCHANGED listVars
      <3>1. nDir' = nDir /\ Arr' = Arr
        BY <2>2 DEF listVars, Arr
      <3> QED BY <1>0, <1>1, <1>5, <3>1 DEF NoDuplicates
    <2> QED BY <2>1, <2>2 DEF Leaves
  <1> QED BY <1>4, <1>5

\* A new instance is no duplicate if its loop found no match, and no match of another family.
LEMMA JoinsDup ==
  ASSUME TypeInv, NEW p, NEW d \in Directives, Joins(p, d)
  PROVE  /\ NoDuplicates /\ (Contested(d) \/ \A x \in Listed : Dead(d, x)) => NoDuplicates'
         /\ \A e, a, len : Filled(a, len) /\ NoLive(e, a, len) /\ <<e, d>> \notin Equivalent => NoLive(e, a, len)'
  <1>0. nDir \in Nat /\ dirID \in Nat /\ \A m \in 1..nDir : Arr[m] \in 1..dirID
    BY ArrType
  <1>1. /\ nDir' = nDir + 1 /\ (\A n \in 1..nDir : Arr'[n] = Arr[n]) /\ Arr'[nDir + 1] = dirID + 1
        /\ dirID' = dirID + 1 /\ dirOf' = Append(dirOf, d) /\ released' = released /\ ListStep
    BY DEF Joins
  <1>2. dirOf'[dirID + 1] = d /\ \A x \in 1..dirID : dirOf'[x] = dirOf[x]
    <2>1. dirOf \in Seq(Directives) /\ Len(dirOf) = dirID
      BY Typed
    <2> QED BY <1>0, <1>1, <2>1
  <1>3. Listed' = Listed \cup {dirID + 1} /\ Listed \subseteq 1..dirID
    <2>1. 1..(nDir + 1) = 1..nDir \cup {nDir + 1}
      BY <1>0
    <2>2. Listed' = {Arr'[n] : n \in 1..(nDir + 1)} /\ Listed = {Arr[n] : n \in 1..nDir}
      BY <1>1 DEF Listed
    <2>3. Listed' = Listed \cup {dirID + 1}
      BY <1>1, <2>1, <2>2
    <2> QED BY <2>3, Typed
  <1>4. ASSUME NEW e, NEW a, NEW len, Filled(a, len), NoLive(e, a, len), <<e, d>> \notin Equivalent
        PROVE  NoLive(e, a, len)'
    <2>1. \A x \in Listed \cup {dirID + 1} : released'[x] \/ <<e, dirOf'[x]>> \notin Equivalent
      BY <1>1, <1>2, <1>3, <1>4 DEF NoLive, Dead
    <2>2. ASSUME NEW k \in 1..len PROVE released'[arrs'[a][k]] \/ <<e, dirOf'[arrs'[a][k]]>> \notin Equivalent
      <3>1. arrs[a][k] \in 1..dirID /\ Dead(e, arrs[a][k])
        BY <1>4 DEF Filled, NoLive
      <3>2. arrs'[a][k] = arrs[a][k] \/ arrs'[a][k] \in Listed \cup {dirID + 1}
        BY <1>1, <1>4 DEF ListStep, Shifted
      <3> QED BY <1>1, <1>2, <2>1, <3>1, <3>2 DEF Dead
    <2> QED BY <1>3, <2>1, <2>2 DEF NoLive, Dead
  <1>5. ASSUME NoDuplicates, Contested(d) \/ \A x \in Listed : Dead(d, x) PROVE NoDuplicates'
    <2> SUFFICES ASSUME NEW i \in 1..(nDir + 1), NEW j \in 1..(nDir + 1), i < j, ~released[Arr'[i]],
                        <<dirOf'[Arr'[j]], dirOf'[Arr'[i]]>> \in Equivalent
                 PROVE  Contested(dirOf'[Arr'[j]])
      BY <1>1 DEF NoDuplicates
    <2>1. i \in 1..nDir /\ Arr'[i] = Arr[i] /\ dirOf'[Arr'[i]] = dirOf[Arr[i]] /\ Arr[i] \in Listed
      <3>1. i \in 1..nDir
        BY <1>0
      <3> QED BY <1>0, <1>1, <1>2, <3>1 DEF Listed
    <2>2. CASE j = nDir + 1
      <3>1. dirOf'[Arr'[j]] = d
        BY <1>1, <1>2, <2>2
      <3> QED BY <1>5, <2>1, <3>1 DEF Dead
    <2>3. CASE j # nDir + 1
      <3>1. j \in 1..nDir
        BY <1>0, <2>3
      <3>2. Arr'[j] = Arr[j] /\ dirOf'[Arr'[j]] = dirOf[Arr[j]]
        BY <1>0, <1>1, <1>2, <3>1
      <3> QED BY <1>5, <2>1, <3>1, <3>2 DEF NoDuplicates
    <2> QED BY <2>2, <2>3
  <1> QED BY <1>4, <1>5

\* Nothing happens to the instances.
LEMMA SameDup ==
  ASSUME UNCHANGED <<dirID, dirOf, released, listVars>>
  PROVE  /\ NoDuplicates => NoDuplicates'
         /\ \A d, a, len : NoLive(d, a, len) => NoLive(d, a, len)'
  <1>1. UNCHANGED <<dirID, dirOf, released, arrs, nDir>> /\ Listed' = Listed /\ Arr' = Arr
    BY DEF listVars, Listed, Arr
  <1> QED BY <1>1 DEF NoDuplicates, NoLive, Dead

\* The loops that go on find no match still.
LEMMA LoopsKept ==
  ASSUME TypeInv, LoopsAlone,
         \A q \in Callers : caller'[q] = caller[q] \/ caller'[q].at # "superceeding",
         \A d, a, len : Filled(a, len) /\ NoLive(d, a, len) => NoLive(d, a, len)'
  PROVE  LoopsAlone'
  <1> SUFFICES ASSUME NEW q \in Callers, caller'[q] = caller[q], caller[q].at = "superceeding"
               PROVE  /\ caller[q].d \in Adds[q] /\ Superceeding(caller[q].d)
                      /\ Contested(caller[q].d) \/ NoLive(caller[q].d, caller[q].a, caller[q].len)'
    BY DEF LoopsAlone, NoLive, Dead
  <1>1. Filled(caller[q].a, caller[q].len)
    BY DEF TypeInv, LoopsOK
  <1>2. NoLive(caller[q].d, caller[q].a, caller[q].len) => NoLive(caller[q].d, caller[q].a, caller[q].len)'
    <2>1. PICK d, a, len : d = caller[q].d /\ a = caller[q].a /\ len = caller[q].len
      OBVIOUS
    <2>2. NoLive(d, a, len) => NoLive(d, a, len)'
      BY <1>1, <2>1
    <2> QED BY <2>1, <2>2 DEF NoLive, Dead
  <1> QED BY <1>2 DEF LoopsAlone

\* A new instance is no match of a loop that goes on: its family is contested, or another.
LEMMA JoinsLoops ==
  ASSUME TypeInv, NoDuplicates, LoopsAlone, NEW p \in Callers, NEW d \in Adds[p], Joins(p, d),
         Contested(d) \/ \A x \in Listed : Dead(d, x)
  PROVE  NoDuplicates' /\ LoopsAlone'
  <1>0. d \in Directives /\ caller \in [Callers -> CallerState]
    BY RelationAssumption, Typed
  <1>1. caller'[p].at = "calling" /\ \A q \in Callers : q # p => caller'[q] = caller[q]
    BY <1>0 DEF Joins
  <1>2. LoopsAlone'
    <2> SUFFICES ASSUME NEW q \in Callers, q # p, caller'[q] = caller[q], caller[q].at = "superceeding"
                 PROVE  /\ caller[q].d \in Adds[q] /\ Superceeding(caller[q].d)
                        /\ Contested(caller[q].d) \/ NoLive(caller[q].d, caller[q].a, caller[q].len)'
      BY <1>1 DEF LoopsAlone, NoLive, Dead
    <2>1. PICK e, a, len : e = caller[q].d /\ a = caller[q].a /\ len = caller[q].len
      OBVIOUS
    <2>2. e \in Adds[q] /\ Superceeding(e) /\ (Contested(e) \/ NoLive(e, a, len)) /\ Filled(a, len)
      BY <2>1 DEF LoopsAlone, TypeInv, LoopsOK
    <2>3. <<e, d>> \in Equivalent => Contested(e)
      BY <2>2, TwoContest
    <2>4. Contested(e) \/ NoLive(e, a, len)'
      BY <1>0, <2>2, <2>3, JoinsDup
    <2> QED BY <2>1, <2>2, <2>4 DEF NoLive, Dead
  <1> QED BY <1>0, <1>2, JoinsDup

\* What is superceeded was the only match, unless the family is contested.
LEMMA SuperceededDup ==
  ASSUME TypeInv, Sorted, NoDuplicates, LoopsAlone, NEW p \in Callers, NEW d \in Adds[p],
         NEW a, NEW len, Filled(a, len), NEW k \in 1..len, Superceeded(p, d, a, len, k, arrs[a][k]),
         \/ Contested(d)
         \/ /\ \A m \in 1..len : arrs[a][m] \in Listed
            /\ \A x \in Listed : x # arrs[a][k] => Dead(d, x)
  PROVE  NoDuplicates' /\ LoopsAlone' /\ Superceeding(d)
  <1> DEFINE di == arrs[a][k]
  <1>0. /\ d \in Directives /\ caller \in [Callers -> CallerState] /\ dirID \in Nat
        /\ di \in 1..dirID /\ k \in Nat \ {0} /\ released \in [Ids -> BOOLEAN] /\ 1..dirID \subseteq Ids
    <2>1. len \in Nat
      <3>1. a \in 1..Len(arrs) /\ len \in 0..Len(arrs[a])
        BY DEF Filled
      <3>2. Len(arrs[a]) \in Nat
        BY <3>1 DEF TypeInv, TypeOK
      <3> QED BY <3>1, <3>2
    <2>2. di \in 1..dirID /\ k \in Nat \ {0}
      BY <2>1 DEF Filled
    <2> QED BY <2>2, RelationAssumption, Typed, ArrType
  <1>1. /\ Leaves(di, k) /\ UNCHANGED <<dirID, dirOf>> /\ <<d, dirOf[di]>> \in Equivalent \cap Superceeds
        /\ caller' = [caller EXCEPT ![p] = [at |-> "superceeding", d |-> d, a |-> a, len |-> len, i |-> k + 1, di |-> di]]
    BY DEF Superceeded
  <1>2. dirOf[di] \in Directives
    <2>1. dirOf \in Seq(Directives) /\ Len(dirOf) = dirID
      BY Typed
    <2> QED BY <1>0, <2>1
  <1> HIDE DEF di
  <1>3. Superceeding(d)
    <2>1. d \in Family(d) /\ dirOf[di] \in Family(d)
      BY <1>0, <1>1, <1>2, Kin
    <2> QED BY <1>1, <2>1 DEF Superceeding
  <1>4. /\ NoDuplicates'
        /\ \A e, b, l : Filled(b, l) /\ NoLive(e, b, l) => NoLive(e, b, l)'
    BY <1>0, <1>1, LeavesDup
  <1>5. Contested(d) \/ NoLive(d, a, len)'
    <2> SUFFICES ASSUME \A m \in 1..len : arrs[a][m] \in Listed, \A x \in Listed : x # di => Dead(d, x)
                 PROVE  NoLive(d, a, len)'
      BY DEF di
    <2>1. \A x \in Listed : released'[x] \/ <<d, dirOf'[x]>> \notin Equivalent
      <3>1. released'[di] /\ \A x \in 1..dirID : x # di => released'[x] = released[x]
        BY <1>0, <1>1 DEF Leaves
      <3> QED BY <1>1, <3>1, Typed DEF Dead
    <2>2. Listed' \subseteq Listed
      BY <1>0, <1>1, LeavesList
    <2>3. \A m \in 1..len : arrs'[a][m] \in Listed
      <3>1. Filled(a, len)' /\ Shifted
        BY <1>1 DEF Leaves, ListStep
      <3>2. \A m \in 1..len : arrs'[a][m] \in 1..dirID
        BY <1>1, <3>1 DEF Filled
      <3>3. \A m \in 1..len : arrs'[a][m] \in Listed \/ arrs'[a][m] = dirID + 1
        BY <3>1 DEF Shifted
      <3> QED BY <1>0, <3>2, <3>3
    <2> QED BY <2>1, <2>2, <2>3 DEF NoLive, Dead
  <1>6. LoopsAlone'
    <2> SUFFICES ASSUME NEW q \in Callers, caller'[q].at = "superceeding"
                 PROVE  /\ caller'[q].d \in Adds[q] /\ Superceeding(caller'[q].d)
                        /\ Contested(caller'[q].d) \/ NoLive(caller[q].d, caller[q].a, caller[q].len)'
      BY DEF LoopsAlone, NoLive, Dead
    <2>1. CASE q = p
      <3>1. caller'[q].d = d /\ caller'[q].a = a /\ caller'[q].len = len
        BY <1>0, <1>1, <2>1
      <3> QED BY <1>3, <1>5, <2>1, <3>1 DEF NoLive, Dead
    <2>2. CASE q # p
      <3>1. PICK e, b, l : e = caller[q].d /\ b = caller[q].a /\ l = caller[q].len
        OBVIOUS
      <3>2. caller'[q] = caller[q]
        BY <1>0, <1>1, <2>2
      <3>3. e \in Adds[q] /\ Superceeding(e) /\ (Contested(e) \/ NoLive(e, b, l)) /\ Filled(b, l)
        BY <3>1, <3>2 DEF LoopsAlone, TypeInv, LoopsOK
      <3>4. Contested(e) \/ NoLive(e, b, l)'
        BY <1>4, <3>3
      <3> QED BY <3>1, <3>2, <3>3, <3>4 DEF NoLive, Dead
    <2> QED BY <2>1, <2>2
  <1> QED BY <1>3, <1>4, <1>6

\* An instance that is found changes nothing.
LEMMA FoundDup ==
  ASSUME TypeInv, NoDuplicates, LoopsAlone, NEW p \in Callers, NEW di, Found(p, di)
  PROVE  NoDuplicates' /\ LoopsAlone'
  <1>1. UNCHANGED <<dirID, dirOf, released, listVars>>
    BY DEF Found, instVars
  <1>2. \A q \in Callers : caller'[q] = caller[q] \/ caller'[q].at # "superceeding"
    BY Typed DEF Found
  <1> QED BY <1>1, <1>2, SameDup, LoopsKept

\* The loop that AddDirective starts sees the list as it is: the first match is the only one.
LEMMA AddDup ==
  ASSUME TypeInv, Sorted, NoDuplicates, LoopsAlone, NEW p \in Callers, NEW d \in Directives, AddDirective(p, d)
  PROVE  NoDuplicates' /\ LoopsAlone'
  <1>0. /\ nDir \in Nat /\ Filled(Len(arrs), nDir) /\ AddLoop(p, d, Len(arrs), nDir, 1) /\ d \in Adds[p]
        /\ \A n \in 1..nDir : Arr[n] \in Listed /\ Arr[n] \in 1..dirID
    BY Typed, ArrType DEF AddDirective, Listed
  <1>1. ASSUME Matches(d, Len(arrs), nDir, 1) = {}, Joins(p, d) PROVE NoDuplicates' /\ LoopsAlone'
    <2>1. \A x \in Listed : Dead(d, x)
      BY <1>1 DEF Matches, Listed, Arr, Dead
    <2> QED BY <1>0, <1>1, <2>1, JoinsLoops
  <1>2. ASSUME NEW k \in 1..nDir, Superceeded(p, d, Len(arrs), nDir, k, arrs[Len(arrs)][k])
        PROVE  NoDuplicates' /\ LoopsAlone'
    <2>1. \A m \in 1..nDir : arrs[Len(arrs)][m] \in Listed
      BY <1>0 DEF Arr
    <2>2. ASSUME ~Contested(d), NEW x \in Listed, x # arrs[Len(arrs)][k] PROVE Dead(d, x)
      <3> SUFFICES ASSUME ~released[x], <<d, dirOf[x]>> \in Equivalent PROVE FALSE
        BY DEF Dead
      <3>1. PICK n \in 1..nDir : Arr[n] = x
        BY DEF Listed
      <3>2. ~released[Arr[k]] /\ <<d, dirOf[Arr[k]]>> \in Equivalent /\ Arr[k] # x
        BY <1>2, <2>2 DEF Superceeded, Arr
      <3>3. dirOf[Arr[k]] \in Directives /\ dirOf[x] \in Directives
        <4>1. dirOf \in Seq(Directives) /\ Len(dirOf) = dirID
          BY Typed
        <4> QED BY <1>0, <3>1, <4>1
      <3>4. /\ <<dirOf[Arr[k]], dirOf[x]>> \in Equivalent /\ <<dirOf[x], dirOf[Arr[k]]>> \in Equivalent
            /\ ~Contested(dirOf[x]) /\ ~Contested(dirOf[Arr[k]])
        <4>1. <<dirOf[Arr[k]], d>> \in Equivalent /\ <<dirOf[x], d>> \in Equivalent
          BY <3>2, <3>3, Kin
        <4>2. <<dirOf[Arr[k]], dirOf[x]>> \in Equivalent /\ <<dirOf[x], dirOf[Arr[k]]>> \in Equivalent
          BY <3>2, <3>3, <4>1, EquivalenceAssumption
        <4> QED BY <2>2, <3>2, <3>3, <4>2, Kin
      <3>5. n < k \/ k < n
        BY <1>0, <3>1, <3>2
      <3> QED BY <3>1, <3>2, <3>4, <3>5 DEF NoDuplicates
    <2> QED BY <1>0, <1>2, <2>1, <2>2, SuperceededDup
  <1>3. \/ Matches(d, Len(arrs), nDir, 1) = {} /\ Joins(p, d)
        \/ \E k \in 1..nDir : Superceeded(p, d, Len(arrs), nDir, k, arrs[Len(arrs)][k])
        \/ \E di \in 1..dirID : Found(p, di)
    BY <1>0, AddLoopDoes
  <1> QED BY <1>1, <1>2, <1>3, FoundDup

\* A loop that goes on finds no match, unless its family is contested.
LEMMA ContinueDoes ==
  ASSUME TypeInv, LoopsAlone, NEW p \in Callers, ContinueLoop(p)
  PROVE  \E d \in Adds[p] :
           \/ Joins(p, d) /\ (Contested(d) \/ \A x \in Listed : Dead(d, x))
           \/ \E di \in 1..dirID : Found(p, di)
           \/ /\ Contested(d)
              /\ \E a, len : Filled(a, len) /\ \E k \in 1..len : Superceeded(p, d, a, len, k, arrs[a][k])
  <1>0. caller[p] \in CallerState /\ caller[p].at = "superceeding"
    BY Typed DEF ContinueLoop
  <1>1. PICK d, a, len, i : d = caller[p].d /\ a = caller[p].a /\ len = caller[p].len /\ i = caller[p].i
    OBVIOUS
  <1>2. d \in Directives /\ i \in Nat \ {0} /\ len \in Nat /\ Filled(a, len)
    BY <1>0, <1>1, StateFields DEF TypeInv, LoopsOK
  <1>3. d \in Adds[p] /\ (Contested(d) \/ NoLive(d, a, len))
    BY <1>0, <1>1 DEF LoopsAlone
  <1>4. AddLoop(p, d, a, len, i)
    BY <1>1 DEF ContinueLoop
  <1>5. \/ Joins(p, d)
        \/ \E k \in i..len : Superceeded(p, d, a, len, k, arrs[a][k])
        \/ \E di \in 1..dirID : Found(p, di)
    BY <1>2, <1>4, AddLoopDoes
  <1>6. ASSUME NEW k \in i..len, Superceeded(p, d, a, len, k, arrs[a][k])
        PROVE  k \in 1..len /\ Contested(d)
    <2>1. k \in 1..len
      BY <1>2
    <2>2. ~Dead(d, arrs[a][k])
      BY <1>6 DEF Superceeded, Dead
    <2> QED BY <1>3, <2>1, <2>2 DEF NoLive
  <1>7. Joins(p, d) => Contested(d) \/ \A x \in Listed : Dead(d, x)
    BY <1>3 DEF NoLive
  <1> QED BY <1>2, <1>3, <1>5, <1>6, <1>7

LEMMA ContinueDup ==
  ASSUME TypeInv, Sorted, NoDuplicates, LoopsAlone, NEW p \in Callers, ContinueLoop(p)
  PROVE  NoDuplicates' /\ LoopsAlone'
  <1>1. PICK d \in Adds[p] :
           \/ Joins(p, d) /\ (Contested(d) \/ \A x \in Listed : Dead(d, x))
           \/ \E di \in 1..dirID : Found(p, di)
           \/ /\ Contested(d)
              /\ \E a, len : Filled(a, len) /\ \E k \in 1..len : Superceeded(p, d, a, len, k, arrs[a][k])
    BY ContinueDoes
  <1>2. CASE Joins(p, d) /\ (Contested(d) \/ \A x \in Listed : Dead(d, x))
    BY <1>2, JoinsLoops
  <1>3. CASE \E di \in 1..dirID : Found(p, di)
    BY <1>3, FoundDup
  <1>4. ASSUME Contested(d), NEW a, NEW len, Filled(a, len), NEW k \in 1..len, Superceeded(p, d, a, len, k, arrs[a][k])
        PROVE  NoDuplicates' /\ LoopsAlone'
    BY <1>4, SuperceededDup
  <1> QED BY <1>1, <1>2, <1>3, <1>4

\* No step of the controller breaks it.
LEMMA DupStep ==
  ASSUME DupInv, [Next]_vars
  PROVE  DupInv'
  <1>0. TypeInv /\ Sorted /\ AskedInv /\ NoDuplicates /\ LoopsAlone
    BY DEF DupInv, AskedInv
  <1>t. caller \in [Callers -> CallerState]
    BY <1>0, Typed
  <1>s. ASSUME UNCHANGED <<dirID, dirOf, released, listVars>>,
               \A q \in Callers : caller'[q] = caller[q] \/ caller'[q].at # "superceeding"
        PROVE  NoDuplicates' /\ LoopsAlone'
    BY <1>0, <1>s, SameDup, LoopsKept
  <1>1. ASSUME NEW p \in Callers, CallerStep(p) PROVE NoDuplicates' /\ LoopsAlone'
    <2>1. CASE \E d \in Directives : AddDirective(p, d)
      BY <1>0, <2>1, AddDup
    <2>2. CASE ContinueLoop(p)
      BY <1>0, <2>2, ContinueDup
    <2>3. CASE CallHandler(p)
      <3>1. UNCHANGED <<dirID, dirOf, released, listVars>>
        BY <2>3 DEF CallHandler, instVars
      <3>2. caller'[p].at = "calling" /\ \A q \in Callers : q # p => caller'[q] = caller[q]
        BY <1>0, <1>t, <2>3, CallHandlerDoes DEF NextAsked, CallsOn
      <3> QED BY <1>s, <3>1, <3>2
    <2>4. CASE AttachReturned(p) \/ AttachNext(p)
      <3>1. UNCHANGED <<dirID, dirOf, released, listVars>>
        BY <2>4 DEF AttachReturned, AttachNext
      <3>2. PICK x \in CallerState : x.at \in {"holding", "attaching"} /\ caller' = [caller EXCEPT ![p] = x]
        BY <1>0, <2>4, AttachDoes
      <3>3. caller'[p].at # "superceeding" /\ \A q \in Callers : q # p => caller'[q] = caller[q]
        BY <1>t, <3>2
      <3> QED BY <1>s, <3>1, <3>3
    <2>5. CASE ReleaseRef(p)
      <3>1. UNCHANGED <<dirID, dirOf, released, listVars>>
        BY <2>5 DEF ReleaseRef, instVars
      <3>2. caller'[p].at = "idle" /\ \A q \in Callers : q # p => caller'[q] = caller[q]
        BY <1>t, <2>5 DEF ReleaseRef
      <3> QED BY <1>s, <3>1, <3>2
    <2> QED BY <1>1, <2>1, <2>2, <2>3, <2>4, <2>5 DEF CallerStep
  <1>2. ASSUME NEW h \in Handlers, HandlerStep(h) PROVE NoDuplicates' /\ LoopsAlone'
    <2>1. UNCHANGED <<dirID, dirOf, released, listVars, caller>>
      BY <1>2 DEF HandlerStep, AddHandler, CallDirective, AttachToInstances, RelHandler, RemoveHandler, RemoveHandlerNext, instVars
    <2> QED BY <1>s, <2>1
  <1>3. ASSUME NEW di \in Ids, CloseInstance(di) PROVE NoDuplicates' /\ LoopsAlone'
    <2>1. /\ UNCHANGED <<dirID, dirOf, caller>> /\ di \in 1..dirID
          /\ \/ \E n \in 1..nDir : Leaves(di, n)
             \/ released' = [released EXCEPT ![di] = TRUE] /\ UNCHANGED listVars
      BY <1>0, <1>3, CloseDoes
    <2>2. ASSUME NEW n \in 1..nDir, Leaves(di, n) PROVE NoDuplicates' /\ LoopsAlone'
      <3>1. n \in Nat \ {0}
        BY <1>0, ArrType
      <3>2. /\ NoDuplicates => NoDuplicates'
            /\ \A d, a, len : Filled(a, len) /\ NoLive(d, a, len) => NoLive(d, a, len)'
        BY <1>0, <2>1, <2>2, <3>1, LeavesDup
      <3> QED BY <1>0, <2>1, <3>2, LoopsKept
    <2>3. ASSUME released' = [released EXCEPT ![di] = TRUE], UNCHANGED listVars PROVE NoDuplicates' /\ LoopsAlone'
      <3>1. nDir' = nDir /\ arrs' = arrs /\ Arr' = Arr /\ Listed' = Listed /\ dirOf' = dirOf
        BY <2>1, <2>3 DEF listVars, Listed, Arr
      <3>2. \A x \in 1..dirID : released[x] => released'[x]
        BY <1>0, <2>3, Typed
      <3>3. NoDuplicates'
        <4>1. \A n \in 1..nDir : Arr[n] \in 1..dirID
          BY <1>0, ArrType
        <4> QED BY <1>0, <3>1, <3>2, <4>1 DEF NoDuplicates
      <3>4. ASSUME NEW d, NEW a, NEW len, Filled(a, len), NoLive(d, a, len) PROVE NoLive(d, a, len)'
        <4>1. \A x \in Listed : released'[x] \/ <<d, dirOf'[x]>> \notin Equivalent
          BY <1>0, <3>1, <3>2, <3>4, Typed DEF NoLive, Dead
        <4>2. \A k \in 1..len : released'[arrs[a][k]] \/ <<d, dirOf'[arrs[a][k]]>> \notin Equivalent
          BY <3>1, <3>2, <3>4 DEF NoLive, Dead, Filled
        <4> QED BY <3>1, <4>1, <4>2 DEF NoLive, Dead
      <3> QED BY <1>0, <2>1, <3>3, <3>4, LoopsKept
    <2> QED BY <2>1, <2>2, <2>3
  <1>4. ASSUME NEW di \in Ids, EmptyInstance(di) PROVE NoDuplicates' /\ LoopsAlone'
    <2>1. UNCHANGED <<dirID, dirOf, released, listVars, caller>>
      BY <1>4 DEF EmptyInstance
    <2> QED BY <1>s, <2>1
  <1>5. ASSUME UNCHANGED vars PROVE NoDuplicates' /\ LoopsAlone'
    <2>1. UNCHANGED <<dirID, dirOf, released, listVars, caller>>
      BY <1>5 DEF vars, instVars
    <2> QED BY <1>s, <2>1
  <1>6. NoDuplicates' /\ LoopsAlone'
    BY <1>1, <1>2, <1>3, <1>4, <1>5 DEF Next
  <1>7. AskedInv'
    BY <1>0, AskedStep
  <1> QED BY <1>6, <1>7 DEF DupInv

LEMMA DupInit == Init => DupInv
  BY AskedInit DEF Init, DupInv, NoDuplicates, LoopsAlone

LEMMA DupInvAlways == Spec => []DupInv
  <1>1. DupInv /\ [Next]_vars => DupInv'
    BY DupStep
  <1> QED BY <1>1, DupInit, PTL DEF Spec

\* However calls of AddDirective interleave with each other and with removals, a directive
\* is not listed beside an older instance it is equivalent to that is not released, unless
\* two goroutines supply versions of it.
THEOREM NoDuplicatesAlways == Spec => []NoDuplicates
  <1>1. DupInv => NoDuplicates
    BY DEF DupInv
  <1> QED BY <1>1, DupInvAlways, PTL

-----------------------------------------------------------------------------
(* The list holds the live instances, while no directive is contested.       *)

Uncontested == \A d \in Directives : ~Contested(d)

\* The live instances are listed.
ListLive ==
  /\ ~panicked
  /\ Listed = {di \in 1..dirID : ~released[di]}
  /\ \A di \in Ids : di > dirID => ~released[di]

LiveInv == DupInv /\ ListLive

\* The instance that is removed is the one at the index: the others stay.
LEMMA LeavesLive ==
  ASSUME TypeInv, Sorted, ListLive, NEW n \in 1..nDir, NEW di, Arr[n] = di, Leaves(di, n), UNCHANGED <<dirID, dirOf>>
  PROVE  ListLive'
  <1>0. /\ nDir \in Nat /\ dirID \in Nat /\ di \in 1..dirID
        /\ \A m \in 1..nDir : Arr[m] \in 1..dirID /\ Arr[m] \in Nat
    <2>1. nDir \in Nat /\ dirID \in Nat /\ \A m \in 1..nDir : Arr[m] \in 1..dirID
      BY ArrType
    <2> QED BY <2>1
  <1>1. /\ nDir' = nDir - 1 /\ panicked' = panicked
        /\ \A m \in 1..(nDir - 1) : Arr'[m] = IF m < n THEN Arr[m] ELSE Arr[m + 1]
    <2>1. ~(n > nDir)
      BY <1>0
    <2> QED BY <2>1 DEF Leaves
  <1>2. \A m \in 1..nDir : Arr[m] = di => m = n
    <2> SUFFICES ASSUME NEW m \in 1..nDir, Arr[m] = di, m # n PROVE FALSE
      OBVIOUS
    <2>1. m < n \/ n < m
      BY <1>0
    <2>2. Arr[m] < Arr[n] \/ Arr[n] < Arr[m]
      BY <2>1 DEF Sorted
    <2> QED BY <1>0, <2>2
  <1>3. \A m \in 1..(nDir - 1) : \E i \in 1..nDir : i # n /\ Arr'[m] = Arr[i]
    <2> SUFFICES ASSUME NEW m \in 1..(nDir - 1) PROVE \E i \in 1..nDir : i # n /\ Arr'[m] = Arr[i]
      OBVIOUS
    <2>1. CASE m < n
      <3>1. m \in 1..nDir /\ m # n
        BY <1>0, <2>1
      <3> QED BY <1>1, <2>1, <3>1
    <2>2. CASE ~(m < n)
      <3>1. m + 1 \in 1..nDir /\ m + 1 # n
        BY <1>0, <2>2
      <3> QED BY <1>1, <2>2, <3>1
    <2> QED BY <2>1, <2>2
  <1>4. \A i \in 1..nDir : i # n => \E m \in 1..(nDir - 1) : Arr'[m] = Arr[i]
    <2> SUFFICES ASSUME NEW i \in 1..nDir, i # n PROVE \E m \in 1..(nDir - 1) : Arr'[m] = Arr[i]
      OBVIOUS
    <2>1. CASE i < n
      <3>1. i \in 1..(nDir - 1)
        BY <1>0, <2>1
      <3> QED BY <1>1, <2>1, <3>1
    <2>2. CASE ~(i < n)
      <3>1. i - 1 \in 1..(nDir - 1) /\ ~(i - 1 < n) /\ (i - 1) + 1 = i
        BY <1>0, <2>2
      <3> QED BY <1>1, <3>1
    <2> QED BY <2>1, <2>2
  <1>5. Listed' = Listed \ {di}
    <2>1. Listed' \subseteq Listed \ {di}
      BY <1>1, <1>2, <1>3 DEF Listed
    <2>2. Listed \ {di} \subseteq Listed'
      BY <1>1, <1>4 DEF Listed
    <2> QED BY <2>1, <2>2
  <1>6. released'[di] /\ \A e \in Ids : e # di => released'[e] = released[e]
    BY <1>0, Typed DEF Leaves
  <1>7. Listed' = {e \in 1..dirID : ~released'[e]}
    <2>1. Listed = {e \in 1..dirID : ~released[e]} /\ 1..dirID \subseteq Ids
      BY Typed DEF ListLive
    <2> QED BY <1>5, <1>6, <2>1
  <1>8. \A e \in Ids : e > dirID => ~released'[e]
    <2>1. \A e \in Ids : e > dirID => e # di /\ ~released[e]
      BY <1>0 DEF ListLive
    <2> QED BY <1>6, <2>1
  <1> QED BY <1>1, <1>7, <1>8 DEF ListLive

\* A new instance is live.
LEMMA JoinsLive ==
  ASSUME TypeInv, ListLive, NEW p, NEW d \in Directives, Joins(p, d)
  PROVE  ListLive'
  <1>0. nDir \in Nat /\ dirID \in Nat /\ \A m \in 1..nDir : Arr[m] \in 1..dirID
    BY ArrType
  <1>1. /\ nDir' = nDir + 1 /\ (\A n \in 1..nDir : Arr'[n] = Arr[n]) /\ Arr'[nDir + 1] = dirID + 1
        /\ dirID' = dirID + 1 /\ dirOf' = Append(dirOf, d) /\ released' = released /\ panicked' = panicked
        /\ dirID < MaxInstances
    BY DEF Joins
  <1>2. Listed' = Listed \cup {dirID + 1}
    <2>1. 1..(nDir + 1) = 1..nDir \cup {nDir + 1}
      BY <1>0
    <2> QED BY <1>1, <2>1 DEF Listed
  <1>3. dirID + 1 \in Ids /\ dirID + 1 > dirID
    BY <1>0, <1>1, BoundAssumption DEF Ids
  <1>4. Listed' = {di \in 1..(dirID + 1) : ~released[di]}
    <2>1. 1..(dirID + 1) = 1..dirID \cup {dirID + 1}
      BY <1>0
    <2>2. ~released[dirID + 1]
      BY <1>3 DEF ListLive
    <2> QED BY <1>2, <2>1, <2>2 DEF ListLive
  <1>5. \A di \in Ids : di > dirID + 1 => ~released[di]
    <2>1. \A di \in Ids : di > dirID + 1 => di > dirID
      BY <1>0, BoundAssumption DEF Ids
    <2> QED BY <2>1 DEF ListLive
  <1> QED BY <1>1, <1>4, <1>5 DEF ListLive

\* Nothing happens to the instances.
LEMMA SameLive ==
  ASSUME ListLive, UNCHANGED <<dirID, released, listVars, panicked>>
  PROVE  ListLive'
  <1>1. UNCHANGED <<dirID, released, nDir, panicked>> /\ Listed' = Listed
    BY DEF listVars, Listed, Arr
  <1> QED BY <1>1 DEF ListLive

\* The loop that AddDirective starts superceeds the instance at the index.
LEMMA AddLive ==
  ASSUME TypeInv, Sorted, ListLive, NEW p \in Callers, NEW d \in Directives, AddDirective(p, d)
  PROVE  ListLive'
  <1>0. nDir \in Nat /\ Filled(Len(arrs), nDir) /\ AddLoop(p, d, Len(arrs), nDir, 1)
    BY Typed, ArrType DEF AddDirective
  <1>1. ASSUME NEW k \in 1..nDir, Superceeded(p, d, Len(arrs), nDir, k, arrs[Len(arrs)][k]) PROVE ListLive'
    <2>1. Leaves(Arr[k], k) /\ UNCHANGED <<dirID, dirOf>>
      BY <1>1 DEF Superceeded, Arr
    <2> QED BY <2>1, LeavesLive
  <1>2. ASSUME NEW di, Found(p, di) PROVE ListLive'
    BY <1>2, SameLive DEF Found, instVars
  <1>3. \/ Joins(p, d)
        \/ \E k \in 1..nDir : Superceeded(p, d, Len(arrs), nDir, k, arrs[Len(arrs)][k])
        \/ \E di \in 1..dirID : Found(p, di)
    BY <1>0, AddLoopDoes
  <1> QED BY <1>1, <1>2, <1>3, JoinsLive

\* A loop that goes on superceeds nothing: it finds an instance or makes one.
LEMMA ContinueLive ==
  ASSUME Uncontested, TypeInv, ListLive, LoopsAlone, NEW p \in Callers, ContinueLoop(p)
  PROVE  ListLive'
  <1>1. PICK d \in Adds[p] : Joins(p, d) \/ (\E di \in 1..dirID : Found(p, di)) \/ Contested(d)
    BY ContinueDoes
  <1>2. d \in Directives /\ ~Contested(d)
    BY RelationAssumption DEF Uncontested
  <1>3. ASSUME NEW di, Found(p, di) PROVE ListLive'
    BY <1>3, SameLive DEF Found, instVars
  <1> QED BY <1>1, <1>2, <1>3, JoinsLive

LEMMA LiveInit == Init => LiveInv
  <1> SUFFICES ASSUME Init PROVE ListLive
    BY DupInit DEF LiveInv
  <1>1. Listed = {} /\ 1..dirID = {}
    BY DEF Init, Listed
  <1> QED BY <1>1 DEF Init, ListLive

\* No step of the controller breaks it.
LEMMA LiveStep ==
  ASSUME Uncontested, LiveInv, [Next]_vars
  PROVE  LiveInv'
  <1>0. TypeInv /\ Sorted /\ DupInv /\ LoopsAlone /\ ListLive
    BY DEF LiveInv, DupInv, AskedInv
  <1>1. ASSUME NEW p \in Callers, CallerStep(p) PROVE ListLive'
    <2>1. CASE \E d \in Directives : AddDirective(p, d)
      BY <1>0, <2>1, AddLive
    <2>2. CASE ContinueLoop(p)
      BY <1>0, <2>2, ContinueLive
    <2>3. CASE CallHandler(p) \/ AttachReturned(p) \/ AttachNext(p) \/ ReleaseRef(p)
      <3>1. UNCHANGED <<dirID, released, listVars, panicked>>
        BY <2>3 DEF CallHandler, AttachReturned, AttachNext, ReleaseRef, instVars
      <3> QED BY <1>0, <3>1, SameLive
    <2> QED BY <1>1, <2>1, <2>2, <2>3 DEF CallerStep
  <1>2. ASSUME NEW h \in Handlers, HandlerStep(h) PROVE ListLive'
    <2>1. UNCHANGED <<dirID, released, listVars, panicked>>
      BY <1>2 DEF HandlerStep, AddHandler, CallDirective, AttachToInstances, RelHandler, RemoveHandler, RemoveHandlerNext, instVars
    <2> QED BY <1>0, <2>1, SameLive
  <1>3. ASSUME NEW di \in Ids, CloseInstance(di) PROVE ListLive'
    <2>1. /\ UNCHANGED <<dirID, dirOf>> /\ di \in 1..dirID /\ ~released[di]
          /\ \/ \E n \in 1..nDir : Arr[n] = di /\ Leaves(di, n)
             \/ di \notin Listed
      BY <1>0, <1>3, CloseDoes
    <2>2. di \in Listed
      BY <1>0, <2>1 DEF ListLive
    <2> QED BY <1>0, <2>1, <2>2, LeavesLive
  <1>4. ASSUME NEW di \in Ids, EmptyInstance(di) PROVE ListLive'
    BY <1>0, <1>4, SameLive DEF EmptyInstance
  <1>5. ASSUME UNCHANGED vars PROVE ListLive'
    BY <1>0, <1>5, SameLive DEF vars, instVars
  <1>6. ListLive'
    BY <1>1, <1>2, <1>3, <1>4, <1>5 DEF Next
  <1>7. DupInv'
    BY <1>0, DupStep
  <1> QED BY <1>6, <1>7 DEF LiveInv

\* When no two goroutines supply versions of one directive, the live instances and only
\* they are listed, in order, and no index runs past the list, although the loops that
\* superceed go on with indexes of a list that others shift and append to meanwhile.
THEOREM ListedIsLiveAlways ==
  ASSUME \A d \in Directives : ~Contested(d)
  PROVE  Spec => []ListedIsLive
  <1>1. LiveInv /\ [Next]_vars => LiveInv'
    BY LiveStep DEF Uncontested
  <1>2. LiveInv => ListedIsLive
    BY DEF LiveInv, DupInv, ListLive, AskedInv, Sorted, ListedIsLive
  <1> QED BY <1>1, <1>2, LiveInit, PTL DEF Spec

\* Where no directive superceeds another none is contested: AddDirective then
\* de-duplicates, and the list is that of the live instances, whoever adds what.
THEOREM NothingSuperceeds ==
  ASSUME Superceeds = {}
  PROVE  Spec => [](ListedIsLive /\ NoDuplicates)
  <1>1. \A d \in Directives : ~Contested(d)
    BY DEF Contested, Superceeding
  <1>2. Spec => []ListedIsLive
    BY <1>1, ListedIsLiveAlways
  <1> QED BY <1>2, NoDuplicatesAlways, PTL

=============================================================================
