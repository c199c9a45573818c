------------------------ MODULE DirectiveController ------------------------
(***************************************************************************)
(* The Controller of directive/controller: the list of directive           *)
(* instances, the list of handlers, and AddDirective, AddHandler and the   *)
(* removal of both as they interleave.  What happens inside one instance   *)
(* is DirectiveInstance; here an instance is its directive, its released   *)
(* flag and the handlers whose resolvers are attached to it.  A handler    *)
(* returns at most one resolver for a directive.                           *)
(*                                                                         *)
(* An action is what one goroutine does between two points where c.mtx is  *)
(* unlocked.  The mutex is unlocked while handlers are called and, inside  *)
(* removeLocked, attachStartResolverLocked and removeHandlerLocked, while  *)
(* callbacks are called.                                                   *)
(*                                                                         *)
(* c.dir is a Go slice: removal shifts its backing array in place, append  *)
(* writes in place while there is room, and a range loop keeps the array   *)
(* and the length it started with.                                         *)
(***************************************************************************)
EXTENDS Integers, Sequences, FiniteSets, SequencesExt

CONSTANTS
  Callers,      \* goroutines that call AddDirective and hold the reference
  Directives,
  Equivalent,   \* pairs for which IsEquivalent is true
  Superceeds,   \* pairs for which Superceeds is true
  Adds,         \* the directives each caller may add
  Handlers,
  MaxInstances  \* bound: how many instances are made

ASSUME RelationAssumption ==
  /\ Equivalent \subseteq Directives \X Directives
  /\ Superceeds \subseteq Directives \X Directives
  /\ Adds \in [Callers -> SUBSET Directives]

\* Each IsEquivalent of the repository compares fields or configs for equality.
ASSUME EquivalenceAssumption ==
  \A d, e, f \in Directives : <<d, e>> \in Equivalent =>
    <<e, d>> \in Equivalent /\ (<<e, f>> \in Equivalent => <<d, f>> \in Equivalent)

ASSUME BoundAssumption == MaxInstances \in Nat

Ids == 1..MaxInstances

VARIABLES
  dirID,       \* the number of instances made so far: c.dirID
  dirOf,       \* the directive of each instance
  released,    \* directiveInstance.released
  attached,    \* the handlers whose resolver is attached to it
  emptying,    \* instances whose removeLocked still has resolvers to remove
  arrs, nDir,  \* backing arrays of c.dir, the last is current; len(c.dir)
  hnd,         \* c.hnd
  hndRel,      \* handler.rel
  caller,      \* what each caller is doing
  handler,     \* what AddHandler, or the release of the handler, is doing
  asked,       \* how often HandleDirective was called, by handler and instance
  panicked     \* a slice index was out of range

instVars == <<dirID, dirOf, released, attached, emptying>>
listVars == <<arrs, nDir>>
vars == <<instVars, listVars, hnd, hndRel, caller, handler, asked, panicked>>

-----------------------------------------------------------------------------
(* Types. *)

CallerState ==
       [at: {"idle"}]
  \cup [at: {"superceeding"}, d: Directives, a: Nat, len: Nat, i: Nat, di: Ids]
  \cup [at: {"calling"}, di: Ids, todo: Seq(Handlers), res: Seq(Handlers)]
  \cup [at: {"attaching"}, di: Ids, res: Seq(Handlers)]
  \cup [at: {"holding"}, di: Ids]

HandlerState ==
       [at: {"new", "on", "released", "off"}]
  \cup [at: {"calling"}, todo: Seq(Ids), res: Seq(Ids)]
  \cup [at: {"attaching"}, res: Seq(Ids)]
  \cup [at: {"removing"}, a: Nat, len: Nat, i: Nat]

\* Every field has the type of its Go declaration, and the list stays inside
\* its backing array.
TypeOK ==
  /\ dirID \in 0..MaxInstances
  /\ dirOf \in Seq(Directives) /\ Len(dirOf) = dirID
  /\ released \in [Ids -> BOOLEAN]
  /\ attached \in [Ids -> SUBSET Handlers]
  /\ emptying \subseteq Ids
  /\ arrs \in Seq(Seq(0..dirID)) /\ arrs # <<>>
  /\ nDir \in 0..Len(arrs[Len(arrs)])
  /\ hnd \in Seq(Handlers)
  /\ hndRel \in [Handlers -> BOOLEAN]
  /\ caller \in [Callers -> CallerState]
  /\ handler \in [Handlers -> HandlerState]
  /\ asked \in [Handlers \X Ids -> Nat]
  /\ panicked \in BOOLEAN

-----------------------------------------------------------------------------
(* The list of instances. *)

Arr == arrs[Len(arrs)]
Dir == SubSeq(Arr, 1, nDir)
Listed == {Arr[n] : n \in 1..nDir}

\* Mutant of Grown: append does not grow.
NotGrown(cap) == cap

\* capacity of the next backing array when append outgrows this one
Grown(cap) == IF cap = 0 THEN 1 ELSE 2 * cap

\* c.dir = append(c.dir, di)
AppendDir(di) ==
  /\ nDir' = nDir + 1
  /\ arrs' = IF nDir < Len(Arr)
             THEN [arrs EXCEPT ![Len(arrs)][nDir + 1] = di]
             ELSE Append(arrs, [n \in 1..Grown(Len(Arr)) |->
                    CASE n <= nDir -> Arr[n] [] n = nDir + 1 -> di [] OTHER -> 0])

\* Mutant of DeleteDir: the shift starts one too late.
DeleteDirLate(idx) ==
  /\ nDir' = nDir - 1
  /\ arrs' = [arrs EXCEPT ![Len(arrs)] =
                [n \in DOMAIN Arr |-> IF n \in (idx + 1)..(nDir - 1) THEN Arr[n + 1] ELSE Arr[n]]]

\* c.dir = append(c.dir[:idx], c.dir[idx+1:]...)
DeleteDir(idx) ==
  /\ nDir' = nDir - 1
  /\ arrs' = [arrs EXCEPT ![Len(arrs)] =
                [n \in DOMAIN Arr |-> IF n \in idx..(nDir - 1) THEN Arr[n + 1] ELSE Arr[n]]]

\* removeLocked(idx) up to where it first unlocks: the instance is marked and
\* leaves the list.  An index past the end of the list is a Go panic.
RemoveLocked(di, idx) ==
  /\ released' = [released EXCEPT ![di] = TRUE]
  /\ IF idx <= nDir
     THEN DeleteDir(idx) /\ emptying' = emptying \cup {di} /\ UNCHANGED panicked
     ELSE panicked' = TRUE /\ UNCHANGED <<listVars, emptying>>

\* The rest of removeLocked, done when all resolvers are removed and the
\* callbacks that tell of the end were called with the mutex unlocked.
EmptyInstance(di) ==
  /\ di \in emptying
  /\ emptying' = emptying \ {di}
  /\ attached' = [attached EXCEPT ![di] = {}]
  /\ UNCHANGED <<dirID, dirOf, released, listVars, hnd, hndRel, caller, handler, asked, panicked>>

\* Close, CloseIfUnreferenced or the end of the last reference.  removeLocked(-1)
\* looks the index up, and returns at once when the instance is not listed.
CloseInstance(di) ==
  /\ di \in 1..dirID /\ ~released[di]
  /\ IF di \in Listed
     THEN RemoveLocked(di, CHOOSE n \in 1..nDir : Arr[n] = di)
     ELSE /\ released' = [released EXCEPT ![di] = TRUE]
          /\ UNCHANGED <<emptying, listVars, panicked>>
  /\ UNCHANGED <<dirID, dirOf, attached, hnd, hndRel, caller, handler, asked>>

-----------------------------------------------------------------------------
(* AddDirective. *)

\* Mutant of NewInstance: handlers whose AddHandler has not returned are left out.
NewInstanceEarly(p, d) ==
  /\ dirID < MaxInstances
  /\ dirID' = dirID + 1
  /\ dirOf' = Append(dirOf, d)
  /\ AppendDir(dirID + 1)
  /\ caller' = [caller EXCEPT ![p] = [at |-> "calling", di |-> dirID + 1,
       todo |-> SelectSeq(hnd, LAMBDA h : handler[h].at = "on"), res |-> <<>>]]
  /\ UNCHANGED <<released, attached, emptying, panicked>>

\* The new instance is listed, and with the same lock held the handlers that
\* will be asked are copied.
NewInstance(p, d) ==
  /\ dirID < MaxInstances
  /\ dirID' = dirID + 1
  /\ dirOf' = Append(dirOf, d)
  /\ AppendDir(dirID + 1)
  /\ caller' = [caller EXCEPT ![p] =
       [at |-> "calling", di |-> dirID + 1, todo |-> hnd, res |-> <<>>]]
  /\ UNCHANGED <<released, attached, emptying, panicked>>

\* Mutant of Matches: the loop starts one too late.
MatchesLate(d, a, len, i) ==
  {k \in (i + 1)..len : ~released[arrs[a][k]] /\ <<d, dirOf[arrs[a][k]]>> \in Equivalent}

\* The instances from index i on that the range loop over c.dir finds equivalent.
Matches(d, a, len, i) ==
  {k \in i..len : ~released[arrs[a][k]] /\ <<d, dirOf[arrs[a][k]]>> \in Equivalent}

\* The loop over c.dir, up to its next unlock or the end of the critical section.
AddLoop(p, d, a, len, i) ==
  LET M == Matches(d, a, len, i)
      k == CHOOSE n \in M : \A m \in M : n <= m
      di == arrs[a][k]
  IN  IF M = {} THEN NewInstance(p, d)
      ELSE IF <<d, dirOf[di]>> \in Superceeds
      THEN /\ RemoveLocked(di, k)
           /\ caller' = [caller EXCEPT ![p] = [at |-> "superceeding", d |-> d,
                            a |-> a, len |-> len, i |-> k + 1, di |-> di]]
           /\ UNCHANGED <<dirID, dirOf, attached>>
      ELSE /\ caller' = [caller EXCEPT ![p] = [at |-> "holding", di |-> di]]
           /\ UNCHANGED <<instVars, listVars, panicked>>

AddDirective(p, d) ==
  /\ caller[p].at = "idle" /\ d \in Adds[p]
  /\ AddLoop(p, d, Len(arrs), nDir, 1)
  /\ UNCHANGED <<hnd, hndRel, handler, asked>>

\* The superceeded instance is gone: the loop goes on with what it held.
ContinueLoop(p) ==
  LET c == caller[p]
  IN  /\ c.at = "superceeding" /\ c.di \notin emptying
      /\ AddLoop(p, c.d, c.a, c.len, c.i)
      /\ UNCHANGED <<hnd, hndRel, handler, asked>>

Asked(h, di) == asked' = [asked EXCEPT ![<<h, di>>] = @ + 1]

\* HandleDirective of the next handler, unless it was released.  It returns
\* a resolver, or none, or an error, which is logged.
CallHandler(p) ==
  LET c == caller[p] IN
  /\ c.at = "calling" /\ c.todo # <<>>
  /\ LET h == Head(c.todo)
         next == [c EXCEPT !.todo = Tail(c.todo)]
     IN  IF hndRel[h]
         THEN caller' = [caller EXCEPT ![p] = next] /\ UNCHANGED asked
         ELSE /\ \E res \in {c.res, Append(c.res, h)} :
                   caller' = [caller EXCEPT ![p] = [next EXCEPT !.res = res]]
              /\ Asked(h, c.di)
  /\ UNCHANGED <<instVars, listVars, hnd, hndRel, handler, panicked>>

\* attachStartResolverLocked for the next resolver, which may unlock for
\* callbacks before the loop goes on.
AttachFrom(p, di, res) ==
  IF res = <<>>
  THEN caller' = [caller EXCEPT ![p] = [at |-> "holding", di |-> di]] /\ UNCHANGED attached
  ELSE /\ attached' = [attached EXCEPT ![di] = @ \cup {Head(res)}]
       /\ caller' = [caller EXCEPT ![p] = [at |-> "attaching", di |-> di, res |-> Tail(res)]]

\* The mutex is locked again: resolvers are attached unless the instance was
\* released meanwhile.
AttachReturned(p) ==
  LET c == caller[p] IN
  /\ c.at = "calling" /\ c.todo = <<>>
  /\ AttachFrom(p, c.di, IF released[c.di] THEN <<>> ELSE c.res)
  /\ UNCHANGED <<dirID, dirOf, released, emptying, listVars, hnd, hndRel, handler, asked, panicked>>

AttachNext(p) ==
  LET c == caller[p] IN
  /\ c.at = "attaching"
  /\ AttachFrom(p, c.di, c.res)
  /\ UNCHANGED <<dirID, dirOf, released, emptying, listVars, hnd, hndRel, handler, asked, panicked>>

\* The caller lets its reference go.  When the instance is disposed of for it
\* is the dispose timer's business: CloseInstance.
ReleaseRef(p) ==
  /\ caller[p].at = "holding"
  /\ caller' = [caller EXCEPT ![p] = [at |-> "idle"]]
  /\ UNCHANGED <<instVars, listVars, hnd, hndRel, handler, asked, panicked>>

-----------------------------------------------------------------------------
(* AddHandler and the release function it returns. *)

\* The handler is listed, and with the same lock held the instances it will
\* be asked about are copied.
AddHandler(h) ==
  /\ handler[h].at = "new"
  /\ hnd' = Append(hnd, h)
  /\ handler' = [handler EXCEPT ![h] = [at |-> "calling", todo |-> Dir, res |-> <<>>]]
  /\ UNCHANGED <<instVars, listVars, hndRel, caller, asked, panicked>>

\* HandleDirective for the next of the copied instances.
CallDirective(h) ==
  LET s == handler[h] IN
  /\ s.at = "calling" /\ s.todo # <<>> /\ ~hndRel[h]
  /\ \E res \in {s.res, Append(s.res, Head(s.todo))} :
       handler' = [handler EXCEPT ![h] = [s EXCEPT !.todo = Tail(s.todo), !.res = res]]
  /\ Asked(h, Head(s.todo))
  /\ UNCHANGED <<instVars, listVars, hnd, hndRel, caller, panicked>>

\* Locked again: the resolvers are attached, each may unlock for callbacks.
AttachToInstances(h) ==
  LET s == handler[h] IN
  /\ s.at = "attaching" \/ (s.at = "calling" /\ s.todo = <<>>)
  /\ IF s.res = <<>>
     THEN handler' = [handler EXCEPT ![h] = [at |-> "on"]] /\ UNCHANGED attached
     ELSE /\ attached' = [attached EXCEPT ![Head(s.res)] = @ \cup {h}]
          /\ handler' = [handler EXCEPT ![h] = [at |-> "attaching", res |-> Tail(s.res)]]
  /\ UNCHANGED <<dirID, dirOf, released, emptying, listVars, hnd, hndRel, caller, asked, panicked>>

\* relHandler sets the flag before it locks.
RelHandler(h) ==
  /\ handler[h].at = "on"
  /\ hndRel' = [hndRel EXCEPT ![h] = TRUE]
  /\ handler' = [handler EXCEPT ![h] = [at |-> "released"]]
  /\ UNCHANGED <<instVars, listVars, hnd, caller, asked, panicked>>

\* The range loop over c.dir, up to the instance at which callbacks unlock.
RemoveFrom(h, a, len, i) ==
  LET K == {k \in i..len : h \in attached[arrs[a][k]]}
      k == CHOOSE n \in K : \A m \in K : n <= m
  IN  IF K = {}
      THEN handler' = [handler EXCEPT ![h] = [at |-> "off"]] /\ UNCHANGED attached
      ELSE /\ attached' = [attached EXCEPT ![arrs[a][k]] = @ \ {h}]
           /\ handler' = [handler EXCEPT ![h] = [at |-> "removing", a |-> a, len |-> len, i |-> k + 1]]

\* The handler's slot is filled with the last one.
Unlisted(h) ==
  LET n == CHOOSE m \in DOMAIN hnd : hnd[m] = h
  IN  Front([hnd EXCEPT ![n] = Last(hnd)])

RemoveHandler(h) ==
  /\ handler[h].at = "released"
  /\ hnd' = Unlisted(h)
  /\ RemoveFrom(h, Len(arrs), nDir, 1)
  /\ UNCHANGED <<dirID, dirOf, released, emptying, listVars, hndRel, caller, asked, panicked>>

RemoveHandlerNext(h) ==
  LET s == handler[h] IN
  /\ s.at = "removing"
  /\ RemoveFrom(h, s.a, s.len, s.i)
  /\ UNCHANGED <<dirID, dirOf, released, emptying, listVars, hnd, hndRel, caller, asked, panicked>>

-----------------------------------------------------------------------------
(* The specification. *)

Init ==
  /\ dirID = 0 /\ dirOf = <<>>
  /\ released = [i \in Ids |-> FALSE]
  /\ attached = [i \in Ids |-> {}]
  /\ emptying = {}
  /\ arrs = << <<>> >> /\ nDir = 0
  /\ hnd = <<>>
  /\ hndRel = [h \in Handlers |-> FALSE]
  /\ caller = [p \in Callers |-> [at |-> "idle"]]
  /\ handler = [h \in Handlers |-> [at |-> "new"]]
  /\ asked = [x \in Handlers \X Ids |-> 0]
  /\ panicked = FALSE

CallerStep(p) ==
  \/ \E d \in Directives : AddDirective(p, d)
  \/ ContinueLoop(p)
  \/ CallHandler(p)
  \/ AttachReturned(p)
  \/ AttachNext(p)
  \/ ReleaseRef(p)

HandlerStep(h) ==
  \/ AddHandler(h)
  \/ CallDirective(h)
  \/ AttachToInstances(h)
  \/ RelHandler(h)
  \/ RemoveHandler(h)
  \/ RemoveHandlerNext(h)

\* A panic ends the process.
Next ==
  /\ ~panicked
  /\ \/ \E p \in Callers : CallerStep(p)
     \/ \E h \in Handlers : HandlerStep(h)
     \/ \E di \in Ids : CloseInstance(di) \/ EmptyInstance(di)

Spec == Init /\ [][Next]_vars

-----------------------------------------------------------------------------
(* Properties. *)

\* Two goroutines may at a time supply directives equivalent to d, and one of
\* these superceeds another.
Family(d) == {e \in Directives : <<d, e>> \in Equivalent}
Superceeding(d) == \E e, f \in Family(d) : <<e, f>> \in Superceeds
Contested(d) ==
  /\ Superceeding(d)
  /\ \E p, q \in Callers : p # q /\ Family(d) \cap Adds[p] # {} /\ Family(d) \cap Adds[q] # {}

\* AddDirective "de-duplicates equivalent directives": however its calls interleave,
\* a directive is not listed beside an older instance it is equivalent to that is not
\* released.  This needs that what superceeds comes from one goroutine: of two, both
\* may remove the older instance and each list its own.
NoDuplicates ==
  \A m, n \in 1..nDir :
    m < n /\ <<dirOf[Arr[n]], dirOf[Arr[m]]>> \in Equivalent /\ ~released[Arr[m]]
      => Contested(dirOf[Arr[n]])

\* c.dir is "the list of running directive instances sorted by ID": a loop that
\* superceeds goes on with the indexes of a list that others shift and append to
\* while it is unlocked, and yet never removes the wrong instance or runs past the
\* end, so the live instances and only they are listed, in order.
ListedIsLive ==
  /\ ~panicked
  /\ Listed = {di \in 1..dirID : ~released[di]}
  /\ \A m, n \in 1..nDir : m < n => Arr[m] < Arr[n]

Settled(h, di) ==
  /\ handler[h].at = "on"
  /\ \A p \in Callers : caller[p].at = "calling" => caller[p].di # di

\* AddDirective and AddHandler each list what they add before they copy the
\* other list: no handler is asked twice about an instance, and once both are
\* there it was asked, whichever came first and whatever was removed between.
AskedOnce ==
  \A h \in Handlers, di \in 1..dirID :
    /\ asked[<<h, di>>] <= 1
    /\ Settled(h, di) /\ di \in Listed => asked[<<h, di>>] = 1

=============================================================================
