----------------------------- MODULE ConfigSets -----------------------------
(***************************************************************************)
(* Config sets (controller/configset and its proto and json packages): a   *)
(* map from keys to controller configs, each with a revision.  Sets are    *)
(* merged one after the other; a set given as YAML is added to the result. *)
(***************************************************************************)
EXTENDS Naturals, Sequences, FiniteSetsExt

CONSTANTS
  MergeKeys,  \* the keys
  Revs,       \* the revisions
  Confs,      \* the configs
  MaxSets     \* bound: how many sets are merged

VARIABLES
  sets,    \* the sets that were merged
  merged   \* the result

setsVars == <<sets, merged>>

NilConfig == [rev |-> 0, conf |-> "nil"]
ControllerConfigs == [rev : Revs, conf : Confs]

\* A ConfigSet; the value of a key may be nil.
ConfigSet == UNION {[S -> ControllerConfigs \cup {NilConfig}] : S \in SUBSET MergeKeys}

-----------------------------------------------------------------------------
\* As MergeInto, but an equal revision does not replace the config.
MergeIntoOlder(out, set) ==
  LET wins(k) == set[k] # NilConfig /\ (k \in DOMAIN out => out[k].rev < set[k].rev)
      new == {k \in DOMAIN set : wins(k)} IN
  [k \in DOMAIN out \cup new |-> IF k \in new THEN set[k] ELSE out[k]]

\* One turn of MergeConfigSets and MergeConfigSetMaps: nil configs are left out,
\* and one with an older revision than that in the result.
MergeInto(out, set) ==
  LET wins(k) == set[k] # NilConfig /\ (k \in DOMAIN out => out[k].rev <= set[k].rev)
      new == {k \in DOMAIN set : wins(k)} IN
  [k \in DOMAIN out \cup new |-> IF k \in new THEN set[k] ELSE out[k]]

\* ConfigSet.Equal: both loops.
Equal(c, os) ==
  /\ \A k \in DOMAIN c : k \in DOMAIN os /\ os[k].conf = c[k].conf /\ os[k].rev = c[k].rev
  /\ \A k \in DOMAIN os : k \in DOMAIN c

MergeConfigSets(set) ==
  /\ Len(sets) < MaxSets
  /\ sets' = Append(sets, set)
  /\ merged' = MergeInto(merged, set)

Init == sets = <<>> /\ merged = [k \in {} |-> NilConfig]

Next == \E set \in ConfigSet : MergeConfigSets(set)

Spec == Init /\ [][Next]_setsVars

-----------------------------------------------------------------------------
\* The indices of the sets with a config for key k.
Having(k) == {i \in 1..Len(sets) : k \in DOMAIN sets[i] /\ sets[i][k] # NilConfig}

\* For every key the result has the config of the newest revision, of several the
\* one of the last set, and no key without a config.  Equal finds
\* the result equal to a set exactly if it is the same.
MergeIsNewest ==
  /\ DOMAIN merged = {k \in MergeKeys : Having(k) # {}}
  /\ \A k \in DOMAIN merged :
       LET newest == Max({sets[i][k].rev : i \in Having(k)}) IN
       merged[k] = sets[Max({i \in Having(k) : sets[i][k].rev = newest})][k]
  /\ \A i \in 1..Len(sets) :
       (\A k \in DOMAIN sets[i] : sets[i][k] # NilConfig)
       => (Equal(merged, sets[i]) <=> merged = sets[i])

=============================================================================
