----------------------------- MODULE ModelRegistry -----------------------------
(* The backtest's outcome and the model registry: the champion rule over the  *)
(* comparisons of a backtest, the registration of its versions horizon by     *)
(* horizon, the aliases `incumbent` and `champion` that decide which version  *)
(* serves a horizon, and a run that dies between two calls to the registry.   *)
(*                                                                            *)
(* A backtest's numbers (Brier scores, AUCs, bootstrap intervals) are left    *)
(* out: what a comparison found is "short" (too few events to judge),         *)
(* "fails" or "passes", over every horizon and run of the rule.               *)
EXTENDS Integers, FiniteSets, Sequences

CONSTANTS
    HorizonCount,   \* the horizons of the backtest config, in its order
    Challengers,    \* the generation-3 models the rule compares
    FeatureSets,    \* feature set versions a config may name, 1 .. FeatureSets
    MaxBacktests,   \* bound: backtests started
    MaxCrashes      \* bound: backtests that die while they register

RegistryAssumption ==
    /\ HorizonCount \in Nat \ {0}
    /\ FeatureSets \in Nat \ {0}
    /\ MaxBacktests \in Nat
    /\ MaxCrashes \in Nat
    /\ Challengers \intersect {"logistic_regression", "none"} = {}

ASSUME RegistryAssumption

VARIABLES
    held,       \* the feature set feature_store was built with
    aliases,    \* per horizon, the version under each alias, or None
    versions,   \* per horizon, how many versions were registered
    run,        \* the backtest that is registering its versions, or None
    backtests,  \* backtests started so far
    crashes,    \* of these, the ones that died while registering
    verdict     \* the last weighted verdict that was registered in full, or None

vars == <<held, aliases, versions, run, backtests, crashes, verdict>>

None == [none |-> TRUE]
Nobody == "none"
Horizon == 1 .. HorizonCount
Incumbent == "logistic_regression"
Models == Challengers \union {Incumbent}
Basis == {"unweighted", "weighted"}
Aliases == {"incumbent", "champion"}
Version == [number : Nat, model : Models, basis : Basis, features : 1 .. FeatureSets,
            backtest : 1 .. MaxBacktests]

----------------------------------------------------------------------------
(* The champion rule.                                                         *)

\* The sets of comparisons a challenger can have had, over horizons and runs.
Comparisons == (SUBSET {"short", "fails", "passes"}) \ {{}}

\* A challenger's verdict: one comparison too short leaves it not evaluable,
\* one that fails fails it.
Verdict(found) ==
    IF "short" \in found THEN "not evaluable"
    ELSE IF "fails" \in found THEN "fails" ELSE "passes"

\* The challengers that pass everywhere. The lowest mean Brier score decides
\* among them, here any.
Passing(compared) == {c \in Challengers : Verdict(compared[c]) = "passes"}
Promotable(compared) ==
    IF Passing(compared) = {} THEN {Nobody} ELSE Passing(compared)

\* The (horizon, model) pairs with a fold that may speak for the pool, whose
\* fitted model can be registered. A comparison that could be judged had folds
\* of both models.
Speaks(compared, latest) ==
    \A c \in Challengers : \A h \in Horizon :
        "short" \notin compared[c] => {<<h, c>>, <<h, Incumbent>>} \subseteq latest

----------------------------------------------------------------------------
(* The registry.                                                              *)

Provisional(v) == v.basis = "unweighted"
HasChampion(h) == aliases[h].champion # None
FinalChampion(h) == HasChampion(h) /\ aliases[h].champion.basis = "weighted"

\* The version that serves a horizon: `champion`, else `incumbent`, else none.
Served(h) ==
    IF HasChampion(h) THEN aliases[h].champion ELSE aliases[h].incumbent

Init ==
    /\ held = 1
    /\ aliases = [h \in Horizon |-> [a \in Aliases |-> None]]
    /\ versions = [h \in Horizon |-> 0]
    /\ run = None
    /\ backtests = 0
    /\ crashes = 0
    /\ verdict = None

\* What is left to do for a horizon: a version per role, then the withdrawal.
Roles(promoted) ==
    IF promoted = Nobody THEN <<"incumbent", "withdraw">>
    ELSE <<"incumbent", "champion", "withdraw">>

\* A backtest runs to its verdict. It is refused unless feature_store holds the
\* feature set its config names.
Backtest ==
    /\ run = None
    /\ backtests < MaxBacktests
    /\ backtests' = backtests + 1
    /\ \E basis \in Basis, compared \in [Challengers -> Comparisons],
          latest \in SUBSET (Horizon \X Models) :
         /\ Speaks(compared, latest)
         /\ \E promoted \in Promotable(compared) :
              run' = [basis |-> basis, promoted |-> promoted, latest |-> latest,
                      features |-> held, horizon |-> 1, roles |-> Roles(promoted),
                      made |-> FALSE]
         /\ verdict' = IF basis = "weighted" THEN None ELSE verdict
    /\ UNCHANGED <<held, aliases, versions, crashes>>

\* The model of the role at hand, and whether the role is passed over: a
\* provisional verdict leaves a final champion, and a model without a speaking
\* fold has nothing to register.
RoleModel == IF Head(run.roles) = "champion" THEN run.promoted ELSE Incumbent
PassedOver ==
    \/ Head(run.roles) = "champion" /\ Provisional(run) /\ FinalChampion(run.horizon)
    \/ <<run.horizon, RoleModel>> \notin run.latest

\* The next role of this horizon, the first of the next, or the end.
Onwards(r) ==
    IF Len(r.roles) > 1 THEN [r EXCEPT !.roles = Tail(@), !.made = FALSE]
    ELSE IF r.horizon < HorizonCount
         THEN [r EXCEPT !.horizon = @ + 1, !.roles = Roles(r.promoted), !.made = FALSE]
         ELSE None

\* The backtest is over when it leaves the last horizon.
Finish ==
    /\ run' = Onwards(run)
    /\ verdict' = IF Onwards(run) = None /\ ~Provisional(run)
                  THEN [promoted |-> run.promoted, backtest |-> backtests]
                  ELSE verdict

\* register_models, one role: nothing to register for it.
PassOver ==
    /\ run # None
    /\ Head(run.roles) # "withdraw"
    /\ PassedOver
    /\ Finish
    /\ UNCHANGED <<held, aliases, versions, backtests, crashes>>

\* The version is created first ...
CreateVersion ==
    /\ run # None
    /\ Head(run.roles) # "withdraw"
    /\ ~PassedOver
    /\ ~run.made
    /\ versions' = [versions EXCEPT ![run.horizon] = @ + 1]
    /\ run' = [run EXCEPT !.made = TRUE]
    /\ UNCHANGED <<held, aliases, backtests, crashes, verdict>>

\* ... and its alias set by a second call.
SetAlias ==
    /\ run # None
    /\ run.made
    /\ aliases' = [aliases EXCEPT ![run.horizon][Head(run.roles)] =
                     [number |-> versions[run.horizon], model |-> RoleModel,
                      basis |-> run.basis, features |-> run.features,
                      backtest |-> backtests]]
    /\ Finish
    /\ UNCHANGED <<held, versions, backtests, crashes>>

\* (a mistake: the champion of an earlier weighted verdict stays)
WithdrawLate ==
    /\ run # None
    /\ Head(run.roles) = "withdraw"
    /\ aliases' = IF ~Provisional(run) /\ run.promoted = Nobody
                     /\ HasChampion(run.horizon) /\ ~FinalChampion(run.horizon)
                  THEN [aliases EXCEPT ![run.horizon].champion = None]
                  ELSE aliases
    /\ Finish
    /\ UNCHANGED <<held, versions, backtests, crashes>>

\* A weighted verdict that promotes nothing withdraws the horizon's champion.
Withdraw ==
    /\ run # None
    /\ Head(run.roles) = "withdraw"
    /\ aliases' = IF ~Provisional(run) /\ run.promoted = Nobody /\ HasChampion(run.horizon)
                  THEN [aliases EXCEPT ![run.horizon].champion = None]
                  ELSE aliases
    /\ Finish
    /\ UNCHANGED <<held, versions, backtests, crashes>>

\* The run dies between two calls; what it registered stays.
Crash ==
    /\ run # None
    /\ crashes < MaxCrashes
    /\ crashes' = crashes + 1
    /\ run' = None
    /\ UNCHANGED <<held, aliases, versions, backtests, verdict>>

\* feature_store is rebuilt for another feature set version.
BuildFeatureSet ==
    /\ run = None
    /\ held < FeatureSets
    /\ held' = held + 1
    /\ UNCHANGED <<aliases, versions, run, backtests, crashes, verdict>>

Register == PassOver \/ CreateVersion \/ SetAlias \/ Withdraw
Next == Backtest \/ Register \/ Crash \/ BuildFeatureSet
Spec == Init /\ [][Next]_vars

----------------------------------------------------------------------------

\* From the moment a weighted backtest has registered its last horizon to the
\* start of the next weighted one, every horizon's champion is that verdict's:
\* a version of the model it promoted, or else no final champion. Nothing an
\* earlier run left behind, and no unweighted run in between, complete or dead
\* half way, changes that (registry.py, register_models).
VerdictGoverns ==
    verdict # None =>
      \A h \in Horizon :
        IF verdict.promoted = Nobody THEN ~FinalChampion(h)
        ELSE /\ HasChampion(h)
             /\ aliases[h].champion.model = verdict.promoted
             /\ aliases[h].champion.backtest = verdict.backtest
================================================================================
