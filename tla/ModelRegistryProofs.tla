-------------------------- MODULE ModelRegistryProofs --------------------------
(*************************************************************************)
(* For any number of horizons, challengers and backtests: a registered   *)
(* weighted verdict governs until the next weighted backtest starts.     *)
(*                                                                       *)
(* While a weighted backtest registers there is no verdict to keep, and  *)
(* the horizons behind it are already on the new one (RegisteredSoFar);  *)
(* a champion of a weighted verdict is passed over by every unweighted   *)
(* run, since a role whose version is made was not passed over           *)
(* (MadeIsDue) and nothing changes the aliases between the two calls.    *)
(*************************************************************************)
EXTENDS ModelRegistry, TLAPS

Remaining == {<<"incumbent", "champion", "withdraw">>, <<"incumbent", "withdraw">>,
              <<"champion", "withdraw">>, <<"withdraw">>}
Outcomes == Challengers \union {Nobody}
Registering ==
    [basis : Basis, promoted : Outcomes, latest : SUBSET (Horizon \X Models),
     features : 1 .. FeatureSets, horizon : Horizon, roles : Remaining, made : BOOLEAN]

TypeOK ==
    /\ held \in 1 .. FeatureSets
    /\ aliases \in [Horizon -> [Aliases -> Version \union {None}]]
    /\ versions \in [Horizon -> Nat]
    /\ run \in Registering \union {None}
    /\ backtests \in 0 .. MaxBacktests
    /\ run # None => backtests # 0
    /\ crashes \in 0 .. MaxCrashes
    /\ verdict \in [promoted : Outcomes, backtest : 1 .. MaxBacktests] \union {None}

\* Horizon h is on the verdict `promoted` of weighted backtest n.
Governed(h, promoted, n) ==
    IF promoted = Nobody THEN ~FinalChampion(h)
    ELSE /\ HasChampion(h)
         /\ aliases[h].champion.model = promoted
         /\ aliases[h].champion.backtest = n
         /\ aliases[h].champion.basis = "weighted"

\* The verdict governs with a champion no unweighted run may replace.
VerdictKept ==
    verdict # None => \A h \in Horizon : Governed(h, verdict.promoted, verdict.backtest)

\* What the running backtest promotes has a version to register at every horizon.
PromotedSpeaks ==
    run # None /\ run.promoted # Nobody => \A h \in Horizon : <<h, run.promoted>> \in run.latest

\* The roles left are the last ones the verdict has.
RolesLeft(promoted) ==
    IF promoted = Nobody THEN {<<"incumbent", "withdraw">>, <<"withdraw">>}
    ELSE {<<"incumbent", "champion", "withdraw">>, <<"champion", "withdraw">>, <<"withdraw">>}
RolesAreTheVerdicts == run # None => run.roles \in RolesLeft(run.promoted)

\* A version is made for a role that is not passed over.
MadeIsDue == run # None /\ run.made => Head(run.roles) # "withdraw" /\ ~PassedOver

\* The horizons a weighted run has left are on its verdict, and the one it is at has its
\* champion once only the withdrawal is left.
RegisteredSoFar ==
    run # None /\ ~Provisional(run) =>
        /\ verdict = None
        /\ \A h \in Horizon : h < run.horizon => Governed(h, run.promoted, backtests)
        /\ run.promoted # Nobody /\ run.roles = <<"withdraw">> =>
              Governed(run.horizon, run.promoted, backtests)

IInv ==
    /\ TypeOK /\ VerdictKept /\ PromotedSpeaks /\ RolesAreTheVerdicts /\ MadeIsDue
    /\ RegisteredSoFar

----------------------------------------------------------------------------
\* A version, a running backtest or a verdict is never None.
LEMMA Somebody ==
    /\ None \notin Version
    /\ None \notin Registering
    /\ \A o \in Outcomes, n \in Nat : [promoted |-> o, backtest |-> n] # None
<1>1. DOMAIN None = {"none"}
  BY DEF None
<1>2. \A v \in Version : DOMAIN v # {"none"}
  BY DEF Version
<1>3. \A r \in Registering : DOMAIN r # {"none"}
  BY DEF Registering
<1>4. \A o \in Outcomes, n \in Nat : DOMAIN [promoted |-> o, backtest |-> n] # {"none"}
  OBVIOUS
<1> QED
  BY <1>1, <1>2, <1>3, <1>4

\* The role at hand and what is left after it.
LEMMA RoleOrder ==
    ASSUME NEW promoted \in Outcomes, NEW roles \in RolesLeft(promoted)
    PROVE  /\ roles \in Remaining
           /\ Head(roles) \in {"incumbent", "champion", "withdraw"}
           /\ Head(roles) = "champion" => promoted # Nobody
           /\ Head(roles) = "withdraw" => Len(roles) = 1 /\ roles = <<"withdraw">>
           /\ Head(roles) # "withdraw" =>
                 /\ Len(roles) > 1
                 /\ Tail(roles) \in RolesLeft(promoted)
                 /\ Tail(roles) = <<"withdraw">> /\ promoted # Nobody => Head(roles) = "champion"
<1>1. CASE roles = <<"incumbent", "champion", "withdraw">> /\ promoted # Nobody
  <2>1. Tail(roles) = <<"champion", "withdraw">> /\ Head(roles) = "incumbent" /\ Len(roles) = 3
    BY <1>1
  <2>2. <<"champion", "withdraw">> # <<"withdraw">>
    OBVIOUS
  <2> QED
    BY <1>1, <2>1, <2>2 DEF RolesLeft, Remaining
<1>2. CASE roles = <<"champion", "withdraw">> /\ promoted # Nobody
  <2>1. Tail(roles) = <<"withdraw">> /\ Head(roles) = "champion" /\ Len(roles) = 2
    BY <1>2
  <2> QED
    BY <1>2, <2>1 DEF RolesLeft, Remaining
<1>3. CASE roles = <<"incumbent", "withdraw">> /\ promoted = Nobody
  <2>1. Tail(roles) = <<"withdraw">> /\ Head(roles) = "incumbent" /\ Len(roles) = 2
    BY <1>3
  <2> QED
    BY <1>3, <2>1 DEF RolesLeft, Remaining
<1>4. CASE roles = <<"withdraw">>
  <2>1. Head(roles) = "withdraw" /\ Len(roles) = 1
    BY <1>4
  <2> QED
    BY <1>4, <2>1 DEF RolesLeft, Remaining
<1> QED
  BY <1>1, <1>2, <1>3, <1>4 DEF RolesLeft

\* A horizon starts with every role of the verdict.
LEMMA RolesStart ==
    ASSUME NEW promoted \in Outcomes
    PROVE  /\ Roles(promoted) \in RolesLeft(promoted)
           /\ Roles(promoted) # <<"withdraw">>
<1>1. Len(<<"withdraw">>) = 1 /\ Len(Roles(promoted)) # 1
  BY DEF Roles
<1> QED
  BY <1>1 DEF Roles, RolesLeft

\* The run at hand, unfolded.
LEMMA RunFields ==
    ASSUME IInv, run # None
    PROVE  /\ run \in Registering
           /\ run.basis \in Basis /\ run.promoted \in Outcomes
           /\ run.latest \in SUBSET (Horizon \X Models)
           /\ run.horizon \in Horizon /\ run.roles \in RolesLeft(run.promoted)
           /\ run.made \in BOOLEAN /\ run.features \in 1 .. FeatureSets
           /\ backtests \in 1 .. MaxBacktests
<1>1. run \in Registering
  BY DEF IInv, TypeOK
<1>2. backtests \in 1 .. MaxBacktests
  BY RegistryAssumption DEF IInv, TypeOK, RegistryAssumption
<1> QED
  BY <1>1, <1>2 DEF Registering, IInv, RolesAreTheVerdicts

\* A role but the last leads to the next role of its horizon, and the verdict stands.
LEMMA NextRole ==
    ASSUME IInv, run # None, Head(run.roles) # "withdraw", Finish
    PROVE  /\ run' = [run EXCEPT !.roles = Tail(run.roles), !.made = FALSE]
           /\ run' \in Registering
           /\ verdict' = verdict
<1>1. Len(run.roles) > 1 /\ Tail(run.roles) \in RolesLeft(run.promoted)
  BY RunFields, RoleOrder
<1>2. run' = [run EXCEPT !.roles = Tail(run.roles), !.made = FALSE]
  BY <1>1 DEF Finish, Onwards
<1>3. Tail(run.roles) \in Remaining
  BY <1>1, RunFields, RoleOrder
<1>4. run' \in Registering
  BY <1>2, <1>3, RunFields DEF Registering
<1>5. Onwards(run) = run'
  BY DEF Finish
<1> QED
  BY <1>2, <1>4, <1>5, Somebody DEF Finish

\* The withdrawal leads to the next horizon, or ends the run with its verdict.
LEMMA NextHorizon ==
    ASSUME IInv, run # None, Head(run.roles) = "withdraw", Finish
    PROVE  \/ /\ run.horizon < HorizonCount
              /\ run' = [run EXCEPT !.horizon = run.horizon + 1, !.roles = Roles(run.promoted),
                                    !.made = FALSE]
              /\ run' \in Registering
              /\ verdict' = verdict
           \/ /\ run.horizon = HorizonCount /\ run' = None
              /\ verdict' = IF Provisional(run) THEN verdict
                            ELSE [promoted |-> run.promoted, backtest |-> backtests]
<1>1. ~(Len(run.roles) > 1)
  <2>1. Len(run.roles) = 1
    BY RunFields, RoleOrder
  <2> QED
    BY <2>1
<1>2. run.horizon \in 1 .. HorizonCount /\ HorizonCount \in Nat
  BY RunFields, RegistryAssumption DEF Horizon, RegistryAssumption
<1>3. CASE run.horizon < HorizonCount
  <2>1. run' = [run EXCEPT !.horizon = run.horizon + 1, !.roles = Roles(run.promoted),
                           !.made = FALSE]
    BY <1>1, <1>3 DEF Finish, Onwards
  <2>2. Roles(run.promoted) \in Remaining
    BY RunFields, RolesStart, RoleOrder
  <2>3. run.horizon + 1 \in Horizon
    BY <1>2, <1>3 DEF Horizon
  <2>4. run' \in Registering
    BY <2>1, <2>2, <2>3, RunFields DEF Registering
  <2>5. Onwards(run) = run'
    BY DEF Finish
  <2> QED
    BY <1>3, <2>1, <2>4, <2>5, Somebody DEF Finish
<1>4. CASE ~(run.horizon < HorizonCount)
  <2>1. Onwards(run) = None
    BY <1>1, <1>4 DEF Onwards
  <2> QED
    BY <1>2, <1>4, <2>1 DEF Finish
<1> QED
  BY <1>3, <1>4

\* A challenger that passes everywhere has a version to register at every horizon.
LEMMA PassingSpeaks ==
    ASSUME NEW compared \in [Challengers -> Comparisons], NEW latest,
           Speaks(compared, latest), NEW promoted \in Promotable(compared)
    PROVE  /\ promoted \in Outcomes
           /\ promoted # Nobody => \A h \in Horizon : <<h, promoted>> \in latest
<1>1. ASSUME promoted # Nobody
      PROVE  promoted \in Challengers /\ "short" \notin compared[promoted]
  <2>1. promoted \in Passing(compared)
    BY <1>1 DEF Promotable
  <2>2. Verdict(compared[promoted]) = "passes" /\ promoted \in Challengers
    BY <2>1 DEF Passing
  <2> QED
    BY <2>2 DEF Verdict
<1> QED
  BY <1>1 DEF Speaks, Outcomes

--------------------------------------------------------------------------------
\* The initial states satisfy the inductive invariant.
LEMMA InitIInv == Init => IInv
BY RegistryAssumption
   DEF Init, IInv, TypeOK, VerdictKept, PromotedSpeaks, RolesAreTheVerdicts, MadeIsDue,
       RegisteredSoFar, RegistryAssumption

\* Every step keeps the state well typed.
LEMMA NextTypeOK == ASSUME IInv, [Next]_vars PROVE TypeOK'
<1> USE RegistryAssumption DEF RegistryAssumption
<1>0. TypeOK
  BY DEF IInv
<1>1. CASE Backtest
  <2>1. PICK basis \in Basis, compared \in [Challengers -> Comparisons],
             latest \in SUBSET (Horizon \X Models), promoted \in Outcomes :
          /\ Speaks(compared, latest) /\ promoted \in Promotable(compared)
          /\ run' = [basis |-> basis, promoted |-> promoted, latest |-> latest,
                     features |-> held, horizon |-> 1, roles |-> Roles(promoted),
                     made |-> FALSE]
    BY <1>1 DEF Backtest, Outcomes, Promotable, Passing
  <2>2. promoted \in Outcomes /\ Roles(promoted) \in Remaining
    BY <2>1, PassingSpeaks, RolesStart, RoleOrder
  <2>3. run' \in Registering
    BY <1>0, <2>1, <2>2 DEF Registering, TypeOK, Horizon
  <2>4. verdict' \in {verdict, None} /\ backtests' = backtests + 1 /\ backtests < MaxBacktests
        /\ UNCHANGED <<held, aliases, versions, crashes>>
    BY <1>1 DEF Backtest
  <2> QED
    BY <1>0, <2>3, <2>4 DEF TypeOK
<1>2. CASE PassOver
  <2>1. verdict' = verdict /\ run' \in Registering
    BY <1>2, NextRole DEF PassOver
  <2> QED
    BY <1>0, <1>2, <2>1 DEF PassOver, TypeOK
<1>3. CASE CreateVersion
  <2>1. run' \in Registering
    BY <1>3, RunFields DEF CreateVersion, Registering
  <2>2. versions' \in [Horizon -> Nat]
    BY <1>0, <1>3, RunFields DEF CreateVersion, TypeOK
  <2> QED
    BY <1>0, <1>3, <2>1, <2>2 DEF CreateVersion, TypeOK
<1>4. CASE SetAlias
  <2>1. run # None /\ run.made /\ Head(run.roles) # "withdraw" /\ Finish
        /\ UNCHANGED <<held, versions, backtests, crashes>>
    BY <1>4 DEF SetAlias, IInv, MadeIsDue
  <2>2. verdict' = verdict /\ run' \in Registering
    BY <2>1, NextRole
  <2>3. Head(run.roles) \in Aliases /\ RoleModel \in Models
    <3>1. Head(run.roles) \in Aliases
      BY <2>1, RunFields, RoleOrder DEF Aliases
    <3>2. Head(run.roles) = "champion" => run.promoted # Nobody
      BY RunFields, RoleOrder, <2>1
    <3> QED
      BY <2>1, <3>1, <3>2, RunFields DEF RoleModel, Models, Outcomes
  <2>4. [number |-> versions[run.horizon], model |-> RoleModel, basis |-> run.basis,
         features |-> run.features, backtest |-> backtests] \in Version
    BY <1>0, <2>1, <2>3, RunFields DEF Version, TypeOK
  <2>5. aliases' \in [Horizon -> [Aliases -> Version \union {None}]]
    BY <1>0, <1>4, <2>1, <2>3, <2>4, RunFields DEF SetAlias, TypeOK
  <2> QED
    BY <1>0, <2>1, <2>2, <2>5 DEF TypeOK
<1>5. CASE Withdraw
  <2>1. aliases' \in [Horizon -> [Aliases -> Version \union {None}]]
    BY <1>0, <1>5, RunFields DEF Withdraw, TypeOK, Aliases
  <2>2. /\ run' \in Registering \union {None}
        /\ verdict' \in [promoted : Outcomes, backtest : 1 .. MaxBacktests] \union {None}
    BY <1>0, <1>5, NextHorizon, RunFields DEF Withdraw, TypeOK
  <2>3. UNCHANGED <<held, versions, backtests, crashes>> /\ run # None
    BY <1>5 DEF Withdraw
  <2> QED
    BY <1>0, <2>1, <2>2, <2>3 DEF TypeOK
<1>6. CASE Crash
  BY <1>0, <1>6 DEF Crash, TypeOK
<1>7. CASE BuildFeatureSet
  BY <1>0, <1>7 DEF BuildFeatureSet, TypeOK
<1>8. CASE UNCHANGED vars
  BY <1>0, <1>8 DEF vars, TypeOK
<1> QED
  BY <1>1, <1>2, <1>3, <1>4, <1>5, <1>6, <1>7, <1>8 DEF Next, Register

\* What the invariant says besides the types.
Rest == VerdictKept /\ PromotedSpeaks /\ RolesAreTheVerdicts /\ MadeIsDue /\ RegisteredSoFar

\* A started backtest has all its roles before it, and a weighted one no verdict to keep.
LEMMA BacktestRest == ASSUME IInv, Backtest PROVE Rest'
<1>1. PICK basis \in Basis, compared \in [Challengers -> Comparisons],
           latest \in SUBSET (Horizon \X Models), promoted \in Outcomes :
        /\ Speaks(compared, latest) /\ promoted \in Promotable(compared)
        /\ run' = [basis |-> basis, promoted |-> promoted, latest |-> latest,
                   features |-> held, horizon |-> 1, roles |-> Roles(promoted),
                   made |-> FALSE]
        /\ verdict' = IF basis = "weighted" THEN None ELSE verdict
  BY DEF Backtest, Outcomes, Promotable, Passing
<1>2. aliases' = aliases
  BY DEF Backtest
<1>3. /\ promoted \in Outcomes
      /\ promoted # Nobody => \A h \in Horizon : <<h, promoted>> \in latest
      /\ Roles(promoted) \in RolesLeft(promoted) /\ Roles(promoted) # <<"withdraw">>
  BY <1>1, PassingSpeaks, RolesStart
<1>4. VerdictKept'
  BY <1>1, <1>2 DEF IInv, VerdictKept, Governed, FinalChampion, HasChampion
<1>5. PromotedSpeaks' /\ RolesAreTheVerdicts' /\ MadeIsDue'
  BY <1>1, <1>3 DEF PromotedSpeaks, RolesAreTheVerdicts, MadeIsDue
<1>6. RegisteredSoFar'
  <2>1. \A h \in Horizon : ~(h < run'.horizon)
    BY <1>1 DEF Horizon
  <2>2. run'.roles # <<"withdraw">>
    BY <1>1, <1>3
  <2>3. ~Provisional(run)' => verdict' = None
    BY <1>1 DEF Provisional, Basis
  <2> QED
    BY <2>1, <2>2, <2>3 DEF RegisteredSoFar
<1> QED
  BY <1>4, <1>5, <1>6 DEF Rest

\* Nothing is registered for a role that is passed over; the champion of a weighted
\* verdict never is.
LEMMA PassOverRest == ASSUME IInv, PassOver PROVE Rest'
<1>1. /\ run # None /\ Head(run.roles) # "withdraw" /\ PassedOver /\ Finish
      /\ aliases' = aliases /\ backtests' = backtests
  BY DEF PassOver
<1>2. /\ run' = [run EXCEPT !.roles = Tail(run.roles), !.made = FALSE] /\ verdict' = verdict
  BY <1>1, NextRole
<1>3. run' # None /\ run \in Registering
  BY <1>1, NextRole, Somebody, RunFields
<1>4. /\ run'.basis = run.basis /\ run'.promoted = run.promoted /\ run'.latest = run.latest
      /\ run'.horizon = run.horizon /\ run'.roles = Tail(run.roles) /\ run'.made = FALSE
  BY <1>2, <1>3 DEF Registering
<1>5. VerdictKept'
  BY <1>1, <1>2 DEF IInv, VerdictKept, Governed, FinalChampion, HasChampion
<1>6. PromotedSpeaks'
  BY <1>1, <1>4 DEF IInv, PromotedSpeaks
<1>7. RolesAreTheVerdicts'
  BY <1>1, <1>4, RunFields, RoleOrder DEF RolesAreTheVerdicts
<1>8. MadeIsDue'
  BY <1>4 DEF MadeIsDue
<1>9. RegisteredSoFar'
  <2> SUFFICES ASSUME ~Provisional(run)
               PROVE  /\ verdict' = None
                      /\ \A h \in Horizon : h < run'.horizon => Governed(h, run.promoted, backtests)'
                      /\ run'.promoted # Nobody /\ run'.roles = <<"withdraw">> =>
                            Governed(run.horizon, run.promoted, backtests)'
    BY <1>4 DEF RegisteredSoFar, Provisional
  <2>1. /\ verdict = None
        /\ \A h \in Horizon : h < run.horizon => Governed(h, run.promoted, backtests)
    BY <1>1 DEF IInv, RegisteredSoFar
  <2>2. run.promoted # Nobody => Head(run.roles) # "champion"
    BY <1>1, RunFields DEF IInv, PromotedSpeaks, PassedOver, RoleModel
  <2>3. run.promoted # Nobody => Tail(run.roles) # <<"withdraw">>
    BY <1>1, <2>2, RunFields, RoleOrder
  <2> QED
    BY <1>1, <1>2, <1>4, <2>1, <2>3 DEF Governed, FinalChampion, HasChampion
<1> QED
  BY <1>5, <1>6, <1>7, <1>8, <1>9 DEF Rest

\* The version is made for the role at hand, which stays due.
LEMMA CreateVersionRest == ASSUME IInv, CreateVersion PROVE Rest'
<1>1. /\ run # None /\ Head(run.roles) # "withdraw" /\ ~PassedOver
      /\ run' = [run EXCEPT !.made = TRUE]
      /\ aliases' = aliases /\ backtests' = backtests /\ verdict' = verdict
  BY DEF CreateVersion
<1>2. /\ run'.basis = run.basis /\ run'.promoted = run.promoted /\ run'.latest = run.latest
      /\ run'.horizon = run.horizon /\ run'.roles = run.roles
  BY <1>1, RunFields DEF Registering
<1>3. VerdictKept'
  BY <1>1 DEF IInv, VerdictKept, Governed, FinalChampion, HasChampion
<1>4. PromotedSpeaks' /\ RolesAreTheVerdicts'
  BY <1>1, <1>2 DEF IInv, PromotedSpeaks, RolesAreTheVerdicts
<1>5. MadeIsDue'
  BY <1>1, <1>2 DEF MadeIsDue, PassedOver, RoleModel, Provisional, FinalChampion, HasChampion
<1>6. RegisteredSoFar'
  BY <1>1, <1>2 DEF IInv, RegisteredSoFar, Provisional, Governed, FinalChampion, HasChampion
<1> QED
  BY <1>3, <1>4, <1>5, <1>6 DEF Rest

\* The alias moves at the run's horizon only: to the weighted verdict's model, or, for an
\* unweighted run, where no final champion stood.
LEMMA SetAliasRest == ASSUME IInv, SetAlias PROVE Rest'
<1> DEFINE made == [number |-> versions[run.horizon], model |-> RoleModel,
                    basis |-> run.basis, features |-> run.features, backtest |-> backtests]
<1>1. /\ run # None /\ run.made /\ Head(run.roles) # "withdraw" /\ ~PassedOver /\ Finish
      /\ aliases' = [aliases EXCEPT ![run.horizon][Head(run.roles)] = made]
      /\ backtests' = backtests
  BY DEF SetAlias, IInv, MadeIsDue
<1>2. /\ run' = [run EXCEPT !.roles = Tail(run.roles), !.made = FALSE] /\ verdict' = verdict
      /\ run' # None
  BY <1>1, NextRole, Somebody
<1>3. /\ run'.basis = run.basis /\ run'.promoted = run.promoted /\ run'.latest = run.latest
      /\ run'.horizon = run.horizon /\ run'.roles = Tail(run.roles) /\ run'.made = FALSE
  BY <1>1, <1>2, RunFields DEF Registering
<1>4. ASSUME NEW h \in Horizon, h # run.horizon \/ Head(run.roles) # "champion"
      PROVE  aliases'[h].champion = aliases[h].champion
  BY <1>1, <1>4, RunFields, RoleOrder DEF IInv, TypeOK, Aliases
<1>5. ASSUME Head(run.roles) = "champion"
      PROVE  /\ aliases'[run.horizon].champion = made /\ made # None
             /\ made.model = run.promoted /\ made.basis = run.basis /\ made.backtest = backtests
             /\ run.promoted # Nobody
  <2>1. run.promoted # Nobody
    BY <1>1, <1>5, RunFields, RoleOrder
  <2>2. DOMAIN made # DOMAIN None
    BY DEF None
  <2>3. made # None
    BY <2>2
  <2>4. made.model = run.promoted /\ made.basis = run.basis /\ made.backtest = backtests
    BY <1>5 DEF RoleModel
  <2> HIDE DEF made
  <2>5. aliases'[run.horizon].champion = made
    BY <1>1, <1>5, RunFields DEF IInv, TypeOK, Aliases
  <2> QED
    BY <2>1, <2>3, <2>4, <2>5
<1>6. ASSUME NEW h \in Horizon, NEW promoted, NEW n, Governed(h, promoted, n),
             h # run.horizon \/ Head(run.roles) # "champion"
      PROVE  IF promoted = Nobody THEN ~FinalChampion(h)'
             ELSE /\ HasChampion(h)' /\ aliases'[h].champion.model = promoted
                  /\ aliases'[h].champion.backtest = n /\ aliases'[h].champion.basis = "weighted"
  BY <1>4, <1>6 DEF Governed, FinalChampion, HasChampion
<1> HIDE DEF made
<1>7. VerdictKept'
  <2> SUFFICES ASSUME verdict # None, NEW h \in Horizon
               PROVE  Governed(h, verdict.promoted, verdict.backtest)'
    BY <1>2 DEF VerdictKept
  <2>1. Governed(h, verdict.promoted, verdict.backtest)
    BY DEF IInv, VerdictKept
  <2>2. CASE h # run.horizon \/ Head(run.roles) # "champion"
    BY <1>2, <1>6, <2>1, <2>2 DEF Governed
  <2>3. CASE h = run.horizon /\ Head(run.roles) = "champion"
    <3>1. Provisional(run)
      BY <1>1 DEF IInv, RegisteredSoFar
    <3>2. ~FinalChampion(h)
      BY <1>1, <2>3, <3>1 DEF PassedOver
    <3>3. verdict.promoted = Nobody
      BY <2>1, <3>2 DEF Governed, FinalChampion
    <3>4. ~FinalChampion(h)'
      BY <1>5, <2>3, <3>1 DEF FinalChampion, Provisional
    <3> QED
      BY <1>2, <3>3, <3>4 DEF Governed
  <2> QED
    BY <2>2, <2>3
<1>8. PromotedSpeaks'
  BY <1>1, <1>3 DEF IInv, PromotedSpeaks
<1>9. RolesAreTheVerdicts'
  BY <1>1, <1>3, RunFields, RoleOrder DEF RolesAreTheVerdicts
<1>10. MadeIsDue'
  BY <1>3 DEF MadeIsDue
<1>11. RegisteredSoFar'
  <2> SUFFICES ASSUME ~Provisional(run)
               PROVE  /\ verdict' = None
                      /\ \A h \in Horizon : h < run'.horizon => Governed(h, run.promoted, backtests)'
                      /\ run'.promoted # Nobody /\ run'.roles = <<"withdraw">> =>
                            Governed(run.horizon, run.promoted, backtests)'
    BY <1>3 DEF RegisteredSoFar, Provisional
  <2>1. /\ verdict = None
        /\ \A h \in Horizon : h < run.horizon => Governed(h, run.promoted, backtests)
    BY <1>1 DEF IInv, RegisteredSoFar
  <2>2. \A h \in Horizon : h < run.horizon => h # run.horizon
    BY DEF Horizon
  <2>3. \A h \in Horizon : h < run'.horizon => Governed(h, run.promoted, backtests)'
    BY <1>1, <1>3, <1>6, <2>1, <2>2 DEF Governed
  <2>4. ASSUME run.promoted # Nobody, Tail(run.roles) = <<"withdraw">>
        PROVE  Governed(run.horizon, run.promoted, backtests)'
    <3>1. Head(run.roles) = "champion"
      BY <1>1, <2>4, RunFields, RoleOrder
    <3>2. run.basis = "weighted"
      BY <1>1, RunFields DEF Provisional, Basis
    <3> QED
      BY <1>1, <1>3, <1>5, <2>4, <3>1, <3>2 DEF Governed, HasChampion
  <2> QED
    BY <1>2, <1>3, <2>1, <2>3, <2>4
<1> QED
  BY <1>7, <1>8, <1>9, <1>10, <1>11 DEF Rest

\* A weighted verdict that promotes nothing leaves no champion at the horizon it withdraws,
\* and becomes the verdict when that horizon is the last.
LEMMA WithdrawRest == ASSUME IInv, Withdraw PROVE Rest'
<1>1. /\ run # None /\ Head(run.roles) = "withdraw" /\ Finish /\ backtests' = backtests
      /\ aliases' = IF ~Provisional(run) /\ run.promoted = Nobody /\ HasChampion(run.horizon)
                    THEN [aliases EXCEPT ![run.horizon].champion = None] ELSE aliases
  BY DEF Withdraw
<1>2. \/ /\ run.horizon < HorizonCount
         /\ run' = [run EXCEPT !.horizon = run.horizon + 1, !.roles = Roles(run.promoted),
                               !.made = FALSE]
         /\ run' # None
         /\ verdict' = verdict
      \/ /\ run.horizon = HorizonCount /\ run' = None
         /\ verdict' = IF Provisional(run) THEN verdict
                       ELSE [promoted |-> run.promoted, backtest |-> backtests]
  BY <1>1, NextHorizon, Somebody
<1>3. ASSUME NEW h \in Horizon, NEW promoted, NEW n, Governed(h, promoted, n),
             Provisional(run) \/ h # run.horizon \/ run.promoted # Nobody
      PROVE  IF promoted = Nobody THEN ~FinalChampion(h)'
             ELSE /\ HasChampion(h)' /\ aliases'[h].champion.model = promoted
                  /\ aliases'[h].champion.backtest = n /\ aliases'[h].champion.basis = "weighted"
  <2>1. aliases'[h].champion = aliases[h].champion
    BY <1>1, <1>3, RunFields DEF IInv, TypeOK, Aliases
  <2> QED
    BY <1>3, <2>1 DEF Governed, FinalChampion, HasChampion
<1>4. ASSUME ~Provisional(run), run.promoted = Nobody, NEW h \in Horizon, h = run.horizon
      PROVE  ~FinalChampion(h)'
  <2>1. aliases'[h].champion = None
    BY <1>1, <1>4, RunFields DEF IInv, TypeOK, Aliases, HasChampion
  <2> QED
    BY <2>1 DEF FinalChampion, HasChampion
<1>5. ASSUME ~Provisional(run), NEW h \in Horizon, h <= run.horizon
      PROVE  IF run.promoted = Nobody THEN ~FinalChampion(h)'
             ELSE /\ HasChampion(h)' /\ aliases'[h].champion.model = run.promoted
                  /\ aliases'[h].champion.backtest = backtests
                  /\ aliases'[h].champion.basis = "weighted"
  <2>1. CASE h < run.horizon
    <3>1. Governed(h, run.promoted, backtests) /\ h # run.horizon
      BY <1>1, <1>5, <2>1 DEF IInv, RegisteredSoFar, Horizon
    <3> QED
      BY <1>3, <3>1
  <2>2. CASE h = run.horizon /\ run.promoted # Nobody
    <3>1. run.roles = <<"withdraw">>
      BY <1>1, RunFields, RoleOrder
    <3>2. Governed(h, run.promoted, backtests)
      BY <1>1, <1>5, <2>2, <3>1 DEF IInv, RegisteredSoFar
    <3> QED
      BY <1>3, <2>2, <3>2
  <2>3. CASE h = run.horizon /\ run.promoted = Nobody
    BY <1>4, <1>5, <2>3
  <2> QED
    BY <1>1, <1>5, <2>1, <2>2, <2>3, RunFields DEF Horizon
<1>6. CASE run' # None
  <2>1. /\ run.horizon < HorizonCount /\ verdict' = verdict
        /\ run' = [run EXCEPT !.horizon = run.horizon + 1, !.roles = Roles(run.promoted),
                              !.made = FALSE]
    BY <1>2, <1>6
  <2>2. /\ run'.basis = run.basis /\ run'.promoted = run.promoted /\ run'.latest = run.latest
        /\ run'.horizon = run.horizon + 1 /\ run'.roles = Roles(run.promoted) /\ run'.made = FALSE
    BY <1>1, <2>1, RunFields DEF Registering
  <2>3. VerdictKept'
    <3>1. verdict # None => Provisional(run)
      BY <1>1 DEF IInv, RegisteredSoFar
    <3> QED
      BY <1>3, <2>1, <3>1 DEF IInv, VerdictKept, Governed
  <2>4. PromotedSpeaks'
    BY <1>1, <2>2 DEF IInv, PromotedSpeaks
  <2>5. RolesAreTheVerdicts' /\ MadeIsDue'
    BY <1>1, <2>2, RunFields, RolesStart DEF RolesAreTheVerdicts, MadeIsDue
  <2>6. RegisteredSoFar'
    <3> SUFFICES ASSUME ~Provisional(run)
                 PROVE  /\ verdict' = None
                        /\ \A h \in Horizon :
                              h < run'.horizon => Governed(h, run.promoted, backtests)'
                        /\ run'.promoted # Nobody => run'.roles # <<"withdraw">>
      BY <2>2 DEF RegisteredSoFar, Provisional
    <3>1. verdict' = None
      BY <1>1, <2>1 DEF IInv, RegisteredSoFar
    <3>2. run'.roles # <<"withdraw">>
      BY <1>1, <2>2, RunFields, RolesStart
    <3>3. \A h \in Horizon : h < run.horizon + 1 => h <= run.horizon
      BY <1>1, RunFields DEF Horizon
    <3> QED
      BY <1>1, <1>5, <2>2, <3>1, <3>2, <3>3 DEF Governed
  <2> QED
    BY <2>3, <2>4, <2>5, <2>6 DEF Rest
<1>7. CASE run' = None
  <2>1. /\ run.horizon = HorizonCount
        /\ verdict' = IF Provisional(run) THEN verdict
                      ELSE [promoted |-> run.promoted, backtest |-> backtests]
    BY <1>2, <1>7
  <2>2. CASE Provisional(run)
    <3>1. VerdictKept'
      BY <1>3, <2>1, <2>2 DEF IInv, VerdictKept, Governed
    <3> QED
      BY <1>7, <3>1 DEF Rest, PromotedSpeaks, RolesAreTheVerdicts, MadeIsDue, RegisteredSoFar
  <2>3. CASE ~Provisional(run)
    <3>1. verdict'.promoted = run.promoted /\ verdict'.backtest = backtests
      BY <2>1, <2>3
    <3>2. \A h \in Horizon : h <= run.horizon
      BY <2>1 DEF Horizon
    <3>3. VerdictKept'
      BY <1>5, <2>3, <3>1, <3>2 DEF VerdictKept, Governed
    <3> QED
      BY <1>7, <3>3 DEF Rest, PromotedSpeaks, RolesAreTheVerdicts, MadeIsDue, RegisteredSoFar
  <2> QED
    BY <2>2, <2>3
<1> QED
  BY <1>6, <1>7

\* A death, a rebuild of the feature store, and no step at all leave what was registered.
LEMMA OtherRest ==
    ASSUME IInv, Crash \/ BuildFeatureSet \/ UNCHANGED vars
    PROVE  Rest'
<1>1. aliases' = aliases /\ verdict' = verdict /\ backtests' = backtests
  BY DEF Crash, BuildFeatureSet, vars
<1>2. run' = None \/ run' = run
  BY DEF Crash, BuildFeatureSet, vars
<1>3. VerdictKept'
  BY <1>1 DEF IInv, VerdictKept, Governed, FinalChampion, HasChampion
<1> QED
  BY <1>1, <1>2, <1>3
     DEF IInv, Rest, PromotedSpeaks, RolesAreTheVerdicts, MadeIsDue, RegisteredSoFar, Governed,
         PassedOver, RoleModel, Provisional, FinalChampion, HasChampion

--------------------------------------------------------------------------------
\* Every reachable state satisfies the inductive invariant.
THEOREM IInvHolds == Spec => []IInv
<1>1. Init => IInv
  BY InitIInv
<1>2. IInv /\ [Next]_vars => IInv'
  <2> SUFFICES ASSUME IInv, [Next]_vars PROVE IInv'
    OBVIOUS
  <2>1. TypeOK'
    BY NextTypeOK
  <2>2. Rest'
    BY BacktestRest, PassOverRest, CreateVersionRest, SetAliasRest, WithdrawRest, OtherRest
       DEF Next, Register
  <2> QED
    BY <2>1, <2>2 DEF IInv, Rest
<1> QED
  BY <1>1, <1>2, PTL DEF Spec

\* From a weighted backtest that registered its last horizon to the next weighted one, every
\* horizon is on its verdict, for any horizons, challengers, feature sets and bounds: no
\* version an earlier or an unweighted run made, complete or dead half way, changes that.
THEOREM RegisteredVerdictGoverns == Spec => []VerdictGoverns
<1>1. IInv => VerdictGoverns
  BY DEF IInv, VerdictKept, Governed, VerdictGoverns
<1> QED
  BY <1>1, IInvHolds, PTL
================================================================================
