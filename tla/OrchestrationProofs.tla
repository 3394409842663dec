-------------------------- MODULE OrchestrationProofs --------------------------
(*************************************************************************)
(* For any limit, sensors and bounds: a chain of retries is bounded.     *)
(*                                                                       *)
(* A retry carries only its own number and the chain's first run.  What  *)
(* bounds the chain is that no two retries of one chain carry the same   *)
(* number (NumberedOnce): two that did would follow the same failed run, *)
(* which its run key allows one of.                                      *)
(*************************************************************************)
EXTENDS Orchestration, FiniteSetTheorems, TLAPS

\* The first run of the chain that run i is in.
ChainOf(i) == IF runs[i].root = NoRun THEN i ELSE runs[i].root

\* A check without tags follows no run; a retry follows a check of its chain, and counts one
\* more than that.
TagsTell ==
    \A i \in Checks :
        IF runs[i].root = NoRun THEN runs[i].retry = 0 /\ runs[i].after = NoRun
        ELSE /\ runs[i].after \in Checks
             /\ runs[i].retry = runs[runs[i].after].retry + 1
             /\ runs[i].root = ChainOf(runs[i].after)

NumberedOnce ==
    \A i, j \in Checks :
        runs[i].root # NoRun /\ runs[i].root = runs[j].root /\ runs[i].retry = runs[j].retry
            => i = j

\* What the retry sensor is probing for has retries left.
TickHasRetries ==
    tick # NoRun => tick \in Checks /\ runs[tick].retry + 1 <= MaxRetries

IInv == TypeOK /\ TagsTell /\ NumberedOnce /\ TickHasRetries

--------------------------------------------------------------------------------
RunRecord ==
    [job : Jobs, after : Nat, status : {"queued", "started", "success", "failure"},
     retry : 0 .. MaxRetries, root : Nat, said : SUBSET {"unavailable", "other"}]

LEMMA ChainTypes ==
    /\ MaxRetries \in Nat /\ MaxNights \in Nat /\ MaxByHand \in Nat /\ MaxOutages \in Nat
    /\ \A sensor \in Chaining : Chain[sensor].job \in Jobs \ {"legal_to_labels"}
BY OrchestrationAssumption DEF Chaining, Chain, Jobs

\* The types of the runs, spelled out.
LEMMA RunTypes ==
    ASSUME TypeOK
    PROVE  /\ runs \in Seq(RunRecord)
           /\ Ids = 1 .. Len(runs) /\ Len(runs) \in Nat
           /\ Ids \subseteq Nat \ {0}
           /\ \A i \in Ids : runs[i] \in RunRecord /\ runs[i].retry \in Nat
<1>1. runs \in Seq(RunRecord)
  BY DEF TypeOK, RunRecord
<1>2. \A i \in Ids : runs[i] \in RunRecord
  BY <1>1 DEF Ids
<1>3. \A r \in RunRecord : r.retry \in 0 .. MaxRetries
  BY DEF RunRecord
<1>4. 0 .. MaxRetries \subseteq Nat
  BY ChainTypes
<1>5. Ids = 1 .. Len(runs) /\ Len(runs) \in Nat
  BY <1>1 DEF Ids
<1>6. 1 .. Len(runs) \subseteq Nat \ {0}
  BY <1>5
<1> QED
  BY <1>1, <1>2, <1>3, <1>4, <1>5, <1>6

\* What a step that appends run r does to the runs.
LEMMA Appended ==
    ASSUME runs \in Seq(RunRecord), NEW r \in RunRecord, Request(r)
    PROVE  /\ runs' \in Seq(RunRecord)
           /\ Ids' = Ids \union {Len(runs) + 1} /\ Len(runs) + 1 \notin Ids
           /\ \A i \in Ids : runs'[i] = runs[i]
           /\ runs'[Len(runs) + 1] = r
           /\ Ids = 1 .. Len(runs) /\ Len(runs) \in Nat
BY DEF Request, Ids

\* A step that keeps every run's job and tags keeps the chains.
LEMMA TagsKept ==
    ASSUME IInv, Ids' = Ids, tick' = tick,
           \A i \in Ids : /\ runs'[i].job = runs[i].job /\ runs'[i].after = runs[i].after
                          /\ runs'[i].retry = runs[i].retry /\ runs'[i].root = runs[i].root
    PROVE  (TagsTell /\ NumberedOnce /\ TickHasRetries)'
<1>1. Checks' = Checks /\ Checks \subseteq Ids
  BY DEF Checks
<1>2. TagsTell'
  BY <1>1 DEF IInv, TagsTell, ChainOf
<1>3. NumberedOnce'
  BY <1>1 DEF IInv, NumberedOnce
<1>4. TickHasRetries'
  BY <1>1 DEF IInv, TickHasRetries
<1> QED
  BY <1>2, <1>3, <1>4

\* A run of another job, or a check without tags, joins no chain.
LEMMA FreshRun ==
    ASSUME IInv, tick' = tick,
           NEW r \in RunRecord, Request(r),
           r.job = "legal_to_labels" => r.root = NoRun /\ r.retry = 0 /\ r.after = NoRun
    PROVE  (TagsTell /\ NumberedOnce /\ TickHasRetries)'
<1> DEFINE new == Len(runs) + 1
<1>1. /\ Ids' = Ids \union {new} /\ new \notin Ids
      /\ \A i \in Ids : runs'[i] = runs[i]
      /\ runs'[new] = r
  BY Appended DEF IInv, TypeOK, RunRecord
<1> HIDE DEF new
<1>2. /\ Checks \subseteq Ids /\ Checks \subseteq Checks'
      /\ \A i \in Checks' : i \in Checks \/ (i = new /\ r.job = "legal_to_labels")
  BY <1>1 DEF Checks
<1>3. TagsTell'
  <2> SUFFICES ASSUME NEW i \in Checks'
               PROVE  IF runs'[i].root = NoRun THEN runs'[i].retry = 0 /\ runs'[i].after = NoRun
                      ELSE /\ runs'[i].after \in Checks'
                           /\ runs'[i].retry = runs'[runs'[i].after].retry + 1
                           /\ runs'[i].root = ChainOf(runs[i].after)'
    BY DEF TagsTell
  <2>1. CASE i \in Checks
    BY <1>1, <1>2, <2>1 DEF IInv, TagsTell, ChainOf
  <2>2. CASE i = new /\ r.job = "legal_to_labels"
    BY <1>1, <2>2
  <2> QED
    BY <1>2, <2>1, <2>2
<1>4. NumberedOnce'
  BY <1>1, <1>2 DEF IInv, NumberedOnce
<1>5. TickHasRetries'
  BY <1>1, <1>2 DEF IInv, TickHasRetries
<1> QED
  BY <1>3, <1>4, <1>5

\* A retry of a failed run that has none has a number of its own in its chain.
LEMMA RetryNumber ==
    ASSUME IInv, tick # NoRun, ~ Requested("legal_to_labels", tick),
           NEW j \in Checks, runs[j].root = ChainOf(tick)
    PROVE  runs[j].retry # runs[tick].retry + 1
<1> SUFFICES ASSUME runs[j].retry = runs[tick].retry + 1
             PROVE  FALSE
  OBVIOUS
<1> DEFINE a == runs[j].after
<1>1. tick \in Checks /\ tick \in Ids /\ tick # NoRun
  BY DEF IInv, TickHasRetries, Checks
<1>2. /\ Checks \subseteq Ids /\ Ids \subseteq Nat \ {0}
      /\ \A i \in Ids : runs[i].retry \in Nat
  BY RunTypes DEF IInv, Checks
<1>3. runs[j].root # NoRun
  BY <1>1, <1>2 DEF ChainOf, NoRun
<1>4. a \in Checks /\ runs[j].retry = runs[a].retry + 1 /\ runs[j].root = ChainOf(a)
  BY <1>3 DEF IInv, TagsTell
<1>5. a # tick
  BY <1>2 DEF Requested, Checks
<1>6. runs[a].retry = runs[tick].retry
  <2>1. runs[a].retry \in Nat /\ runs[tick].retry \in Nat
    BY <1>1, <1>2, <1>4
  <2> HIDE DEF a
  <2> QED
    BY <1>4, <2>1
<1>7. ChainOf(a) = ChainOf(tick)
  BY <1>4
<1> HIDE DEF a
<1>8. CASE runs[tick].root = NoRun
  <2>1. runs[tick].retry = 0
    BY <1>1, <1>8 DEF IInv, TagsTell
  <2>2. runs[a].root = NoRun
    <3>1. SUFFICES ASSUME runs[a].root # NoRun PROVE FALSE
      OBVIOUS
    <3> DEFINE b == runs[a].after
    <3>2. b \in Ids /\ runs[a].retry = runs[b].retry + 1
      BY <1>2, <1>4, <3>1 DEF IInv, TagsTell
    <3>3. runs[b].retry \in Nat
      BY <1>2, <3>2
    <3> HIDE DEF b
    <3> QED
      BY <1>6, <2>1, <3>2, <3>3
  <2> QED
    BY <1>5, <1>7, <1>8, <2>2 DEF ChainOf
<1>9. CASE runs[tick].root # NoRun
  <2> DEFINE b == runs[tick].after
  <2>0. b \in Ids /\ runs[tick].retry = runs[b].retry + 1
    BY <1>1, <1>2, <1>9 DEF IInv, TagsTell
  <2>1. runs[tick].retry # 0
    <3>1. runs[b].retry \in Nat
      BY <1>2, <2>0
    <3> HIDE DEF b
    <3> QED
      BY <2>0, <3>1
  <2>2. runs[a].root # NoRun
    BY <1>4, <1>6, <2>1 DEF IInv, TagsTell
  <2>3. runs[a].root = runs[tick].root
    BY <1>7, <1>9, <2>2 DEF ChainOf
  <2> QED
    BY <1>1, <1>4, <1>5, <1>6, <2>2, <2>3 DEF IInv, NumberedOnce
<1> QED
  BY <1>8, <1>9

\* The retry that the answered probes request joins the chain of the run it follows.
LEMMA RetryJoins ==
    ASSUME IInv, tick # NoRun, tick' = NoRun, ~ Requested("legal_to_labels", tick),
           Request(RetryOf(tick))
    PROVE  RetryOf(tick) \in RunRecord /\ (TagsTell /\ NumberedOnce /\ TickHasRetries)'
<1> DEFINE new == Len(runs) + 1
           r == RetryOf(tick)
<1>1. tick \in Checks /\ tick \in Ids /\ runs[tick].retry + 1 <= MaxRetries
  BY DEF IInv, TickHasRetries, Checks
<1>2. TypeOK /\ Checks \subseteq Ids /\ Ids \subseteq Nat \ {0} /\ runs[tick].retry \in Nat
  BY <1>1, RunTypes DEF IInv, Checks
<1>3. /\ r.job = "legal_to_labels" /\ r.after = tick /\ r.retry = runs[tick].retry + 1
      /\ r.root = ChainOf(tick) /\ r.status = "queued" /\ r.said = {}
  BY DEF RetryOf, Run, ChainOf
<1>4. ChainOf(tick) \in Nat \ {0}
  <2>1. runs[tick].root \in Nat
    BY <1>1, <1>2, RunTypes DEF RunRecord
  <2> QED
    BY <1>1, <1>2, <2>1 DEF ChainOf, NoRun
<1>5. r \in RunRecord
  <2>1. r.retry \in 0 .. MaxRetries
    BY <1>1, <1>2, <1>3, ChainTypes
  <2>2. r = [job |-> "legal_to_labels", after |-> tick, status |-> "queued",
             retry |-> r.retry, root |-> ChainOf(tick), said |-> {}]
    BY DEF RetryOf, Run, ChainOf
  <2> HIDE DEF r
  <2> QED
    BY <1>1, <1>2, <1>4, <2>1, <2>2 DEF RunRecord, Jobs
<1>6. Request(r)
  OBVIOUS
<1> HIDE DEF r
<1>7. /\ Ids' = Ids \union {new} /\ new \notin Ids
      /\ \A i \in Ids : runs'[i] = runs[i]
      /\ runs'[new] = r
  BY <1>2, <1>5, <1>6, Appended, RunTypes
<1> HIDE DEF new
<1>8. /\ Checks \subseteq Checks' /\ Checks' = Checks \union {new}
      /\ \A i \in Checks : runs'[i] = runs[i]
  BY <1>2, <1>3, <1>7 DEF Checks
<1>9. TagsTell'
  <2> SUFFICES ASSUME NEW i \in Checks'
               PROVE  IF runs'[i].root = NoRun THEN runs'[i].retry = 0 /\ runs'[i].after = NoRun
                      ELSE LET a == runs'[i].after IN
                           /\ a \in Checks'
                           /\ runs'[i].retry = runs'[a].retry + 1
                           /\ runs'[i].root = (IF runs'[a].root = NoRun THEN a ELSE runs'[a].root)
    BY DEF TagsTell, ChainOf
  <2>1. CASE i \in Checks
    BY <1>8, <2>1 DEF IInv, TagsTell, ChainOf
  <2>2. CASE i = new
    <3>1. runs'[i].root # NoRun
      BY <1>3, <1>4, <1>7, <2>2 DEF NoRun
    <3>2. /\ runs'[i].after = tick /\ tick \in Checks' /\ runs'[tick] = runs[tick]
          /\ runs'[i].retry = runs[tick].retry + 1 /\ runs'[i].root = ChainOf(tick)
      BY <1>1, <1>3, <1>7, <1>8, <2>2
    <3> QED
      BY <3>1, <3>2 DEF ChainOf
  <2> QED
    BY <1>8, <2>1, <2>2
<1>10. NumberedOnce'
  <2>1. \A j \in Checks : runs[j].root = r.root => runs[j].retry # r.retry
    BY <1>3, RetryNumber
  <2> QED
    BY <1>7, <1>8, <2>1 DEF IInv, NumberedOnce
<1>11. TickHasRetries'
  BY DEF TickHasRetries
<1> QED
  BY <1>5, <1>9, <1>10, <1>11 DEF r

--------------------------------------------------------------------------------
\* A step that requests run r keeps the types.
LEMMA RequestTypes ==
    ASSUME TypeOK, NEW r \in RunRecord, Request(r), tick' \in {tick, NoRun},
           answers' = answers, up' = up, late' \in BOOLEAN,
           nights' \in 0 .. MaxNights, byHand' \in 0 .. MaxByHand, outages' = outages
    PROVE  TypeOK'
<1>1. runs' \in Seq(RunRecord) /\ Ids \subseteq Ids'
  BY Appended, RunTypes
<1> QED
  BY <1>1 DEF TypeOK, RunRecord

\* A step that marks run i keeps the types, and every run's tags.
LEMMA MarkTypes ==
    ASSUME TypeOK, NEW i \in Ids, NEW status \in {"started", "success", "failure"},
           NEW said \in SUBSET {"unavailable", "other"},
           \/ runs' = [runs EXCEPT ![i].status = status]
           \/ runs' = [runs EXCEPT ![i].status = status, ![i].said = said]
    PROVE  /\ runs' \in Seq(RunRecord) /\ Ids' = Ids
           /\ \A k \in Ids : /\ runs'[k].job = runs[k].job /\ runs'[k].after = runs[k].after
                             /\ runs'[k].retry = runs[k].retry /\ runs'[k].root = runs[k].root
<1>1. /\ runs \in Seq(RunRecord) /\ Ids = 1 .. Len(runs) /\ Len(runs) \in Nat
      /\ runs[i] \in RunRecord
  BY RunTypes
<1>2. PICK mark \in RunRecord :
          /\ runs' = [runs EXCEPT ![i] = mark]
          /\ mark.job = runs[i].job /\ mark.after = runs[i].after
          /\ mark.retry = runs[i].retry /\ mark.root = runs[i].root
  <2>1. CASE runs' = [runs EXCEPT ![i].status = status]
    <3> DEFINE mark == [runs[i] EXCEPT !.status = status]
    <3>1. mark \in RunRecord
      BY <1>1 DEF RunRecord
    <3>2. /\ mark.job = runs[i].job /\ mark.after = runs[i].after
          /\ mark.retry = runs[i].retry /\ mark.root = runs[i].root
      BY <1>1 DEF RunRecord
    <3>3. runs' = [runs EXCEPT ![i] = mark]
      BY <2>1
    <3> HIDE DEF mark
    <3> QED
      BY <3>1, <3>2, <3>3
  <2>2. CASE runs' = [runs EXCEPT ![i].status = status, ![i].said = said]
    <3> DEFINE mark == [runs[i] EXCEPT !.status = status, !.said = said]
    <3>1. mark \in RunRecord
      BY <1>1 DEF RunRecord
    <3>2. /\ mark.job = runs[i].job /\ mark.after = runs[i].after
          /\ mark.retry = runs[i].retry /\ mark.root = runs[i].root
      BY <1>1 DEF RunRecord
    <3>3. runs' = [runs EXCEPT ![i] = mark]
      BY <1>1, <2>2 DEF RunRecord
    <3> HIDE DEF mark
    <3> QED
      BY <3>1, <3>2, <3>3
  <2> QED
    BY <2>1, <2>2
<1>3. runs' \in Seq(RunRecord) /\ Ids' = Ids
  BY <1>1, <1>2 DEF Ids
<1>4. \A k \in Ids : runs'[k] = IF k = i THEN mark ELSE runs[k]
  BY <1>1, <1>2 DEF Ids
<1> QED
  BY <1>2, <1>3, <1>4

LEMMA InitInv == Init => IInv
<1> SUFFICES ASSUME Init PROVE IInv
  OBVIOUS
<1>1. Ids = {} /\ Checks = {}
  BY DEF Init, Ids, Checks
<1>2. TypeOK
  BY ChainTypes DEF Init, TypeOK, Sources
<1> QED
  BY <1>1, <1>2 DEF Init, IInv, TagsTell, NumberedOnce, TickHasRetries

\* A run without tags is one the program can request.
LEMMA NewRuns ==
    ASSUME NEW job \in Jobs, NEW after \in Nat
    PROVE  /\ Run(job, after, 0, NoRun) \in RunRecord
           /\ Run(job, after, 0, NoRun).job = job /\ Run(job, after, 0, NoRun).after = after
           /\ Run(job, after, 0, NoRun).retry = 0 /\ Run(job, after, 0, NoRun).root = NoRun
<1>1. 0 \in 0 .. MaxRetries
  BY ChainTypes
<1> QED
  BY <1>1 DEF Run, RunRecord, NoRun

\* A step that requests a run outside every chain preserves the invariant.
LEMMA RequestInv ==
    ASSUME IInv, NEW job \in Jobs, NEW after \in Nat,
           job = "legal_to_labels" => after = NoRun,
           Request(Run(job, after, 0, NoRun)), tick' = tick,
           answers' = answers, up' = up, late' \in BOOLEAN,
           nights' \in 0 .. MaxNights, byHand' \in 0 .. MaxByHand, outages' = outages
    PROVE  IInv'
<1> DEFINE r == Run(job, after, 0, NoRun)
<1>1. /\ r \in RunRecord /\ r.job = job /\ r.after = after /\ r.retry = 0 /\ r.root = NoRun
      /\ Request(r) /\ TypeOK
  BY NewRuns DEF IInv
<1> HIDE DEF r
<1>2. TypeOK'
  BY <1>1, RequestTypes
<1>3. (TagsTell /\ NumberedOnce /\ TickHasRetries)'
  BY <1>1, FreshRun
<1> QED
  BY <1>2, <1>3 DEF IInv

\* A step that marks a run preserves the invariant.
LEMMA MarkInv ==
    ASSUME IInv, NEW i \in Ids, NEW status \in {"started", "success", "failure"},
           NEW said \in SUBSET {"unavailable", "other"},
           \/ runs' = [runs EXCEPT ![i].status = status]
           \/ runs' = [runs EXCEPT ![i].status = status, ![i].said = said],
           answers' \in [Sources -> {"none", "ok", "unavailable", "other"}],
           UNCHANGED <<up, tick, late, nights, byHand, outages>>
    PROVE  IInv'
<1>1. /\ runs' \in Seq(RunRecord) /\ Ids' = Ids
      /\ \A k \in Ids : /\ runs'[k].job = runs[k].job /\ runs'[k].after = runs[k].after
                        /\ runs'[k].retry = runs[k].retry /\ runs'[k].root = runs[k].root
  BY MarkTypes DEF IInv
<1>2. TypeOK'
  BY <1>1 DEF IInv, TypeOK, RunRecord
<1>3. (TagsTell /\ NumberedOnce /\ TickHasRetries)'
  BY <1>1, TagsKept
<1> QED
  BY <1>2, <1>3 DEF IInv

LEMMA NextInv == IInv /\ [Next]_vars => IInv'
<1> SUFFICES ASSUME IInv, [Next]_vars PROVE IInv'
  OBVIOUS
<1> USE DEF NoRun
<1>0. TypeOK /\ "legal_to_labels" \in Jobs /\ "rdf_script_import" \in Jobs
  BY DEF IInv, Jobs
<1>1. CASE Night
  <2>1. nights' \in 0 .. MaxNights
    BY <1>0, <1>1, ChainTypes DEF Night, TypeOK
  <2>2. CASE UNCHANGED runs
    <3>1. (TagsTell /\ NumberedOnce /\ TickHasRetries)'
      BY <1>1, <2>2, TagsKept DEF Night, Ids
    <3> QED
      BY <1>0, <1>1, <2>1, <2>2, <3>1 DEF Night, IInv, TypeOK, Ids
  <2>3. CASE Request(Run("legal_to_labels", NoRun, 0, NoRun))
    BY <1>0, <1>1, <2>1, <2>3, RequestInv DEF Night, TypeOK
  <2> QED
    BY <1>1, <2>2, <2>3 DEF Night
<1>2. CASE ByHand
  <2>1. byHand' \in 0 .. MaxByHand
    BY <1>0, <1>2, ChainTypes DEF ByHand, TypeOK
  <2>2. PICK job \in {"legal_to_labels", "rdf_script_import"} : Request(Run(job, NoRun, 0, NoRun))
    BY <1>2 DEF ByHand
  <2>3. job \in Jobs
    BY <1>0
  <2> QED
    BY <1>0, <1>2, <2>1, <2>2, <2>3, RequestInv DEF ByHand, TypeOK
<1>3. ASSUME Evening \/ (\E s \in Sources : SourceChanges(s) \/ Fetch(s)) \/ UNCHANGED vars
      PROVE  IInv'
  <2>1. runs' = runs /\ tick' = tick
    BY <1>3 DEF Evening, SourceChanges, Fetch, vars
  <2>2. (TagsTell /\ NumberedOnce /\ TickHasRetries)'
    BY <2>1, TagsKept DEF Ids
  <2>3. /\ up' \subseteq Sources /\ late' \in BOOLEAN
        /\ nights' = nights /\ byHand' = byHand /\ outages' \in 0 .. MaxOutages
    <3>1. ASSUME NEW s \in Sources, SourceChanges(s) PROVE <2>3!:
      <4>1. outages' \in 0 .. MaxOutages
        BY <1>0, <3>1, ChainTypes DEF SourceChanges, TypeOK
      <4> QED
        BY <1>0, <3>1, <4>1 DEF SourceChanges, TypeOK
    <3>2. ASSUME Evening \/ (\E s \in Sources : Fetch(s)) \/ UNCHANGED vars PROVE <2>3!:
      BY <1>0, <3>2 DEF Evening, Fetch, vars, TypeOK
    <3> QED
      BY <1>3, <3>1, <3>2
  <2>4. answers' \in [Sources -> {"none", "ok", "unavailable", "other"}]
    BY <1>0, <1>3 DEF Evening, SourceChanges, Fetch, vars, TypeOK
  <2>5. TypeOK'
    BY <1>0, <2>1, <2>3, <2>4 DEF TypeOK, Ids
  <2> QED
    BY <2>2, <2>5 DEF IInv
<1>4. ASSUME NEW i \in Ids, Launch(i) PROVE IInv'
  BY <1>0, <1>4, MarkInv DEF Launch, TypeOK
<1>5. ASSUME NEW i \in Ids, EndCheck(i) PROVE IInv'
  <2>1. answers' \in [Sources -> {"none", "ok", "unavailable", "other"}]
    BY <1>5 DEF EndCheck
  <2> DEFINE failures == {answers[s] : s \in Sources} \ {"ok"}
             said == IF failures = {} THEN {"other"} ELSE failures
  <2>2. said \in SUBSET {"unavailable", "other"}
    BY <1>0, <1>5 DEF EndCheck, TypeOK
  <2>3. \/ runs' = [runs EXCEPT ![i].status = "success"]
        \/ runs' = [runs EXCEPT ![i].status = "failure", ![i].said = said]
    BY <1>5 DEF EndCheck
  <2> HIDE DEF said
  <2> QED
    BY <1>5, <2>1, <2>2, <2>3, MarkInv DEF EndCheck
<1>6. ASSUME NEW i \in Ids, EndRun(i) PROVE IInv'
  <2>1. \/ runs' = [runs EXCEPT ![i].status = "success"]
        \/ runs' = [runs EXCEPT ![i].status = "failure", ![i].said = {"other"}]
    BY <1>6 DEF EndRun
  <2>2. answers' \in [Sources -> {"none", "ok", "unavailable", "other"}]
    BY <1>0, <1>6 DEF EndRun, TypeOK
  <2>3. {"other"} \in SUBSET {"unavailable", "other"}
    OBVIOUS
  <2> QED
    BY <1>6, <2>1, <2>2, <2>3, MarkInv DEF EndRun
<1>7. ASSUME NEW i \in Ids, RetryTick(i) PROVE IInv'
  <2>1. TypeOK'
    BY <1>0, <1>7 DEF RetryTick, TypeOK, Ids
  <2>2. TickHasRetries'
    BY <1>7 DEF RetryTick, TickHasRetries, Latest, Retriable, Checks, Ids
  <2>3. (TagsTell /\ NumberedOnce)'
    BY <1>7 DEF RetryTick, IInv, TagsTell, NumberedOnce, Checks, Ids, ChainOf
  <2> QED
    BY <2>1, <2>2, <2>3 DEF IInv
<1>8. CASE RetryProbed
  <2>1. CASE Request(RetryOf(tick)) /\ ~ Requested("legal_to_labels", tick)
    <3>1. RetryOf(tick) \in RunRecord /\ (TagsTell /\ NumberedOnce /\ TickHasRetries)'
      BY <1>8, <2>1, RetryJoins DEF RetryProbed
    <3>2. TypeOK'
      BY <1>0, <1>8, <2>1, <3>1, RequestTypes DEF RetryProbed, TypeOK
    <3> QED
      BY <3>1, <3>2 DEF IInv
  <2>2. CASE UNCHANGED runs
    <3>1. TypeOK'
      BY <1>0, <1>8, <2>2 DEF RetryProbed, TypeOK, Ids
    <3>2. (TagsTell /\ NumberedOnce /\ TickHasRetries)'
      BY <1>8, <2>2 DEF RetryProbed, IInv, TagsTell, NumberedOnce, TickHasRetries, Checks, Ids, ChainOf
    <3> QED
      BY <3>1, <3>2 DEF IInv
  <2> QED
    BY <1>8, <2>1, <2>2 DEF RetryProbed
<1>9. ASSUME NEW sensor \in Chaining, NEW i \in Ids, Follow(sensor, i) PROVE IInv'
  <2>1. Chain[sensor].job \in Jobs /\ Chain[sensor].job # "legal_to_labels" /\ i \in Nat
    BY <1>0, ChainTypes, RunTypes
  <2> QED
    BY <1>0, <1>9, <2>1, RequestInv DEF Follow, TypeOK
<1> QED
  BY <1>1, <1>2, <1>3, <1>4, <1>5, <1>6, <1>7, <1>8, <1>9 DEF Next

--------------------------------------------------------------------------------
\* The tags of every check tell its chain and its number in it.
THEOREM IInvHolds == Spec => []IInv
  BY InitInv, NextInv, PTL DEF Spec

\* Every run has its type, and its number of retries is within the limit.
THEOREM TypeCorrect == Spec => []TypeOK
<1>1. IInv => TypeOK
  BY DEF IInv
<1> QED
  BY <1>1, IInvHolds, PTL

\* A chain has at most as many retries as the limit: their numbers tell them apart.
LEMMA InvBounds == IInv => RetriesBounded
<1> SUFFICES ASSUME IInv, NEW root \in Checks
             PROVE  Cardinality({i \in Checks : runs[i].root = root}) <= MaxRetries
  BY DEF RetriesBounded
<1> DEFINE retries == {i \in Checks : runs[i].root = root}
           number == [i \in retries |-> runs[i].retry]
<1>1. TypeOK /\ Checks \subseteq Ids /\ root # NoRun
  BY RunTypes DEF IInv, Checks, NoRun
<1>2. \A i \in retries : runs[i].retry \in 1 .. MaxRetries
  <2> SUFFICES ASSUME NEW i \in retries PROVE runs[i].retry \in 1 .. MaxRetries
    OBVIOUS
  <2> DEFINE a == runs[i].after
  <2>1. runs[i].retry \in 0 .. MaxRetries /\ i \in Checks
    BY <1>1, RunTypes DEF RunRecord
  <2>2. a \in Ids /\ runs[i].retry = runs[a].retry + 1
    BY <1>1 DEF IInv, TagsTell
  <2>3. runs[a].retry \in Nat
    BY <1>1, <2>2, RunTypes
  <2> HIDE DEF a
  <2> QED
    BY <2>1, <2>2, <2>3, ChainTypes
<1>3. number \in Injection(retries, 1 .. MaxRetries)
  <2>1. number \in [retries -> 1 .. MaxRetries]
    BY <1>2
  <2>2. \A i, j \in retries : number[i] = number[j] => i = j
    BY <1>1 DEF IInv, NumberedOnce
  <2> HIDE DEF number
  <2> QED
    BY <2>1, <2>2 DEF Injection, IsInjective
<1>4. IsFiniteSet(1 .. MaxRetries) /\ Cardinality(1 .. MaxRetries) = MaxRetries
  BY FS_Interval, ChainTypes
<1> HIDE DEF retries, number
<1>5. Cardinality(retries) <= Cardinality(1 .. MaxRetries)
  BY <1>3, <1>4, FS_Injection
<1> QED
  BY <1>4, <1>5 DEF retries

\* A night lost to a maintenance page is retried at most MAX_RETRIES times, over the whole
\* chain of its retries and whatever else is requested between them.
THEOREM ChainsBounded == Spec => []RetriesBounded
  BY IInvHolds, InvBounds, PTL
================================================================================
