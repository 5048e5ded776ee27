---------------------------- MODULE MCServices ----------------------------
(***************************************************************************)
(* One instance for the components that share no state with one another:   *)
(* "part" says which of them a behaviour is about, the others stand still. *)
(* (A product of their state spaces would add nothing to what is checked   *)
(* of each, as no step of one reads or writes what another has.)           *)
(***************************************************************************)
EXTENDS TokenBucket, DiffOfPolls, AuditTrail, OperatorSettings, Dashboard,
        AuthGuard, WorkerTokens, Notifications, DeadLetters,
        RationaleGenerator, MCPriorityWeights, FspServices, MCCandidatePayload

VARIABLE part

Part == {"bucket", "diff", "audit", "settings", "dashboard", "guard", "tokens",
         "notices", "letters", "rationale", "ranking", "fsp", "payload"}

ServicesInit ==
  /\ part \in Part
  /\ Init /\ DiffInit /\ AuditInit /\ SettingsInit /\ DashInit /\ GuardInit
  /\ TokenInit /\ NoticeInit /\ DeadInit /\ RationaleInit /\ RankInit
  /\ FspInit /\ PayloadInit
  /\ part # "ranking" => weights = CHOOSE w \in Weights : TRUE

apiVars == <<auditVars, settingsVars, dashVars, guardVars>>
jobVars == <<noticeVars, letterVars, rationaleVars, rankVars>>
workerVars == <<tokenVars, fspVars, jobVars>>
pollVars == <<vars, polls, payloadVars>>

BucketMoves ==
  /\ part = "bucket" /\ Next
  /\ UNCHANGED <<part, polls, payloadVars, apiVars, workerVars>>
DiffMoves ==
  /\ part = "diff" /\ Poll
  /\ UNCHANGED <<part, vars, payloadVars, apiVars, workerVars>>
AuditMoves ==
  /\ part = "audit" /\ AuditNext
  /\ UNCHANGED <<part, pollVars, settingsVars, dashVars, guardVars, workerVars>>
SettingsMove ==
  /\ part = "settings" /\ SettingsNext
  /\ UNCHANGED <<part, pollVars, auditVars, dashVars, guardVars, workerVars>>
DashboardMoves ==
  /\ part = "dashboard" /\ DashNext
  /\ UNCHANGED <<part, pollVars, auditVars, settingsVars, guardVars, workerVars>>
GuardMoves ==
  /\ part = "guard" /\ GuardNext
  /\ UNCHANGED <<part, pollVars, auditVars, settingsVars, dashVars, workerVars>>
TokensMove ==
  /\ part = "tokens" /\ TokenNext
  /\ UNCHANGED <<part, pollVars, apiVars, fspVars, jobVars>>
FspMoves ==
  /\ part = "fsp" /\ FspServicesNext
  /\ UNCHANGED <<part, pollVars, apiVars, tokenVars, jobVars>>
NoticesMove ==
  /\ part = "notices" /\ NoticeNext
  /\ UNCHANGED <<part, pollVars, apiVars, tokenVars, fspVars, letterVars,
                 rationaleVars, rankVars>>
LettersMove ==
  /\ part = "letters" /\ DeadNext
  /\ UNCHANGED <<part, pollVars, apiVars, tokenVars, fspVars, noticeVars,
                 rationaleVars, rankVars>>
RationaleMoves ==
  /\ part = "rationale" /\ RationaleNext
  /\ UNCHANGED <<part, pollVars, apiVars, tokenVars, fspVars, noticeVars,
                 letterVars, rankVars>>
RankingMoves ==
  /\ part = "ranking" /\ Rank
  /\ UNCHANGED <<part, pollVars, apiVars, tokenVars, fspVars, noticeVars,
                 letterVars, rationaleVars>>

PayloadMoves ==
  /\ part = "payload" /\ PayloadNext
  /\ UNCHANGED <<part, vars, polls, apiVars, workerVars>>

ServicesNext ==
  \/ BucketMoves \/ DiffMoves
  \/ AuditMoves \/ SettingsMove \/ DashboardMoves \/ GuardMoves
  \/ TokensMove \/ FspMoves \/ NoticesMove \/ LettersMove
  \/ RationaleMoves \/ RankingMoves \/ PayloadMoves

ServicesSpec ==
  ServicesInit /\ [][ServicesNext]_<<part, pollVars, apiVars, workerVars>>

\* Each component's variables stay in their types.
ServicesTypeOK ==
  /\ AuditTypeOK /\ SettingsTypeOK /\ DashTypeOK /\ GuardTypeOK /\ TokenTypeOK
  /\ FspTypeOK /\ NoticeTypeOK /\ DeadTypeOK /\ RationaleTypeOK

-----------------------------------------------------------------------------
(* The instance                                                            *)

\* t1 and t2 belong to schedule managers of different operators.
MCManages ==
  LET FirstOf(S) == CHOOSE x \in S : TRUE
      t1 == FirstOf(Token)
  IN  {<<t1, CHOOSE o \in Known : TRUE>>}
        \cup {<<t, o>> : t \in Token \ {t1}, o \in Org \ Known}

MCQueues == <<"jobs", "events">>
MCQueueOf == [m \in Letter |-> IF m = "m3" THEN "events" ELSE "jobs"]

\* Today's handlers state only constraints that were met; the interface does
\* not ask for that.
MCChecks == {<<2, 2>>, <<1, 3>>}

Suggested(useCase, named) == [useCase |-> useCase, named |-> named]
MCOffer == {Suggested("RESCHEDULE", TRUE), Suggested("NEXT_LESSON", TRUE),
            Suggested("DISCOVERY", FALSE)}

Typed(plus, clean, first, digits) ==
  [plus |-> plus, clean |-> clean, first |-> first, digits |-> digits]
MCContact ==
  [mail : {TRUE}, optIn : {TRUE},
   phone : {Typed(FALSE, FALSE, 5, 10), Typed(TRUE, TRUE, 4, 12), Typed(FALSE, TRUE, 0, 9)}]
    \cup {[mail |-> FALSE, optIn |-> FALSE, phone |-> Typed(FALSE, FALSE, 0, 0)]}
MCOwnTemplates == [k \in {"rescheduleOffer"} |-> {"studentName", "locationName"}]
=============================================================================
