---------------------------- MODULE GitHubClient -----------------------------
(* The GitHub client of the CI loop (github/internal/github/client.go): the *)
(* answers it keeps to make a repo's probe free (the runs in progress, the  *)
(* presence of workflows, a run re-read), its retries, and the request      *)
(* budget read off every answer. The loop makes one call at a time; GitHub  *)
(* and other users of the token move on between its requests.               *)
EXTENDS Integers, FiniteSets, FiniteSetsExt

CONSTANTS
  PresenceTTL,  \* how long a repo is taken to have no workflows (noWorkflowsTTL)
  Retention,    \* how long an unused answer is kept (cacheRetention)
  PruneGap,     \* least time between sweeps (pruneInterval)
  Window,       \* length of a budget window
  Allowance,    \* requests in a window
  LimitCap,     \* the longest wait for a rate limit (maxRateLimitWait)
  MaxRetries, MaxLimited,  \* attempts; rate-limit retries, which take none
  LastTime, MaxFaults      \* bounds

VARIABLES
  github,  \* the repo's workflows, its run, what is left of the window and its end
  call,    \* the call being made
  cache,   \* runsCache, workflows, runCache and prunedAt
  budget,  \* remaining and resetAt
  now,
  answer,  \* what the last call returned, and what was so at that moment
  past     \* faults; when there was last no workflow; the runs' last tag and its last use

vars == <<github, call, cache, budget, now, answer, past>>

Unknown == -1
NoTag == "no tag"
NoProbe == [tag |-> NoTag, body |-> "nothing", used |-> Unknown]
NoPresence == [known |-> FALSE, has |-> FALSE, tag |-> NoTag, checked |-> Unknown, used |-> Unknown]

NoCall == [op |-> "none", tag |-> NoTag, body |-> "nothing", attempt |-> 0, limited |-> 0,
           sent |-> 0, until |-> 0]
NoAnswer == [what |-> "none", body |-> "nothing", truth |-> "nothing", fits |-> TRUE]

Init ==
  /\ github = [workflows |-> "none", run |-> "none", left |-> Allowance, reset |-> Window]
  /\ call = NoCall
  /\ cache = [runs |-> NoProbe, workflows |-> NoPresence, run |-> NoProbe, pruned |-> Unknown]
  /\ budget = [remaining |-> Unknown, resetAt |-> 0]
  /\ now = 0
  /\ answer = NoAnswer
  /\ past = [faults |-> 0, emptyAt |-> 0, scolded |-> FALSE,
             tagged |-> NoTag, usedAt |-> 0, wasted |-> FALSE]

(* -------------------------------- GitHub -------------------------------- *)

Workflows == {"none", "some", "off"}  \* "off": Actions is disabled, 404

\* A run starts, ends or is run again only where there are workflows.
RepoMoves ==
  /\ \/ \E w \in Workflows \ {github.workflows} :
          /\ w # "some" => github.run # "in_progress"
          /\ github' = [github EXCEPT !.workflows = w]
     \/ /\ github.workflows = "some"
        /\ github' = [github EXCEPT !.run = IF @ = "in_progress" THEN "completed" ELSE "in_progress"]
  /\ past' = [past EXCEPT !.emptyAt = IF github'.workflows # "some" THEN now ELSE @]
  /\ UNCHANGED <<call, cache, budget, now, answer>>

Tick ==
  /\ now < LastTime
  /\ now' = now + 1
  /\ github' = IF now' = github.reset
               THEN [github EXCEPT !.left = Allowance, !.reset = @ + Window] ELSE github
  /\ past' = [past EXCEPT !.emptyAt = IF github.workflows # "some" THEN now' ELSE @]
  /\ UNCHANGED <<call, cache, budget, answer>>

\* The token is not the loop's alone.
OthersSpend ==
  /\ past.faults < MaxFaults /\ github.left > 0
  /\ github' = [github EXCEPT !.left = 0]
  /\ past' = [past EXCEPT !.faults = @ + 1]
  /\ UNCHANGED <<call, cache, budget, now, answer>>

\* What GitHub has at the call's endpoint; a tag is as good as the content.
InProgress == IF github.run = "in_progress" THEN "one run" ELSE "no runs"
Body ==
  CASE call.op = "presence" -> github.workflows
    [] call.op = "runs" -> InProgress
    [] call.op = "run" -> github.run
Found == call.op = "run" \/ github.workflows # "off"

(* ------------------------------ the request ----------------------------- *)

Spent == budget.remaining = 0 /\ now < budget.resetAt

Ask(op, probe) == [NoCall EXCEPT !.op = op, !.tag = probe.tag, !.body = probe.body, !.until = now]

Return(what, body) ==
  /\ call' = NoCall
  /\ answer' = [what |-> what, body |-> body, truth |-> Body, fits |-> TRUE]

Faults == /\ past.faults < MaxFaults
          /\ past' = [past EXCEPT !.faults = @ + 1, !.scolded = @ \/ Spent]
Heard == past' = [past EXCEPT !.scolded = @ \/ Spent]

\* Every answer that carries the headers is recorded, a 304 and a refusal too.
RecordRateLimit(left) ==
  /\ github' = [github EXCEPT !.left = left]
  /\ budget' = [remaining |-> left, resetAt |-> github.reset]
Billed == Max({0, github.left - 1})

\* Mutant of MaySend: only a call's first attempt looks at the budget.
MaySendFirst == call.op # "none" /\ now >= call.until /\ (call.sent = 0 => ~Spent)

MaySend == call.op # "none" /\ now >= call.until /\ ~Spent

\* BudgetError: declined at once, the caller decides what to drop.
Refuse ==
  /\ call.op # "none" /\ now >= call.until /\ Spent
  /\ Return("refused", "nothing")
  /\ UNCHANGED <<github, cache, budget, now, past>>

\* A rate limit is waited out, up to the cap, and takes no attempt. The
\* secondary limit comes without a time, and its waits are short.
Limited ==
  /\ MaySend
  /\ \/ github.left = 0 /\ Heard
     \/ github.left > 0 /\ Faults
  /\ RecordRateLimit(github.left)
  /\ IF call.limited = MaxLimited
     THEN Return("error", "nothing")
     ELSE /\ call' = [call EXCEPT !.limited = @ + 1, !.sent = @ + 1,
                        !.until = IF github.left = 0 THEN now + Min({github.reset - now, LimitCap}) ELSE now]
          /\ UNCHANGED answer
  /\ UNCHANGED <<cache, now>>

\* No answer, or a 5xx: another attempt, after a backoff of seconds.
Failed ==
  /\ MaySend /\ github.left > 0
  /\ Faults
  /\ IF call.attempt + 1 = MaxRetries
     THEN Return("error", "nothing")
     ELSE /\ call' = [call EXCEPT !.attempt = @ + 1, !.sent = @ + 1]
          /\ UNCHANGED answer
  /\ UNCHANGED <<github, cache, budget, now>>

(* ---------------------------- hasWorkflows ------------------------------ *)

Pruned(e) == IF e.used < now - Retention THEN NoProbe ELSE e
PruneCaches ==
  IF cache.pruned # Unknown /\ now - cache.pruned < PruneGap THEN cache
  ELSE [runs |-> Pruned(cache.runs), run |-> Pruned(cache.run), pruned |-> now,
        workflows |-> IF cache.workflows.used < now - Retention THEN NoPresence ELSE cache.workflows]

\* Mutant of Touched: a lookup counts as a check, and none ever comes.
TouchedChecked(p) == IF p.known THEN [p EXCEPT !.used = now, !.checked = now] ELSE p

Touched(p) == IF p.known THEN [p EXCEPT !.used = now] ELSE p

\* GetInProgressRuns, up to its first request.
Probe ==
  /\ call.op = "none"
  /\ LET swept == PruneCaches
         presence == Touched(swept.workflows)
     IN
     /\ cache' = [swept EXCEPT !.workflows = presence]
     /\ IF presence.known /\ presence.has
        THEN call' = Ask("runs", swept.runs) /\ UNCHANGED answer
        ELSE IF presence.known /\ now - presence.checked < PresenceTTL
        THEN /\ call' = NoCall
             /\ answer' = [what |-> "absent", body |-> "no runs", truth |-> InProgress,
                           fits |-> now - past.emptyAt < PresenceTTL]
        ELSE call' = Ask("presence", [tag |-> presence.tag, body |-> "nothing"]) /\ UNCHANGED answer
  /\ UNCHANGED <<github, budget, now, past>>

MarkWorkflows(has, tag) ==
  cache' = [cache EXCEPT !.workflows =
              [known |-> TRUE, has |-> has, tag |-> tag, checked |-> now, used |-> now]]

\* With workflows the runs are asked for, without any there are none.
Present(has) ==
  IF has THEN call' = Ask("runs", cache.runs) /\ UNCHANGED answer
  ELSE /\ call' = NoCall
       /\ answer' = [what |-> "absent", body |-> "no runs", truth |-> InProgress,
                     fits |-> github.workflows # "some"]

(* ----------------------------- the answers ------------------------------ *)

\* Mutant of Restamped: an answer that is still good is not in use.
RestampedNever(e) == e

Restamped(e) == IF e = NoProbe THEN e ELSE [e EXCEPT !.used = now]

\* Only a conditional request can be answered so; it is not billed.
NotModified ==
  /\ MaySend /\ github.left > 0 /\ Found
  /\ call.tag = Body
  /\ past' = [past EXCEPT !.scolded = @ \/ Spent, !.usedAt = IF call.op = "runs" THEN now ELSE @]
  /\ RecordRateLimit(github.left)
  /\ CASE call.op = "presence" -> MarkWorkflows(cache.workflows.has, cache.workflows.tag)
                                  /\ Present(cache.workflows.has)
       [] call.op = "runs" -> /\ cache' = [cache EXCEPT !.runs = Restamped(@)]
                              /\ Return("runs", call.body)
       [] call.op = "run" -> /\ cache' = [cache EXCEPT !.run = Restamped(@)]
                             /\ Return("run", call.body)
  /\ UNCHANGED now

\* 404: Actions is disabled, or the repo is gone. No workflows, and no tag.
Missing ==
  /\ MaySend /\ github.left > 0 /\ ~Found
  /\ Heard
  /\ RecordRateLimit(Billed)
  /\ IF call.op = "presence"
     THEN MarkWorkflows(FALSE, NoTag) /\ Present(FALSE)
     ELSE Return("error", "nothing") /\ UNCHANGED cache
  /\ UNCHANGED now

\* Mutant of Stored: an answer without a tag leaves the old one.
StoredOver(old, tag, body) == [tag |-> IF tag = NoTag THEN old.tag ELSE tag, body |-> body, used |-> now]

Stored(old, tag, body) == [tag |-> tag, body |-> body, used |-> now]

\* A run that is over, or came without a tag, is not kept.
StoredRun(tag) ==
  IF Body = "completed" \/ tag = NoTag THEN NoProbe ELSE Stored(cache.run, tag, Body)

Fresh ==
  /\ MaySend /\ github.left > 0 /\ Found
  /\ call.tag # Body
  /\ RecordRateLimit(Billed)
  /\ \E tagged \in BOOLEAN :
       LET tag == IF tagged THEN Body ELSE NoTag IN
       /\ tagged \/ past.faults < MaxFaults
       /\ past' = [past EXCEPT
            !.faults = IF tagged THEN @ ELSE @ + 1,
            !.scolded = @ \/ Spent,
            !.tagged = IF call.op = "runs" THEN tag ELSE @,
            !.usedAt = IF call.op = "runs" THEN now ELSE @,
            !.wasted = @ \/ (/\ call.op = "runs" /\ past.tagged = Body
                             /\ now - past.usedAt =< Retention)]
       /\ CASE call.op = "presence" -> MarkWorkflows(Body = "some", tag) /\ Present(Body = "some")
            [] call.op = "runs" -> /\ cache' = [cache EXCEPT !.runs = Stored(@, tag, Body)]
                                   /\ Return("runs", Body)
            [] call.op = "run" -> cache' = [cache EXCEPT !.run = StoredRun(tag)] /\ Return("run", Body)
  /\ UNCHANGED now

\* GetRun, up to its request; the loop asks about a run it has seen.
Reread ==
  /\ call.op = "none" /\ github.run # "none"
  /\ call' = Ask("run", cache.run)
  /\ UNCHANGED <<github, cache, budget, now, answer, past>>

Next ==
  \/ RepoMoves \/ Tick \/ OthersSpend
  \/ Probe \/ Reread
  \/ Refuse \/ Limited \/ Failed \/ NotModified \/ Missing \/ Fresh

(* ------------------------------ properties ------------------------------ *)

(* What a probe or a re-read returns is what GitHub had when it answered,   *)
(* also when the answer was a 304 and the body a cached one: no entry keeps *)
(* the tag of one body with another (doConditional, storeRunsProbe, GetRun).*)
AnswersAreCurrent == answer.what \in {"runs", "run"} => answer.body = answer.truth

(* A repo is skipped for having no workflows only if it had none within the *)
(* TTL: being asked about does not keep a negative answer alive, and a 304  *)
(* does (hasWorkflows).                                                     *)
AddedWorkflowIsNoticed == answer.fits

(* Once GitHub said that nothing is left of a window, nothing is asked of   *)
(* it before the window ends, not even as a retry (checkBudget at the top   *)
(* of every attempt).                                                       *)
SpentIsLeftAlone == ~past.scolded

(* Probing a repo on which nothing changed is not billed, as long as it is  *)
(* probed at all within the retention (pruneCaches, usedAt).                *)
IdleStaysFree == ~past.wasted

(* A call ends after so many requests, though a rate limit takes no attempt *)
(* from it.                                                                 *)
CallsAreBounded == call.sent < MaxRetries + MaxLimited
=============================================================================
