---------------------------- MODULE ForgejoClient ----------------------------
(* The Forgejo client of the CI loop (forgejo/internal/forgejo/client.go):  *)
(* its retries, the repositories it writes off for having no Actions, and   *)
(* the routes by which it finds an owner's repositories. The loop makes one *)
(* call at a time. Waits are shorter than a unit of time.                   *)
EXTENDS Integers, SequencesExt

CONSTANTS
  NoActionsTTL,  \* how long a repo stays written off
  MaxRetries, MaxLimited,  \* attempts; rate-limit retries, which take none
  PageSize, MaxPages,      \* of the repository lists
  LastTime, MaxFaults      \* bounds

VARIABLES
  forge,   \* the repo's Actions, the repos there are, the routes it refuses
  call,    \* the call being made
  client,  \* the login and when the repo was written off
  now,
  answer,  \* what the last call returned, if it has
  past     \* faults; when there were last no Actions

vars == <<forge, call, client, now, answer, past>>

Unknown == -9
Us == "us"   \* the token's login
NoLogin == ""

\* Ours, one of them archived, and another's that the token reaches too. The
\* forge has some of them, or all the other way round.
Hosted ==
  <<[name |-> "a", owner |-> Us, usable |-> TRUE], [name |-> "b", owner |-> Us, usable |-> FALSE],
    [name |-> "c", owner |-> Us, usable |-> TRUE], [name |-> "d", owner |-> Us, usable |-> TRUE],
    [name |-> "e", owner |-> "org", usable |-> TRUE]>>
Lists == {SubSeq(Hosted, i, j) : i, j \in 1..Len(Hosted)} \union {Reverse(Hosted)}

NoCall == [op |-> "none", route |-> "", page |-> 1, out |-> <<>>, attempt |-> 0, limited |-> 0, sent |-> 0]
NoAnswer == [what |-> "none", repos |-> <<>>, fits |-> TRUE]

Init ==
  /\ \E repos \in Lists, owner \in {Us, "org"}, refuses \in {{}, {"org"}, {"reachable", "org"}} :
       forge = [actions |-> TRUE, repos |-> repos, owner |-> owner, refuses |-> refuses]
  /\ call = NoCall
  /\ client = [login |-> NoLogin, off |-> Unknown]
  /\ now = 0
  /\ answer = NoAnswer
  /\ past = [faults |-> 0, absentAt |-> Unknown]

ForgeMoves ==
  /\ forge' = [forge EXCEPT !.actions = ~@]
  /\ past' = [past EXCEPT !.absentAt = now]
  /\ UNCHANGED <<call, client, now, answer>>

Tick ==
  /\ now < LastTime /\ now' = now + 1
  /\ past' = [past EXCEPT !.absentAt = IF forge.actions THEN @ ELSE now + 1]
  /\ UNCHANGED <<forge, call, client, answer>>

(* -------------------------------- requests ------------------------------ *)

Request(op, route, page, out) == [NoCall EXCEPT !.op = op, !.route = route, !.page = page, !.out = out]
Return(what, repos) == call' = NoCall /\ answer' = [what |-> what, repos |-> repos, fits |-> TRUE]
Open == call.op # "none"
Faults == past.faults < MaxFaults /\ past' = [past EXCEPT !.faults = @ + 1]

\* Mutant of LimitedOut: waiting out a rate limit is not counted.
LimitedNever == FALSE

LimitedOut == call.limited = MaxLimited

(* -------------------------------- the runs ------------------------------ *)

\* The stamp that is too old goes.
actionsDisabled == client.off # Unknown /\ now - client.off =< NoActionsTTL

GetActiveRuns ==
  /\ ~Open
  /\ IF actionsDisabled
     THEN /\ answer' = [what |-> "skipped", repos |-> <<>>, fits |-> now - past.absentAt =< NoActionsTTL]
          /\ UNCHANGED <<call, client>>
     ELSE /\ client' = [client EXCEPT !.off = Unknown]
          /\ call' = Request("runs", "runs", 1, <<>>) /\ answer' = NoAnswer
  /\ UNCHANGED <<forge, now, past>>

\* Mutant of apiNotFound: whoever sent the 404.
AnyNotFound(status) == status \in {"absent", "proxy"}

\* A 404 that Forgejo sent, not what sits in front of it.
apiNotFound(status) == status = "absent"

RunsRefused(status) ==
  IF apiNotFound(status) THEN client' = [client EXCEPT !.off = now] /\ Return("no runs", <<>>)
  ELSE Return("error", <<>>) /\ UNCHANGED client

(* ------------------------------- the repos ------------------------------ *)

ListRepos ==
  /\ ~Open
  /\ call' = Request("repos", "reachable", 1, <<>>) /\ answer' = NoAnswer
  /\ UNCHANGED <<forge, client, now, past>>

OwnedBy(repos, owner) == SelectSeq(repos, LAMBDA r : r.owner = owner)
filterByOwner(repos) == OwnedBy(repos, forge.owner)

\* Mutant of Narrow: the list is left as it is if the look-up failed.
NarrowIfKnown(login, out) ==
  IF login \in {forge.owner, NoLogin} THEN Return("repos", out)
  ELSE IF filterByOwner(out) # <<>> THEN Return("repos", filterByOwner(out))
  ELSE call' = Request("repos", "org", 1, <<>>) /\ UNCHANGED answer

\* All that the token reaches when it is known to be the owner's own, else the
\* owner's: without a login too, whatever the comment of the look-up says.
Narrow(login, out) ==
  IF login = forge.owner THEN Return("repos", out)
  ELSE IF filterByOwner(out) # <<>> THEN Return("repos", filterByOwner(out))
  ELSE call' = Request("repos", "org", 1, <<>>) /\ UNCHANGED answer

Listed(out) ==
  CASE call.route = "reachable" /\ client.login # NoLogin -> Narrow(client.login, out)
    [] call.route = "reachable" /\ client.login = NoLogin ->
         call' = Request("repos", "login", 1, out) /\ UNCHANGED answer
    [] OTHER -> Return("repos", out)

\* What a route lists; a page is short when it is the last.
Rows == IF call.route = "reachable" THEN forge.repos ELSE filterByOwner(forge.repos)
PageOf(rows) == SubSeq(rows, (call.page - 1) * PageSize + 1, Min({call.page * PageSize, Len(rows)}))

listReposPaged ==
  LET page == PageOf(Rows)
      out == call.out \o SelectSeq(page, LAMBDA r : r.usable)
  IN IF Len(page) < PageSize \/ call.page = MaxPages THEN Listed(out)
     ELSE call' = Request("repos", call.route, call.page + 1, out) /\ UNCHANGED answer

\* Mutant of RouteFailed: what was listed so far is the list.
RouteCutShort(status) ==
  CASE call.route = "login" -> Narrow(NoLogin, call.out)
    [] call.route # "login" /\ call.page > 1 -> Listed(call.out)
    [] OTHER -> Return("error", <<>>)

\* The owner's endpoints have their turn when the token's own list fails.
RouteFailed(status) ==
  CASE call.route = "reachable" -> call' = Request("repos", "org", 1, <<>>) /\ UNCHANGED answer
    [] call.route = "login" -> Narrow(NoLogin, call.out)
    [] call.route = "org" /\ status # "fault" -> call' = Request("repos", "user", 1, <<>>) /\ UNCHANGED answer
    [] OTHER -> Return("error", <<>>)

(* -------------------------------- answers ------------------------------- *)

Served == IF call.op = "runs" THEN forge.actions ELSE call.route \notin forge.refuses

Answered ==
  /\ Open /\ Served
  /\ CASE call.op = "runs" -> Return("runs", <<>>) /\ UNCHANGED client
       [] call.route = "login" -> client' = [client EXCEPT !.login = Us] /\ Narrow(Us, call.out)
       [] OTHER -> listReposPaged /\ UNCHANGED client
  /\ UNCHANGED <<forge, now, past>>

\* A 4xx is not tried again.
GivenUp(status) ==
  IF call.op = "runs" THEN RunsRefused(status) ELSE RouteFailed(status) /\ UNCHANGED client

Refused ==
  /\ Open
  /\ \/ ~Served /\ GivenUp(IF call.op = "runs" THEN "absent" ELSE "forbidden") /\ UNCHANGED past
     \/ Faults /\ GivenUp("proxy")
  /\ UNCHANGED <<forge, now>>

\* A 429 is waited out, a few times, and takes no attempt.
Limited ==
  /\ Open /\ Faults
  /\ IF LimitedOut THEN GivenUp("fault")
     ELSE /\ call' = [call EXCEPT !.limited = @ + 1, !.sent = @ + 1]
          /\ UNCHANGED <<client, answer>>
  /\ UNCHANGED <<forge, now>>

\* No answer, or a 5xx.
Failed ==
  /\ Open /\ Faults
  /\ IF call.attempt + 1 = MaxRetries THEN GivenUp("fault")
     ELSE /\ call' = [call EXCEPT !.attempt = @ + 1, !.sent = @ + 1]
          /\ UNCHANGED <<client, answer>>
  /\ UNCHANGED <<forge, now>>

Next == ForgeMoves \/ Tick \/ GetActiveRuns \/ ListRepos \/ Answered \/ Refused \/ Limited \/ Failed

(* ------------------------------ properties ------------------------------ *)

(* A repo is passed over unasked only while Forgejo itself has said, within *)
(* the TTL, that it has no Actions: a proxy's 404 does not blind the bridge *)
(* (GetActiveRuns).                                                         *)
AbsenceIsForgejos == answer.what = "skipped" => answer.fits

Within(rows) == SelectSeq(SubSeq(rows, 1, Min({PageSize * MaxPages, Len(rows)})), LAMBDA r : r.usable)
OwnersOf(repos) == ToSet(OwnedBy(repos, forge.owner))

(* A list of repos misses none of the owner's within the page cap, whatever *)
(* fails on the way: past the cap it is cut short and no error. It has none *)
(* that are archived, those of others only if the look-up of the login said *)
(* that the token is the owner's, and is not empty for want of a page that  *)
(* the owner's own endpoint would have had (ListRepos).                     *)
ReposAreWhole ==
  answer.what = "repos" =>
    LET found == ToSet(answer.repos)
    IN /\ OwnersOf(Within(forge.repos)) \subseteq found
       /\ \A r \in found : r.usable /\ (r.owner = forge.owner \/ client.login = forge.owner)
       /\ found = {} /\ client.login # forge.owner => Within(filterByOwner(forge.repos)) = <<>>

(* A request is sent a bounded number of times (doWithRetry).               *)
RequestsAreBounded == call.sent < MaxRetries + MaxLimited
=============================================================================
