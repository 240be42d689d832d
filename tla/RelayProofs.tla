---------------------------- MODULE RelayProofs ----------------------------
(***************************************************************************)
(* Theorems about Relay.  What a handler may still have to do is said of   *)
(* the plan it has left, never of the webhook it began with: a step takes  *)
(* the first call off, or goes on with the plan that the call leads to.    *)
(* First the alerts on the phones (AlarmsStop), then the card (CardStays). *)
(***************************************************************************)
EXTENDS Relay, SequenceTheorems, TLAPS

---------------------------------------------------------------------------
(* Plans in general.                                                       *)

Of(plan) == {plan[i] : i \in 1..Len(plan)}
Has(plan, what) == \E x \in Of(plan) : x.do \in what

\* Every call named first comes before any call named then.
Before(plan, first, then) ==
  \A i, j \in 1..Len(plan) : plan[i].do = first /\ plan[j].do = then => i < j

\* A sequence of calls in which nothing follows the answer.
IsPlan(plan) ==
  /\ \E calls : plan \in Seq(calls)
  /\ \A i \in 1..Len(plan) : plan[i].do = "answer" => i = Len(plan)

---------------------------------------------------------------------------
(* The plans of the alerting services and of the universal alerts, without *)
(* what only a fault leads to.  A setting is the service, and the channels *)
(* that all its URLs have.                                                 *)

Notifies == \A u \in urls : AllowsNotification(u)
Setting == [service |-> provider, shows |-> AllActivity, notifies |-> Notifies]

\* A universal alert of a service without activities has no row.
Rowless(c) == c.service = "alert" /\ ~c.shows

Inert(plan) == IsPlan(plan) /\ \A x \in Of(plan) : x.do = "answer"

AsideCall(x) ==
  \/ x.do = "answer"
  \/ x.do \in {"push", "send"} /\ x.note = "notice"
  \/ x.do = "create" /\ x.key = "side"
  \/ x.do = "update" /\ x.key = "side" /\ x.state = "ongoing" /\ x.or = Refused
AsidePlan(plan) == IsPlan(plan) /\ \A x \in Of(plan) : AsideCall(x)

OnCall(x) ==
  \/ x.do = "answer"
  \/ x.do \in {"stop", "set", "create"} /\ x.key = "main"
  \/ x.do = "update" /\ x.key = "main" /\ x.state = "ongoing" /\ x.or = Refused
OnPlan(c, plan) == c.service # "alert" /\ IsPlan(plan) /\ \A x \in Of(plan) : OnCall(x)

RollBack == {<<Delete("main")>> \o Refuse}
TellCall(c, x) ==
  \/ x.do = "answer"
  \/ x.do = "set" /\ x.key = "main" /\ ~Rowless(c)
  \/ x.do = "create" /\ x.key = "main"
  \/ x.do = "update" /\ x.key = "main" /\ x.state = "ongoing" /\ x.or \in {Refused, RollBack}
  \/ x.do = "send" /\ x.note = "alert" /\ c.notifies
Tells(c, plan) ==
  /\ IsPlan(plan) /\ \A x \in Of(plan) : TellCall(c, x)
  /\ Before(plan, "set", "send") /\ Before(plan, "create", "update")
Undoes(plan) == \E x \in Of(plan) : x.do = "update" /\ x.or = RollBack

\* One that a look-up leads to: the row is written before the alert is sent.
News(c, plan) ==
  /\ Tells(c, plan)
  /\ Has(plan, {"send"}) => Has(plan, {"set"}) \/ Rowless(c)
  /\ Undoes(plan) => Has(plan, {"create"})

LooksUp(c, plan) ==
  /\ IsPlan(plan) /\ Len(plan) \in 1..2
  /\ Len(plan) = 2 => plan[1] = StopTimer("main")
  /\ LET get == plan[Len(plan)]
     IN get.do = "get" /\ get.key = "main" /\ News(c, get.found) /\ News(c, get.absent)

\* Bookkeeping, of an activity that is shown and whose end is not under way.
Books(c, plan) ==
  /\ IsPlan(plan) /\ Len(plan) = 1
  /\ plan[1].do = "get" /\ plan[1].key = "main"
  /\ LooksUp(c, plan[1].found) /\ Len(plan[1].found) = 2 /\ Inert(plan[1].absent)
AsksFirst(c, plan) ==
  /\ IsPlan(plan) /\ Len(plan) = 1
  /\ plan[1].do = "ifPending" /\ plan[1].key = "main"
  /\ Inert(plan[1].pending) /\ Books(c, plan[1].over)

RaisePlan(c, plan) == Tells(c, plan) \/ LooksUp(c, plan) \/ Books(c, plan) \/ AsksFirst(c, plan)

Outcome(plan) ==
  /\ IsPlan(plan)
  /\ \A x \in Of(plan) : x.do = "answer" \/ (x.do = "push" /\ x.note = "resolved")
  /\ Has(plan, {"push"})
EndCall(c, x) ==
  \/ x.do = "answer"
  \/ x.do = "end" /\ x.key = "main" /\ c.shows
  \/ x.do = "delete" /\ x.key = "main" /\ ~c.shows /\ c.service # "alert"
  \/ x.do = "push" /\ x.note = "resolved"
  \/ x.do = "retract" /\ Inert(x.gone) /\ \E still \in x.or : x.or = {still} /\ Outcome(still)
Ends(c, plan) == IsPlan(plan) /\ \A x \in Of(plan) : EndCall(c, x)

\* It takes the alert off the phones, or replaces it by "resolved".
Clears(plan) == Has(plan, {"push", "retract"})
Ending(c, plan) == Ends(c, plan) /\ (c.notifies => Clears(plan))

AsksEnd(c, plan) ==
  /\ IsPlan(plan) /\ Len(plan) = 1
  /\ plan[1].do = "ifPending" /\ plan[1].key = "main"
  /\ Inert(plan[1].pending) /\ Ending(c, plan[1].over)

EndLook(c, x) ==
  /\ x.key = "main"
  /\ \/ x.do = "get" /\ c.service # "alert" /\ Ending(c, x.found) /\ Inert(x.absent)
     \/ x.do = "get" /\ c.service = "alert" /\ AsksEnd(c, x.found) /\ Ending(c, x.absent)
     \/ x.do = "endIfTracked" /\ Rowless(c) /\ Ending(c, x.absent)
EndLooksUp(c, plan) ==
  /\ IsPlan(plan) /\ Len(plan) \in 1..2
  /\ Len(plan) = 2 => plan[1].do = "cancel"
  /\ EndLook(c, plan[Len(plan)])

OffPlan(c, plan) == Ends(c, plan) \/ AsksEnd(c, plan) \/ EndLooksUp(c, plan)

\* What the handler of a webhook that says so may still have to do.
Voice(c, says, plan) ==
  \/ says = "nothing" /\ AsidePlan(plan)
  \/ says = "on" /\ OnPlan(c, plan)
  \/ says \in {"alert", "unsure"} /\ RaisePlan(c, plan)
  \/ says = "off" /\ OffPlan(c, plan)

---------------------------------------------------------------------------
(* The invariant, while nothing has gone wrong.                            *)

Clearing == \E h \in Handlers : handler[h].says = "off" /\ Clears(handler[h].plan)
Raising == \E h \in Handlers : handler[h].says \in {"alert", "unsure"}

Typed ==
  /\ handler = [h \in Handlers |-> [says |-> handler[h].says, plan |-> handler[h].plan]]
  /\ row \in [Keys -> BOOLEAN]
  /\ end \in [Keys -> {"none", "phase1", "phase2", "running"}]
  /\ callback \in [Keys -> {"none", "ended", "row"}]
  /\ card \in [Keys -> {"none", "ongoing", "ended"}]
  /\ repeats \in BOOLEAN

\* An end is not under way from the look-up of an alert on, and the row is
\* there when it is sent.
RaisesWell(h) ==
  handler[h].says \in {"alert", "unsure"} =>
    /\ Has(handler[h].plan, {"get", "set", "send"}) /\ ~Has(handler[h].plan, {"stop"})
         => end["main"] = "none"
    /\ Has(handler[h].plan, {"send"}) /\ ~Has(handler[h].plan, {"set"})
         => row["main"] \/ provider = "alert"
    /\ Undoes(handler[h].plan) /\ ~Has(handler[h].plan, {"create"}) => card["main"] # "none"

\* A resolve that is past its look-ups leaves no alert that nobody clears.
EndsWell(h) ==
  handler[h].says = "off" =>
    /\ Ends(Setting, handler[h].plan) /\ note = "alert" => Clearing
    /\ Notifies /\ ~Has(handler[h].plan, {"cancel"}) => ~repeats

Heard ==
  \A h \in Handlers :
    /\ Voice(Setting, handler[h].says, handler[h].plan)
    /\ RaisesWell(h) /\ EndsWell(h)

OneVoice == \A g, h \in Busy : handler[g].says = handler[h].says

Tidy ==
  /\ callback["main"] # "none" => end["main"] = "running"
  /\ ~AllActivity => end["main"] = "none"
  /\ Rowless(Setting) => ~row["main"]
  /\ ~Notifies => note # "alert" /\ ~repeats

\* An alert on the phones has a row for its resolve to find, or is being
\* cleared; and it is not older than the last resolve.
TakenBack ==
  /\ note = "alert" /\ provider # "alert" => row["main"] \/ Clearing
  /\ note = "alert" /\ end["main"] # "none" => Clearing
  /\ note = "alert" /\ last = "off" => Clearing \/ Raising
  /\ repeats /\ last = "off" => Raising

AskingUrls == \A u \in urls : u.ack /\ u.retract
Untroubled ==
  hurt = {} /\ ~raced /\ provider \in Alerting \union {"alert"} /\ AskingUrls

Alarms == Typed /\ Heard /\ OneVoice /\ Tidy /\ TakenBack

---------------------------------------------------------------------------
(* Facts about plans.                                                      *)

\* A plan of no call, of one, and of two.
LEMMA Concrete ==
  /\ Of(<<>>) = {} /\ IsPlan(<<>>)
  /\ \A x : Of(<<x>>) = {x} /\ IsPlan(<<x>>) /\ Len(<<x>>) = 1 /\ <<x>>[1] = x
  /\ \A x, y : x.do # "answer" =>
       /\ Of(<<x, y>>) = {x, y} /\ IsPlan(<<x, y>>) /\ Len(<<x, y>>) = 2
       /\ <<x, y>>[1] = x /\ <<x, y>>[2] = y
<1>1. Of(<<>>) = {} /\ IsPlan(<<>>)
  BY DEF Of, IsPlan
<1>2. ASSUME NEW x PROVE Of(<<x>>) = {x} /\ IsPlan(<<x>>) /\ Len(<<x>>) = 1 /\ <<x>>[1] = x
  <2> DEFINE p == <<x>>
  <2>1. p \in Seq({x}) /\ Len(p) = 1 /\ p[1] = x  OBVIOUS
  <2> HIDE DEF p
  <2>2. Of(p) = {x}  BY <2>1 DEF Of
  <2>3. IsPlan(p)  BY <2>1, <2>2 DEF IsPlan
  <2>4. QED  BY <2>1, <2>2, <2>3 DEF p
<1>3. ASSUME NEW x, NEW y, x.do # "answer"
      PROVE  /\ Of(<<x, y>>) = {x, y} /\ IsPlan(<<x, y>>) /\ Len(<<x, y>>) = 2
             /\ <<x, y>>[1] = x /\ <<x, y>>[2] = y
  <2> DEFINE p == <<x, y>>
  <2>1. p \in Seq({x, y}) /\ Len(p) = 2 /\ p[1] = x /\ p[2] = y  OBVIOUS
  <2> HIDE DEF p
  <2>2. Of(p) = {x, y}
    <3>1. 1..Len(p) = {1, 2}  BY <2>1
    <3>2. QED  BY <2>1, <3>1 DEF Of
  <2>3. IsPlan(p)
    <3>1. \A i \in 1..Len(p) : i = 1 \/ i = 2  BY <2>1
    <3>2. QED  BY <1>3, <2>1, <2>2, <3>1 DEF IsPlan
  <2>4. QED  BY <2>1, <2>2, <2>3 DEF p
<1>4. QED  BY <1>1, <1>2, <1>3

\* The order of the calls of a short plan.
LEMMA Ordered ==
  /\ \A first, then : Before(<<>>, first, then)
  /\ \A x, first, then : first # then => Before(<<x>>, first, then)
  /\ \A x, y, first, then :
       x.do # "answer" /\ first # then /\ (x.do # then \/ y.do # first) => Before(<<x, y>>, first, then)
<1>1. ASSUME NEW first, NEW then PROVE Before(<<>>, first, then)
  BY DEF Before
<1>2. ASSUME NEW x, NEW first, NEW then, first # then PROVE Before(<<x>>, first, then)
  <2> DEFINE p == <<x>>
  <2>1. Len(p) = 1 /\ p[1] = x  OBVIOUS
  <2> HIDE DEF p
  <2>2. Before(p, first, then)  BY <1>2, <2>1 DEF Before
  <2>3. QED  BY <2>2 DEF p
<1>3. ASSUME NEW x, NEW y, NEW first, NEW then, x.do # "answer", first # then, x.do # then \/ y.do # first
      PROVE  Before(<<x, y>>, first, then)
  <2> DEFINE p == <<x, y>>
  <2>1. Len(p) = 2 /\ p[1] = x /\ p[2] = y  OBVIOUS
  <2> HIDE DEF p
  <2>2. \A i \in 1..Len(p) : i = 1 \/ i = 2  BY <2>1
  <2>3. Before(p, first, then)  BY <1>3, <2>1, <2>2 DEF Before
  <2>4. QED  BY <2>3 DEF p
<1>4. QED  BY <1>1, <1>2, <1>3

\* Two plans in a row; the first has not answered yet.
LEMMA Joined ==
  ASSUME NEW p, NEW q, IsPlan(p), IsPlan(q), ~Has(p, {"answer"})
  PROVE  /\ IsPlan(p \o q) /\ Of(p \o q) = Of(p) \union Of(q)
         /\ \A first, then :
              Before(p, first, then) /\ Before(q, first, then)
              /\ (~Has(p, {then}) \/ ~Has(q, {first}))
                => Before(p \o q, first, then)
<1> DEFINE r == p \o q  S == Of(p) \union Of(q)
<1>0. PICK A, B : p \in Seq(A) /\ q \in Seq(B)  BY DEF IsPlan
<1>1. p \in Seq(A \union B) /\ q \in Seq(A \union B)  BY <1>0
<1>2. /\ r \in Seq(A \union B) /\ Len(r) = Len(p) + Len(q)
      /\ \A i \in 1..Len(p) : r[i] = p[i]
      /\ \A i \in 1..Len(q) : r[Len(p) + i] = q[i]
  BY <1>1
<1>3. Len(p) \in Nat /\ Len(q) \in Nat  BY <1>1
<1> HIDE DEF r
<1>4. \A i \in 1..Len(r) :
        \/ i \in 1..Len(p) /\ r[i] = p[i]
        \/ i - Len(p) \in 1..Len(q) /\ r[i] = q[i - Len(p)] /\ i > Len(p)
  <2> SUFFICES ASSUME NEW i \in 1..Len(r), i > Len(p)
               PROVE  i - Len(p) \in 1..Len(q) /\ r[i] = q[i - Len(p)]
    BY <1>2, <1>3
  <2>1. i - Len(p) \in 1..Len(q)  BY <1>2, <1>3
  <2>2. Len(p) + (i - Len(p)) = i  BY <1>3
  <2>3. QED  BY <1>2, <2>1, <2>2
<1>5. Of(r) = S
  <2>1. Of(r) \subseteq S  BY <1>4 DEF Of
  <2>2. Of(p) \subseteq Of(r)  BY <1>2, <1>3 DEF Of
  <2>3. Of(q) \subseteq Of(r)
    <3>1. \A i \in 1..Len(q) : Len(p) + i \in 1..Len(r)  BY <1>2, <1>3
    <3>2. QED  BY <1>2, <3>1 DEF Of
  <2>4. QED  BY <2>1, <2>2, <2>3
<1>6. IsPlan(r)
  <2>1. ASSUME NEW i \in 1..Len(r), r[i].do = "answer" PROVE i = Len(r)
    <3>1. ~(i \in 1..Len(p) /\ r[i] = p[i])  BY <2>1 DEF Has, Of
    <3>2. i - Len(p) \in 1..Len(q) /\ r[i] = q[i - Len(p)]  BY <1>4, <3>1
    <3>3. i - Len(p) = Len(q)  BY <2>1, <3>2 DEF IsPlan
    <3>4. QED  BY <1>2, <1>3, <3>3
  <2>2. QED  BY <1>2, <2>1 DEF IsPlan
<1>7. ASSUME NEW first, NEW then, Before(p, first, then), Before(q, first, then),
             ~Has(p, {then}) \/ ~Has(q, {first})
      PROVE  Before(r, first, then)
  <2> SUFFICES ASSUME NEW i \in 1..Len(r), NEW j \in 1..Len(r), r[i].do = first, r[j].do = then
               PROVE  i < j
    BY DEF Before
  <2>1. CASE i \in 1..Len(p) /\ j \in 1..Len(p)
    BY <1>2, <1>7, <2>1 DEF Before
  <2>2. CASE i > Len(p) /\ j > Len(p)
    <3>1. /\ i - Len(p) \in 1..Len(q) /\ r[i] = q[i - Len(p)]
          /\ j - Len(p) \in 1..Len(q) /\ r[j] = q[j - Len(p)]
      BY <1>3, <1>4, <2>2
    <3>2. i - Len(p) < j - Len(p)  BY <1>7, <3>1 DEF Before
    <3>3. QED  BY <1>3, <3>2
  <2>3. CASE i \in 1..Len(p) /\ j > Len(p)
    BY <1>3, <2>3
  <2>4. CASE i > Len(p) /\ j \in 1..Len(p)
    <3>1. i - Len(p) \in 1..Len(q) /\ r[i] = q[i - Len(p)]  BY <1>3, <1>4, <2>4
    <3>2. Has(q, {first}) /\ Has(p, {then})  BY <1>2, <2>4, <3>1 DEF Has, Of
    <3>3. QED  BY <1>7, <3>2
  <2>5. QED  BY <1>2, <1>3, <2>1, <2>2, <2>3, <2>4
<1>8. QED  BY <1>5, <1>6, <1>7 DEF r

\* The first call of a plan, and what it leaves.
LEMMA Taken ==
  ASSUME NEW p, IsPlan(p), p # <<>>
  PROVE  /\ IsPlan(Tail(p)) /\ Len(Tail(p)) = Len(p) - 1 /\ Len(p) \in Nat \ {0}
         /\ Head(p) = p[1] /\ Head(p) \in Of(p)
         /\ Of(p) = {Head(p)} \union Of(Tail(p))
         /\ \A i \in 1..Len(Tail(p)) : i + 1 \in 1..Len(p) /\ Tail(p)[i] = p[i + 1]
         /\ \A first, then : Before(p, first, then) =>
              /\ Before(Tail(p), first, then)
              /\ Head(p).do = then => ~Has(Tail(p), {first})
         /\ Head(p).do = "answer" => Len(p) = 1
<1> DEFINE t == Tail(p)
<1>0. PICK A : p \in Seq(A)  BY DEF IsPlan
<1>1. Len(p) \in Nat \ {0}  BY <1>0, EmptySeq
<1>2. /\ t \in Seq(A) /\ Len(t) = Len(p) - 1 /\ Head(p) = p[1]
      /\ \A i \in 1..Len(t) : t[i] = p[i + 1]
  BY <1>0, <1>1, HeadTailProperties
<1> HIDE DEF t
<1>3. \A i \in 1..Len(t) : i + 1 \in 1..Len(p)  BY <1>1, <1>2
<1>4. Of(p) = {p[1]} \union Of(t)
  <2>1. ASSUME NEW i \in 1..Len(p) PROVE i = 1 \/ (i - 1 \in 1..Len(t) /\ t[i - 1] = p[i])
    <3>1. i = 1 \/ i - 1 \in 1..Len(t)  BY <1>1, <1>2
    <3>2. (i - 1) + 1 = i  BY <1>1
    <3>3. QED  BY <1>2, <3>1, <3>2
  <2>2. 1 \in 1..Len(p)  BY <1>1
  <2>3. QED  BY <1>2, <1>3, <2>1, <2>2 DEF Of
<1>5. IsPlan(t)
  <2>2. ASSUME NEW i \in 1..Len(t), t[i].do = "answer" PROVE i = Len(t)
    <3>1. i + 1 = Len(p)  BY <1>2, <1>3, <2>2 DEF IsPlan
    <3>2. QED  BY <1>1, <1>2, <3>1
  <2>3. QED  BY <1>2, <2>2 DEF IsPlan
<1>6. ASSUME NEW first, NEW then, Before(p, first, then)
      PROVE  Before(t, first, then) /\ (p[1].do = then => ~Has(t, {first}))
  <2>1. ASSUME NEW i \in 1..Len(t), NEW j \in 1..Len(t), t[i].do = first, t[j].do = then PROVE i < j
    <3>1. i + 1 < j + 1  BY <1>2, <1>3, <1>6, <2>1 DEF Before
    <3>2. QED  BY <3>1
  <2>2. ASSUME p[1].do = then, NEW i \in 1..Len(t), t[i].do = first PROVE FALSE
    <3>1. i + 1 < 1  BY <1>1, <1>2, <1>3, <1>6, <2>2 DEF Before
    <3>2. QED  BY <3>1
  <2>3. QED  BY <2>1, <2>2 DEF Before, Has, Of
<1>7. 1 \in 1..Len(p)  BY <1>1
<1>8. p[1].do = "answer" => Len(p) = 1  BY <1>7 DEF IsPlan
<1>9. QED  BY <1>1, <1>2, <1>3, <1>4, <1>5, <1>6, <1>7, <1>8 DEF t, Of

---------------------------------------------------------------------------
(* The plans of the webhooks.                                              *)

\* What each call says.
LEMMA Fields ==
  /\ \A k : StopTimer(k).do = "stop" /\ StopTimer(k).key = k
  /\ \A k, err : Set(k, err).do = "set" /\ Set(k, err).key = k
  /\ \A k, err : Create(k, err).do = "create" /\ Create(k, err).key = k
  /\ \A k, state, err : /\ Update(k, state, err).do = "update" /\ Update(k, state, err).key = k
                        /\ Update(k, state, err).state = state /\ Update(k, state, err).or = err
  /\ \A k : Delete(k).do = "delete" /\ Delete(k).key = k
  /\ \A k : ScheduleEnd(k).do = "end" /\ ScheduleEnd(k).key = k
  /\ \A text, err : Push(text, err).do = "push" /\ Push(text, err).note = text
  /\ \A u, text, err : Send(u, text, err).do = "send" /\ Send(u, text, err).note = text
  /\ Cancel.do = "cancel"
BY DEF StopTimer, Set, Create, Update, Delete, ScheduleEnd, Push, Send, Cancel

LEMMA LookUpFields ==
  /\ \A k, found, absent, err :
       /\ Get(k, found, absent, err).do = "get" /\ Get(k, found, absent, err).key = k
       /\ Get(k, found, absent, err).found = found /\ Get(k, found, absent, err).absent = absent
  /\ \A k, pending, over :
       /\ IfPending(k, pending, over).do = "ifPending" /\ IfPending(k, pending, over).key = k
       /\ IfPending(k, pending, over).pending = pending /\ IfPending(k, pending, over).over = over
  /\ \A k, found, absent :
       /\ EndIfTracked(k, found, absent).do = "endIfTracked" /\ EndIfTracked(k, found, absent).key = k
       /\ EndIfTracked(k, found, absent).found = found /\ EndIfTracked(k, found, absent).absent = absent
  /\ \A gone, still :
       /\ Retract(gone, still).do = "retract"
       /\ Retract(gone, still).gone = gone /\ Retract(gone, still).or = {still}
BY DEF Get, IfPending, EndIfTracked, Retract

\* An answer is a plan, and nothing is left in it to do.
LEMMA Answers ==
  /\ IsPlan(Done) /\ IsPlan(Refuse) /\ Inert(Done) /\ Inert(Refuse)
  /\ \A x \in Of(Done) \union Of(Refuse) : x.do = "answer"
  /\ \A first, then : first # then => Before(Done, first, then) /\ Before(Refuse, first, then)
<1>1. \A ok : /\ IsPlan(Answer(ok)) /\ \A x \in Of(Answer(ok)) : x.do = "answer"
              /\ \A first, then : first # then => Before(Answer(ok), first, then)
  BY Concrete, Ordered DEF Answer
<1>2. QED  BY <1>1 DEF Done, Refuse, Inert

\* A plan that is left out, or not.
LEMMA Optional ==
  ASSUME NEW p, NEW condition, IsPlan(p)
  PROVE  /\ IsPlan(When(condition, p)) /\ Of(When(condition, p)) = IF condition THEN Of(p) ELSE {}
         /\ \A first, then : Before(p, first, then) => Before(When(condition, p), first, then)
BY Concrete, Ordered DEF When

LEMMA AsideTest == AsidePlan(SendTest)
<1> DEFINE a == Create("side", Refused)  b == Update("side", "ongoing", Refused)
<1>1. a.do = "create" /\ a.key = "side" /\ b.do = "update" /\ b.key = "side" /\ b.state = "ongoing" /\ b.or = Refused
  BY Fields
<1>2. IsPlan(<<a, b>>) /\ Of(<<a, b>>) = {a, b}  BY <1>1, Concrete
<1>3. SendTest = <<a, b>> \o Done  BY DEF SendTest
<1> HIDE DEF a, b
<1>4. ~Has(<<a, b>>, {"answer"})  BY <1>1, <1>2 DEF Has
<1>5. IsPlan(SendTest) /\ Of(SendTest) = {a, b} \union Of(Done)  BY <1>2, <1>3, <1>4, Joined, Answers
<1>6. QED  BY <1>1, <1>5, Answers DEF AsidePlan, AsideCall

LEMMA AsideNotice ==
  ASSUME NEW condition, NEW x, x.do \in {"push", "send"}, x.note = "notice"
  PROVE  AsidePlan(When(condition, <<x>>) \o Done)
<1>1. IsPlan(<<x>>) /\ Of(<<x>>) = {x}  BY Concrete
<1>2. IsPlan(When(condition, <<x>>)) /\ Of(When(condition, <<x>>)) \subseteq {x}
  BY <1>1, Optional
<1>3. ~Has(When(condition, <<x>>), {"answer"})  BY <1>2 DEF Has
<1>4. QED  BY <1>2, <1>3, Joined, Answers DEF AsidePlan, AsideCall

\* The setting of a service whose URLs are like u, and ask for everything.
OfUrl(c, u) ==
  /\ c.shows <=> AllowsActivity(u)
  /\ c.notifies <=> AllowsNotification(u)
  /\ u.ack /\ u.retract

\* A card: the activity, the row, and the alert to be sent if it is new.
LEMMA Written ==
  ASSUME NEW c, ~Rowless(c)
  PROVE  /\ Tells(c, <<Set("main", GoOn)>>) /\ Of(<<Set("main", GoOn)>>) = {Set("main", GoOn)}
         /\ ~Has(<<Set("main", GoOn)>>, {"answer"})
<1>1. Set("main", GoOn).do = "set" /\ Set("main", GoOn).key = "main"  BY Fields
<1>2. QED  BY <1>1, Concrete, Ordered DEF Tells, TellCall, Has

LEMMA Sent ==
  ASSUME NEW c, NEW u, NEW condition, NEW err, condition => c.notifies
  PROVE  LET plan == When(condition, <<Send(u, "alert", err)>>)
         IN /\ Tells(c, plan) /\ Of(plan) \subseteq {Send(u, "alert", err)} /\ ~Has(plan, {"answer"})
<1>1. Send(u, "alert", err).do = "send" /\ Send(u, "alert", err).note = "alert"  BY Fields
<1> DEFINE p == <<Send(u, "alert", err)>>  plan == When(condition, p)
<1>2. /\ IsPlan(p) /\ Of(p) = {Send(u, "alert", err)}
      /\ Before(p, "set", "send") /\ Before(p, "create", "update")
  BY Concrete, Ordered
<1>3. /\ IsPlan(plan) /\ Of(plan) = IF condition THEN Of(p) ELSE {}
      /\ Before(plan, "set", "send") /\ Before(plan, "create", "update")
  BY <1>2, Optional
<1>4. QED  BY <1>1, <1>2, <1>3 DEF Tells, TellCall, Has

\* Parts of an alert, in the order in which they are told.
LEMMA TellsJoined ==
  ASSUME NEW c, NEW p, NEW q, Tells(c, p), Tells(c, q), ~Has(p, {"answer"}),
         ~Has(p, {"send"}) \/ ~Has(q, {"set"}), ~Has(p, {"update"}) \/ ~Has(q, {"create"})
  PROVE  Tells(c, p \o q) /\ Of(p \o q) = Of(p) \union Of(q)
BY Joined DEF Tells

LEMMA DoneTells == \A c : Tells(c, Done) /\ Tells(c, Refuse)
BY Answers DEF Tells, TellCall

\* A refusal leaves the row; a roll-back deletes it first.
LEMMA RefusedIsNoRollBack == Refused # RollBack
<1> DEFINE r == <<Delete("main")>> \o Refuse
<1>1. Len(Refuse) = 1 /\ IsPlan(Refuse) /\ ~Has(<<Delete("main")>>, {"answer"})
  BY Concrete, Answers, Fields DEF Refuse, Answer, Has
<1>2. Len(r) = 2  BY Concrete DEF Refuse, Answer
<1>3. r # Refuse  BY <1>1, <1>2
<1>4. QED  BY <1>3 DEF Refused, RollBack

\* Every alert of komodo, gatus, truenas and uptimekuma.
LEMMA AlertPlan ==
  ASSUME NEW c, NEW u, OfUrl(c, u), c.service # "alert"
  PROVE  LooksUp(c, Alert(u)) /\ Len(Alert(u)) = 2
<1> DEFINE rollBack == {<<Delete("main")>> \o Refuse}
           set == <<Set("main", GoOn)>>
           C == Create("main", rollBack)
           U == Update("main", "ongoing", rollBack)
           V == Update("main", "ongoing", Refused)
           shown == When(AllowsActivity(u), <<C, U>>)
           send == When(AllowsNotification(u), <<Send(u, "alert", GoOn)>>)
           update == When(AllowsActivity(u), <<V>>)
           isNew == set \o shown \o send \o Done
           known == set \o update \o Done
           g == Get("main", known, isNew, {isNew})
<1>1. Alert(u) = <<StopTimer("main"), g>>  BY DEF Alert
<1>2. /\ C.do = "create" /\ C.key = "main"
      /\ U.do = "update" /\ U.key = "main" /\ U.state = "ongoing" /\ U.or = RollBack
      /\ V.do = "update" /\ V.key = "main" /\ V.state = "ongoing" /\ V.or = Refused
      /\ Set("main", GoOn).do = "set" /\ Send(u, "alert", GoOn).do = "send"
  BY Fields DEF RollBack
<1>3. g.do = "get" /\ g.key = "main" /\ g.found = known /\ g.absent = isNew
  <2> HIDE DEF known, isNew
  <2>1. QED  BY LookUpFields
<1>4. /\ Tells(c, set) /\ Of(set) = {Set("main", GoOn)} /\ ~Has(set, {"answer"})
  BY Written DEF Rowless
<1>5. /\ Tells(c, send) /\ Of(send) \subseteq {Send(u, "alert", GoOn)} /\ ~Has(send, {"answer"})
  BY Sent DEF OfUrl
<1>6. Tells(c, shown) /\ Of(shown) = IF AllowsActivity(u) THEN {C, U} ELSE {}
  <2>1. /\ IsPlan(<<C, U>>) /\ Of(<<C, U>>) = {C, U}
        /\ Before(<<C, U>>, "set", "send") /\ Before(<<C, U>>, "create", "update")
    BY <1>2, Concrete, Ordered
  <2>2. QED  BY <1>2, <2>1, Optional DEF Tells, TellCall
<1>7. Tells(c, update) /\ Of(update) \subseteq {V}
  <2>1. /\ IsPlan(<<V>>) /\ Of(<<V>>) = {V}
        /\ Before(<<V>>, "set", "send") /\ Before(<<V>>, "create", "update")
    BY Concrete, Ordered
  <2>2. QED  BY <1>2, <2>1, Optional DEF Tells, TellCall
<1> HIDE DEF set, C, U, V, shown, send, update
<1>8. News(c, isNew)
  <2>1. Tells(c, set \o shown) /\ Of(set \o shown) = Of(set) \union Of(shown)
    BY <1>2, <1>4, <1>6, TellsJoined DEF Has
  <2>2. Tells(c, set \o shown \o send) /\ Of(set \o shown \o send) = Of(set) \union Of(shown) \union Of(send)
    <3>1. ~Has(set \o shown, {"answer"}) /\ ~Has(set \o shown, {"send"}) /\ ~Has(send, {"create"})
      BY <1>2, <1>4, <1>5, <1>6, <2>1 DEF Has
    <3>2. Of(set \o shown \o send) = Of(set \o shown) \union Of(send) /\ Tells(c, set \o shown \o send)
      BY <1>5, <2>1, <3>1, TellsJoined
    <3>3. QED  BY <2>1, <3>2
  <2>3. Tells(c, isNew) /\ Of(isNew) = Of(set) \union Of(shown) \union Of(send) \union Of(Done)
    <3>1. ~Has(set \o shown \o send, {"answer"})  BY <1>2, <1>4, <1>5, <1>6, <2>2 DEF Has
    <3>2. ~Has(Done, {"set", "create"})  BY Answers DEF Has
    <3>3. ~Has(Done, {"set"}) /\ ~Has(Done, {"create"})  BY <3>2 DEF Has
    <3>4. QED  BY <2>2, <3>1, <3>3, TellsJoined, DoneTells
  <2>4. Undoes(isNew) => Has(isNew, {"create"})
    BY <1>2, <1>4, <1>5, <1>6, <2>3, Answers DEF Undoes, Has
  <2>5. QED  BY <1>2, <1>4, <2>3, <2>4 DEF News, Has
<1>9. News(c, known)
  <2>1. Tells(c, set \o update) /\ Of(set \o update) = Of(set) \union Of(update)
    BY <1>2, <1>4, <1>7, TellsJoined DEF Has
  <2>2. Tells(c, known) /\ Of(known) = Of(set) \union Of(update) \union Of(Done)
    BY <1>2, <1>4, <1>7, <2>1, TellsJoined, DoneTells, Answers DEF Has
  <2>3. Refused # RollBack
    BY RefusedIsNoRollBack
  <2>4. QED  BY <1>2, <1>4, <1>7, <2>2, <2>3, Answers DEF News, Undoes, Has
<1> HIDE DEF isNew, known
<1>10. /\ IsPlan(<<StopTimer("main"), g>>) /\ Len(<<StopTimer("main"), g>>) = 2
       /\ <<StopTimer("main"), g>>[1] = StopTimer("main") /\ <<StopTimer("main"), g>>[2] = g
  BY Fields, Concrete
<1> HIDE DEF g
<1> QED  BY <1>1, <1>3, <1>8, <1>9, <1>10 DEF LooksUp

\* The pending monitor of uptimekuma.
LEMMA PendingPlan ==
  ASSUME NEW c, NEW u, c.service # "alert"
  PROVE  OnPlan(c, Pending(u))
<1> DEFINE rollBack == {<<Delete("main")>> \o Refuse}
           S == StopTimer("main")
           W == Set("main", {Done})
           C == Create("main", rollBack)
           V == Update("main", "ongoing", Refused)
           calls == <<S, W, C, V>>
<1>1. /\ S.do = "stop" /\ S.key = "main" /\ W.do = "set" /\ W.key = "main"
      /\ C.do = "create" /\ C.key = "main"
      /\ V.do = "update" /\ V.key = "main" /\ V.state = "ongoing" /\ V.or = Refused
  BY Fields
<1>2. calls = <<S, W>> \o <<C, V>>  OBVIOUS
<1>3. AllowsActivity(u) => Pending(u) = calls \o Done  BY DEF Pending
<1>4. ~AllowsActivity(u) => Pending(u) = Done  BY DEF Pending
<1> HIDE DEF S, W, C, V, calls
<1>5. /\ IsPlan(<<S, W>>) /\ Of(<<S, W>>) = {S, W} /\ IsPlan(<<C, V>>) /\ Of(<<C, V>>) = {C, V}
  BY <1>1, Concrete
<1>6. ~Has(<<S, W>>, {"answer"})  BY <1>1, <1>5 DEF Has
<1>7. IsPlan(calls) /\ Of(calls) = {S, W, C, V}  BY <1>2, <1>5, <1>6, Joined
<1>8. ~Has(calls, {"answer"})  BY <1>1, <1>7 DEF Has
<1>9. IsPlan(calls \o Done) /\ Of(calls \o Done) = {S, W, C, V} \union Of(Done)
  BY <1>7, <1>8, Joined, Answers
<1>10. OnPlan(c, calls \o Done)  BY <1>1, <1>9, Answers DEF OnPlan, OnCall
<1>11. OnPlan(c, Done)  BY Answers DEF OnPlan, OnCall
<1>12. QED  BY <1>3, <1>4, <1>10, <1>11

\* The push that takes the alert's place.
LEMMA Resolving ==
  ASSUME NEW text, NEW err
  PROVE  LET plan == <<Push(text, err)>> \o Done
         IN /\ IsPlan(plan) /\ Of(plan) = {Push(text, err)} \union Of(Done)
            /\ text = "resolved" => /\ Outcome(plan) /\ Clears(plan)
                                    /\ \A c : Ending(c, plan)
<1> DEFINE P == Push(text, err)  plan == <<P>> \o Done
<1>1. P.do = "push" /\ P.note = text  BY Fields
<1> HIDE DEF P
<1>2. IsPlan(<<P>>) /\ Of(<<P>>) = {P}  BY Concrete
<1>3. ~Has(<<P>>, {"answer"})  BY <1>1, <1>2 DEF Has
<1>4. IsPlan(plan) /\ Of(plan) = {P} \union Of(Done)  BY <1>2, <1>3, Joined, Answers
<1> HIDE DEF plan
<1>5. ASSUME text = "resolved" PROVE Outcome(plan) /\ Clears(plan) /\ \A c : Ending(c, plan)
  BY <1>1, <1>4, <1>5, Answers DEF Outcome, Clears, Ending, Ends, EndCall, Has
<1>6. QED  BY <1>4, <1>5 DEF plan, P

LEMMA DoneEnds == \A c : Ends(c, Done) /\ ~Clears(Done)
BY Answers DEF Ends, EndCall, Clears, Has

\* A retracted alert is gone, or is replaced by its outcome.
LEMMA Retracting ==
  ASSUME NEW still, Outcome(still)
  PROVE  LET plan == <<Retract(Done, still)>>
         IN \A c : Ending(c, plan) /\ Clears(plan)
<1> DEFINE R == Retract(Done, still)  plan == <<R>>
<1>1. R.do = "retract" /\ R.gone = Done /\ R.or = {still}  BY LookUpFields
<1> HIDE DEF R
<1>2. IsPlan(plan) /\ Of(plan) = {R}  BY Concrete
<1>3. \A c : EndCall(c, R)  BY <1>1, Answers DEF EndCall
<1>4. QED  BY <1>1, <1>2, <1>3 DEF Ending, Ends, Clears, Has, R

\* One call before, that is not an answer.
LEMMA EndsAfter ==
  ASSUME NEW c, NEW x, NEW q, x.do # "answer", EndCall(c, x), Ending(c, q)
  PROVE  Ending(c, <<x>> \o q)
<1>1. IsPlan(<<x>>) /\ Of(<<x>>) = {x}  BY Concrete
<1>2. ~Has(<<x>>, {"answer"})  BY <1>1 DEF Has
<1>3. IsPlan(<<x>> \o q) /\ Of(<<x>> \o q) = {x} \union Of(q)  BY <1>1, <1>2, Joined DEF Ending, Ends
<1>4. QED  BY <1>3 DEF Ending, Ends, Clears, Has

\* Cancel, if the alert was sent to be acknowledged, and the look-up.
LEMMA Cancelled ==
  ASSUME NEW c, NEW x, NEW condition, EndLook(c, x)
  PROVE  LET plan == When(condition, <<Cancel>>) \o <<x>>
         IN /\ EndLooksUp(c, plan) /\ ~Ends(c, plan)
            /\ condition => Has(plan, {"cancel"})
<1> DEFINE plan == When(condition, <<Cancel>>) \o <<x>>
<1>1. Cancel.do = "cancel"  BY Fields
<1>2. x.do \in {"get", "endIfTracked"}  BY DEF EndLook
<1>3. CASE condition
  <2>1. plan = <<Cancel>> \o <<x>>  BY <1>3 DEF When
  <2>2. Len(plan) = 2 /\ plan[1] = Cancel /\ plan[2] = x
    <3> HIDE DEF plan, Cancel
    <3>1. Len(<<Cancel>> \o <<x>>) = 2  OBVIOUS
    <3>2. (<<Cancel>> \o <<x>>)[1] = Cancel /\ (<<Cancel>> \o <<x>>)[2] = x  OBVIOUS
    <3>3. QED  BY <2>1, <3>1, <3>2
  <2> HIDE DEF plan
  <2>3. IsPlan(plan) /\ Of(plan) = {Cancel, x}
    <3>1. IsPlan(<<Cancel>>) /\ Of(<<Cancel>>) = {Cancel} /\ IsPlan(<<x>>) /\ Of(<<x>>) = {x}
      BY Concrete
    <3>2. ~Has(<<Cancel>>, {"answer"})  BY <1>1, <3>1 DEF Has
    <3>3. QED  BY <2>1, <3>1, <3>2, Joined
  <2>4. EndLooksUp(c, plan)  BY <1>1, <2>2, <2>3 DEF EndLooksUp
  <2>5. ~Ends(c, plan) /\ Has(plan, {"cancel"})  BY <1>1, <2>3 DEF Ends, EndCall, Has
  <2>6. QED  BY <2>4, <2>5 DEF plan
<1>4. CASE ~condition
  <2>1. plan = <<x>>  BY <1>4 DEF When
  <2>2. IsPlan(<<x>>) /\ Of(<<x>>) = {x} /\ Len(<<x>>) = 1 /\ <<x>>[1] = x
    BY Concrete
  <2> HIDE DEF plan
  <2>3. EndLooksUp(c, plan)  BY <2>1, <2>2 DEF EndLooksUp
  <2>4. ~Ends(c, plan)  BY <1>2, <2>1, <2>2 DEF Ends, EndCall
  <2>5. QED  BY <1>4, <2>3, <2>4 DEF plan
<1>5. QED  BY <1>3, <1>4

\* Every resolve of komodo, gatus, truenas and uptimekuma.
LEMMA ResolvedPlan ==
  ASSUME NEW c, NEW u, OfUrl(c, u), c.service # "alert"
  PROVE  /\ EndLooksUp(c, Resolved(u)) /\ ~Ends(c, Resolved(u))
         /\ c.notifies => Has(Resolved(u), {"cancel"})
<1> DEFINE resolved == <<Push("resolved", GoOn)>> \o Done
           notify == IF ~AllowsNotification(u) THEN Done
                     ELSE IF u.retract THEN <<Retract(Done, resolved)>> ELSE resolved
           over == IF AllowsActivity(u) THEN ScheduleEnd("main") ELSE Delete("main")
           found == <<over>> \o notify
           g == Get("main", found, Done, {Done})
<1>1. Resolved(u) = When(u.ack /\ AllowsNotification(u), <<Cancel>>) \o <<g>>
  BY DEF Resolved
<1>2. Ending(c, notify)
  <2>1. Outcome(resolved)  BY Resolving
  <2> HIDE DEF resolved
  <2>2. u.retract /\ (c.notifies <=> AllowsNotification(u))  BY DEF OfUrl
  <2>3. QED  BY <2>1, <2>2, Retracting, DoneEnds DEF Ending
<1> HIDE DEF notify
<1>3. over.do # "answer" /\ EndCall(c, over)
  BY Fields DEF EndCall, OfUrl
<1> HIDE DEF over
<1>4. Ending(c, found)  BY <1>2, <1>3, EndsAfter
<1> HIDE DEF found
<1>5. EndLook(c, g)  BY <1>4, LookUpFields, Answers DEF EndLook
<1> HIDE DEF g
<1>6. (u.ack /\ AllowsNotification(u)) <=> c.notifies  BY DEF OfUrl
<1>7. QED  BY <1>1, <1>5, <1>6, Cancelled

---------------------------------------------------------------------------
(* The universal alert.                                                    *)

\* An alert is raised by the push under its collapse id.
LEMMA Raised == \A u, err : Raise(u, "alert", err) = Send(u, "alert", err)
BY Zenon DEF Raise

\* A plan whose updates are not undone.
LEMMA OngoingPlan ==
  ASSUME NEW c, NEW u, OfUrl(c, u), c.service = "alert"
  PROVE  LET plan == Ongoing(u, "alert")
         IN /\ c.shows => LooksUp(c, plan) /\ Len(plan) = 2
            /\ ~c.shows => News(c, plan) /\ ~Has(plan, {"get", "set"})
<1> DEFINE worthIt == NotifyFallback(u, "alert" # "progress")
           S == Set("main", GoOn)
           V == Update("main", "ongoing", Refused)
           send(condition) == When(condition, <<Raise(u, "alert", GoOn)>>)
           shown(isNew) == <<V, S>> \o send(isNew /\ worthIt) \o Done
           C == Create("main", {Refuse, <<Raise(u, "alert", Refused)>> \o Done})
           new == <<C>> \o shown(TRUE)
           again == shown(FALSE)
           g == Get("main", again, new, {new})
           noCard == When(worthIt, <<Raise(u, "alert", Refused)>>) \o Done
<1>1. Ongoing(u, "alert") = IF AllowsActivity(u) THEN <<StopTimer("main"), g>> ELSE noCard
  BY DEF Ongoing
<1>2. worthIt => c.notifies  BY DEF NotifyFallback, OfUrl
<1> HIDE DEF worthIt
<1>3. /\ C.do = "create" /\ C.key = "main" /\ S.do = "set" /\ S.key = "main"
      /\ V.do = "update" /\ V.key = "main" /\ V.state = "ongoing" /\ V.or = Refused
  BY Fields
<1>4. ASSUME NEW condition, condition => c.notifies
      PROVE  /\ Tells(c, send(condition)) /\ ~Has(send(condition), {"answer"})
             /\ Of(send(condition)) \subseteq {Send(u, "alert", GoOn)}
  <2>1. send(condition) = When(condition, <<Send(u, "alert", GoOn)>>)  BY Raised
  <2> DEFINE t == When(condition, <<Send(u, "alert", GoOn)>>)
  <2>2. Tells(c, t) /\ ~Has(t, {"answer"}) /\ Of(t) \subseteq {Send(u, "alert", GoOn)}
    BY <1>4, Sent
  <2> HIDE DEF t
  <2>3. send(condition) = t  BY <2>1 DEF t
  <2> HIDE DEF send
  <2>4. QED  BY <2>2, <2>3
<1> HIDE DEF C
<1>5. /\ Tells(c, <<C>>) /\ Of(<<C>>) = {C}
  BY <1>3, Concrete, Ordered DEF Tells, TellCall
<1> HIDE DEF send
<1>6. CASE c.shows
  <2>1. Tells(c, <<V, S>>) /\ Of(<<V, S>>) = {V, S}
    BY <1>3, <1>6, Concrete, Ordered DEF Tells, TellCall, Rowless
  <2> HIDE DEF V, S
  <2>2. ASSUME NEW isNew \in BOOLEAN
        PROVE  /\ Tells(c, shown(isNew))
               /\ Of(shown(isNew)) = {V, S} \union Of(send(isNew /\ worthIt)) \union Of(Done)
    <3> DEFINE s == send(isNew /\ worthIt)
    <3>1. Tells(c, s) /\ ~Has(s, {"answer"}) /\ Of(s) \subseteq {Send(u, "alert", GoOn)}
      BY <1>2, <1>4
    <3> HIDE DEF s
    <3>2. Send(u, "alert", GoOn).do = "send"  BY Fields
    <3>3. Tells(c, <<V, S>> \o s) /\ Of(<<V, S>> \o s) = {V, S} \union Of(s)
      <4>1. ~Has(<<V, S>>, {"answer"}) /\ ~Has(<<V, S>>, {"send"})  BY <1>3, <2>1 DEF Has
      <4>2. ~Has(s, {"create"})  BY <3>1, <3>2 DEF Has
      <4>3. QED  BY <2>1, <3>1, <4>1, <4>2, TellsJoined
    <3>4. ~Has(<<V, S>> \o s, {"answer"}) /\ ~Has(Done, {"set"}) /\ ~Has(Done, {"create"})
      BY <1>3, <3>1, <3>2, <3>3, Answers DEF Has
    <3>5. Tells(c, <<V, S>> \o s \o Done) /\ Of(<<V, S>> \o s \o Done) = {V, S} \union Of(s) \union Of(Done)
      BY <3>3, <3>4, TellsJoined, DoneTells
    <3>6. QED  BY <3>5 DEF s
  <2>3. Tells(c, shown(TRUE)) /\ S \in Of(shown(TRUE)) /\ ~Undoes(shown(TRUE)) /\ ~Has(shown(TRUE), {"create"})
    <3>1. Of(send(TRUE /\ worthIt)) \subseteq {Send(u, "alert", GoOn)}  BY <1>2, <1>4
    <3>2. Send(u, "alert", GoOn).do = "send"  BY Fields
    <3>3. QED
      BY <1>3, <2>2, <3>1, <3>2, RefusedIsNoRollBack, Answers DEF Undoes, Has
  <2>4. Tells(c, again) /\ S \in Of(again) /\ ~Undoes(again)
    <3>1. Of(send(FALSE /\ worthIt)) \subseteq {Send(u, "alert", GoOn)}  BY <1>2, <1>4
    <3>2. Send(u, "alert", GoOn).do = "send"  BY Fields
    <3>3. QED
      BY <1>3, <2>2, <3>1, <3>2, RefusedIsNoRollBack, Answers DEF Undoes
  <2> HIDE DEF shown, again
  <2>5. Tells(c, new) /\ Of(new) = {C} \union Of(shown(TRUE))
    BY <1>3, <1>5, <2>3, TellsJoined DEF Has
  <2> HIDE DEF new
  <2>6. News(c, new) /\ News(c, again)
    BY <1>3, <2>3, <2>4, <2>5 DEF News, Has, Undoes
  <2>7. g.do = "get" /\ g.key = "main" /\ g.found = again /\ g.absent = new  BY LookUpFields
  <2> HIDE DEF g
  <2>8. /\ IsPlan(<<StopTimer("main"), g>>) /\ Len(<<StopTimer("main"), g>>) = 2
        /\ <<StopTimer("main"), g>>[1] = StopTimer("main") /\ <<StopTimer("main"), g>>[2] = g
    BY Fields, Concrete
  <2>9. LooksUp(c, <<StopTimer("main"), g>>)  BY <2>6, <2>7, <2>8 DEF LooksUp
  <2>10. QED  BY <1>1, <1>6, <2>8, <2>9 DEF OfUrl
<1>7. CASE ~c.shows
  <2> DEFINE s == When(worthIt, <<Raise(u, "alert", Refused)>>)
  <2>1. Tells(c, s) /\ ~Has(s, {"answer"}) /\ Of(s) \subseteq {Send(u, "alert", Refused)}
    BY <1>2, Raised, Sent
  <2>2. Send(u, "alert", Refused).do = "send"  BY Fields
  <2> HIDE DEF s
  <2>3. ~Has(Done, {"set"}) /\ ~Has(Done, {"create"})  BY Answers DEF Has
  <2>4. Tells(c, s \o Done) /\ Of(s \o Done) = Of(s) \union Of(Done)
    BY <2>1, <2>3, TellsJoined, DoneTells
  <2>5. ~Undoes(s \o Done) /\ ~Has(s \o Done, {"get", "set"})
    BY <2>1, <2>2, <2>4, Answers DEF Undoes, Has
  <2>6. News(c, s \o Done)  BY <1>7, <2>4, <2>5 DEF News, Rowless
  <2>7. noCard = s \o Done  BY DEF s
  <2>8. QED  BY <1>1, <1>7, <2>5, <2>6, <2>7 DEF OfUrl
<1>8. QED  BY <1>6, <1>7

\* An update to an open card of the universal webhook.
LEMMA BookkeepingPlan ==
  ASSUME NEW c, NEW u, OfUrl(c, u), c.service = "alert"
  PROVE  LET plan == Bookkeeping(u, "alert")
         IN RaisePlan(c, plan) /\ ~Has(plan, {"get", "set", "send", "update"})
<1> DEFINE O == Ongoing(u, "alert")
           g == Get("main", O, Done, {O})
           f == IfPending("main", Done, <<g>>)
<1>1. Bookkeeping(u, "alert") = IF AllowsActivity(u) THEN <<f>> ELSE Done
  BY DEF Bookkeeping
<1>2. CASE c.shows
  <2>1. LooksUp(c, O) /\ Len(O) = 2  BY <1>2, OngoingPlan
  <2> HIDE DEF O
  <2>2. g.do = "get" /\ g.key = "main" /\ g.found = O /\ g.absent = Done  BY LookUpFields
  <2> HIDE DEF g
  <2>3. Books(c, <<g>>)  BY <2>1, <2>2, Concrete, Answers DEF Books
  <2>4. f.do = "ifPending" /\ f.key = "main" /\ f.pending = Done /\ f.over = <<g>>  BY LookUpFields
  <2> HIDE DEF f
  <2>5. AsksFirst(c, <<f>>)  BY <2>3, <2>4, Concrete, Answers DEF AsksFirst
  <2>6. ~Has(<<f>>, {"get", "set", "send", "update"})  BY <2>4, Concrete DEF Has
  <2>7. QED  BY <1>1, <1>2, <2>5, <2>6 DEF OfUrl, RaisePlan
<1>3. CASE ~c.shows
  <2>1. RaisePlan(c, Done) /\ ~Has(Done, {"get", "set", "send", "update"})
    BY DoneTells, Answers DEF RaisePlan, Has
  <2>2. QED  BY <1>1, <1>3, <2>1 DEF OfUrl
<1>4. QED  BY <1>2, <1>3

\* An end of the universal webhook.
LEMMA EndPlan ==
  ASSUME NEW c, NEW u, OfUrl(c, u), c.service = "alert"
  PROVE  LET plan == End(u, "alert")
         IN /\ EndLooksUp(c, plan) /\ ~Ends(c, plan)
            /\ c.notifies => Has(plan, {"cancel"})
<1> DEFINE outcome(tracked) == <<Push("resolved", IF tracked THEN GoOn ELSE Refused)>> \o Done
           notify(tracked) ==
             IF ~NotifyFallback(u, TRUE) THEN Done
             ELSE IF tracked /\ u.retract THEN <<Retract(Done, outcome(TRUE))>>
             ELSE outcome(tracked)
           found == notify(TRUE)
           absent == notify(FALSE)
           over == <<ScheduleEnd("main")>> \o found
           f == IfPending("main", Done, over)
           g == Get("main", <<f>>, absent, {absent})
           e == EndIfTracked("main", found, absent)
           x == IF AllowsActivity(u) THEN g ELSE e
           condition == "alert" # "progress" /\ u.ack /\ AllowsNotification(u)
<1>1. End(u, "alert") = When(condition, <<Cancel>>) \o <<x>>
  BY DEF End
<1>2. c.notifies <=> NotifyFallback(u, TRUE)  BY DEF NotifyFallback, OfUrl
<1>3. \A tracked \in BOOLEAN : Outcome(outcome(tracked)) /\ Ending(c, outcome(tracked))
  BY Resolving
<1> HIDE DEF outcome
<1>4. Ending(c, found) /\ Ending(c, absent)
  BY <1>2, <1>3, Retracting, DoneEnds DEF Ending
<1> HIDE DEF found, absent
<1>5. ASSUME c.shows PROVE EndLook(c, x)
  <2>1. Ending(c, over)  BY <1>4, <1>5, EndsAfter, Fields DEF EndCall
  <2> HIDE DEF over
  <2>2. f.do = "ifPending" /\ f.key = "main" /\ f.pending = Done /\ f.over = over  BY LookUpFields
  <2> HIDE DEF f
  <2>3. AsksEnd(c, <<f>>)  BY <2>1, <2>2, Concrete, Answers DEF AsksEnd
  <2>4. g.do = "get" /\ g.key = "main" /\ g.found = <<f>> /\ g.absent = absent  BY LookUpFields
  <2> HIDE DEF g
  <2>5. EndLook(c, g)  BY <1>4, <2>3, <2>4 DEF EndLook
  <2>6. QED  BY <1>5, <2>5 DEF OfUrl
<1>6. ASSUME ~c.shows PROVE EndLook(c, x)
  <2>1. e.do = "endIfTracked" /\ e.key = "main" /\ e.absent = absent  BY LookUpFields
  <2> HIDE DEF e
  <2>2. EndLook(c, e)  BY <1>4, <1>6, <2>1 DEF EndLook, Rowless
  <2>3. QED  BY <1>6, <2>2 DEF OfUrl
<1>7. EndLook(c, x)  BY <1>5, <1>6
<1> HIDE DEF x
<1>8. condition <=> c.notifies  BY DEF OfUrl
<1> HIDE DEF condition
<1>9. /\ EndLooksUp(c, End(u, "alert")) /\ ~Ends(c, End(u, "alert"))
      /\ c.notifies => Has(End(u, "alert"), {"cancel"})
  BY <1>1, <1>7, <1>8, Cancelled
<1>10. QED  BY <1>9

---------------------------------------------------------------------------
(* What a webhook begins with.                                             *)

\* The URLs of a service that asks for acknowledged and retracted alerts have
\* the same channels: a resolve posted to a URL without notifications would
\* leave the alert that another URL of the service raised.
SameChannels ==
  \A S \in UrlSets : (\A u \in S : u.ack /\ u.retract) => \A u, v \in S : u.channels = v.channels

\* Any URL shows what channels the service has.
LEMMA UrlsAgree ==
  ASSUME SameChannels, urls \in UrlSets, AskingUrls, NEW u \in urls
  PROVE  OfUrl(Setting, u)
<1>1. \A v \in urls : v.channels = u.channels  BY DEF SameChannels, AskingUrls
<1>2. AllActivity <=> AllowsActivity(u)  BY <1>1 DEF AllActivity, AllowsActivity
<1>3. Notifies <=> AllowsNotification(u)  BY <1>1 DEF Notifies, AllowsNotification
<1>4. u.ack /\ u.retract  BY DEF AskingUrls
<1>5. Setting.shows = AllActivity /\ Setting.notifies = Notifies  BY DEF Setting
<1>6. QED  BY <1>2, <1>3, <1>4, <1>5 DEF OfUrl

\* Nothing is sent, and nothing undone, before the look-up.
LEMMA LookUpHas ==
  ASSUME NEW c, NEW p, LooksUp(c, p)
  PROVE  /\ \A x \in Of(p) : x.do \in {"stop", "get"}
         /\ Has(p, {"stop"}) <=> Len(p) = 2
         /\ ~Has(p, {"send"}) /\ ~Undoes(p)
<1>1. Len(p) = 1 \/ Len(p) = 2  BY DEF LooksUp
<1>2. StopTimer("main").do = "stop"  BY Fields
<1>3. CASE Len(p) = 1
  <2>1. Of(p) = {p[1]}  BY <1>3 DEF Of
  <2>2. p[1].do = "get"  BY <1>3 DEF LooksUp
  <2>3. QED  BY <1>3, <2>1, <2>2 DEF Has, Undoes
<1>4. CASE Len(p) = 2
  <2>1. Of(p) = {p[1], p[2]}  BY <1>4 DEF Of
  <2>2. p[2].do = "get" /\ p[1].do = "stop"  BY <1>2, <1>4 DEF LooksUp
  <2>3. QED  BY <1>4, <2>1, <2>2 DEF Has, Undoes
<1>5. QED  BY <1>1, <1>3, <1>4

\* How a webhook begins, of whatever says.
Begins(c, says, plan) ==
  /\ Voice(c, says, plan)
  /\ says \in {"alert", "unsure"} =>
       /\ Has(plan, {"get", "set", "send"}) => Has(plan, {"stop"}) \/ Rowless(c)
       /\ Has(plan, {"send"}) /\ ~Has(plan, {"set"}) => c.service = "alert"
       /\ Undoes(plan) => Has(plan, {"create"})
  /\ says = "off" => ~Ends(c, plan) /\ (c.notifies => Has(plan, {"cancel"}))

LEMMA BeginsAlert ==
  ASSUME NEW c, NEW u, OfUrl(c, u), c.service # "alert"
  PROVE  Begins(c, "alert", Alert(u)) /\ Begins(c, "off", Resolved(u)) /\ Begins(c, "on", Pending(u))
<1>1. LooksUp(c, Alert(u)) /\ Len(Alert(u)) = 2  BY AlertPlan
<1>2. Begins(c, "alert", Alert(u))
  BY <1>1, LookUpHas DEF Begins, Voice, RaisePlan
<1>3. Begins(c, "off", Resolved(u))
  BY ResolvedPlan DEF Begins, Voice, OffPlan
<1>4. Begins(c, "on", Pending(u))
  BY PendingPlan DEF Begins, Voice
<1>5. QED  BY <1>2, <1>3, <1>4

LEMMA BeginsAside ==
  ASSUME NEW c, NEW u
  PROVE  Begins(c, "nothing", SendTest) /\ Begins(c, "nothing", OneShot(u)) /\ Begins(c, "nothing", NotifyOnly(u))
<1>1. AsidePlan(OneShot(u))  BY AsideNotice, Fields DEF OneShot
<1>2. AsidePlan(NotifyOnly(u))  BY AsideNotice, Fields DEF NotifyOnly
<1>3. QED  BY <1>1, <1>2, AsideTest DEF Begins, Voice

LEMMA BeginsUniversal ==
  ASSUME NEW c, NEW u, OfUrl(c, u), c.service = "alert"
  PROVE  /\ Begins(c, "alert", Ongoing(u, "alert")) /\ Begins(c, "unsure", Bookkeeping(u, "alert"))
         /\ Begins(c, "off", End(u, "alert"))
<1>1. Begins(c, "alert", Ongoing(u, "alert"))
  <2> DEFINE p == Ongoing(u, "alert")
  <2>1. /\ c.shows => LooksUp(c, p) /\ Len(p) = 2
        /\ ~c.shows => News(c, p) /\ ~Has(p, {"get", "set"})
    BY OngoingPlan
  <2> SUFFICES Begins(c, "alert", p)  OBVIOUS
  <2> HIDE DEF p
  <2>2. CASE c.shows
    <3>1. LooksUp(c, p) /\ Len(p) = 2  BY <2>1, <2>2
    <3>2. Has(p, {"stop"}) /\ ~Has(p, {"send"}) /\ ~Undoes(p)  BY <3>1, LookUpHas
    <3>3. Voice(c, "alert", p)  BY <3>1 DEF Voice, RaisePlan
    <3>4. QED  BY <3>2, <3>3, Zenon DEF Begins
  <2>3. CASE ~c.shows
    <3>1. Voice(c, "alert", p)  BY <2>1, <2>3 DEF Voice, RaisePlan, News
    <3>2. Rowless(c)  BY <2>3 DEF Rowless
    <3>3. Undoes(p) => Has(p, {"create"})  BY <2>1, <2>3 DEF News
    <3>4. QED  BY <3>1, <3>2, <3>3, Zenon DEF Begins
  <2>4. QED  BY <2>2, <2>3, Zenon
<1>2. Begins(c, "unsure", Bookkeeping(u, "alert"))
  <2> DEFINE p == Bookkeeping(u, "alert")
  <2>1. RaisePlan(c, p) /\ ~Has(p, {"get", "set", "send", "update"})  BY BookkeepingPlan
  <2> HIDE DEF p
  <2>2. ~Has(p, {"get", "set", "send"}) /\ ~Has(p, {"send"}) /\ ~Undoes(p)  BY <2>1 DEF Has, Undoes
  <2>3. QED  BY <2>1, <2>2 DEF Begins, Voice, p
<1>3. Begins(c, "off", End(u, "alert"))
  BY EndPlan DEF Begins, Voice, OffPlan
<1>4. QED  BY <1>1, <1>2, <1>3

\* The webhooks of the services that raise alerts.
LEMMA WebhooksOf ==
  ASSUME NEW u
  PROVE  /\ Webhooks("komodo", u) = KomodoWebhooks(u)
         /\ Webhooks("uptimekuma", u) = UptimeKumaWebhooks(u)
         /\ Webhooks("gatus", u) = GatusWebhooks(u)
         /\ Webhooks("truenas", u) = TrueNASWebhooks(u)
         /\ Webhooks("alert", u) = UniversalWebhooks(u, "alert")
<1>1. /\ "komodo" \notin UniversalKinds /\ "uptimekuma" \notin UniversalKinds
      /\ "gatus" \notin UniversalKinds /\ "truenas" \notin UniversalKinds /\ "alert" \in UniversalKinds
  BY DEF UniversalKinds
<1>2. Webhooks("komodo", u) = KomodoWebhooks(u)  BY <1>1, Zenon DEF Webhooks
<1>3. Webhooks("uptimekuma", u) = UptimeKumaWebhooks(u)  BY <1>1, Zenon DEF Webhooks
<1>4. Webhooks("gatus", u) = GatusWebhooks(u)  BY <1>1, Zenon DEF Webhooks
<1>5. Webhooks("truenas", u) = TrueNASWebhooks(u)  BY <1>1, Zenon DEF Webhooks
<1>6. Webhooks("alert", u) = UniversalWebhooks(u, "alert")  BY <1>1, Zenon DEF Webhooks
<1>7. QED  BY <1>2, <1>3, <1>4, <1>5, <1>6

\* Each webhook of the services that raise alerts begins so.
LEMMA WebhookBegins ==
  ASSUME NEW u, OfUrl(Setting, u), provider \in Alerting \union {"alert"},
         NEW webhook \in Webhooks(provider, u)
  PROVE  /\ webhook = [says |-> webhook.says, plan |-> webhook.plan]
         /\ Begins(Setting, webhook.says, webhook.plan)
<1> USE DEF Alerts, On, Off, Perhaps, Aside
<1>1. Setting.service = provider  BY DEF Setting
<1>2. CASE provider \in Alerting
  <2>1. /\ Begins(Setting, "alert", Alert(u)) /\ Begins(Setting, "off", Resolved(u))
        /\ Begins(Setting, "on", Pending(u)) /\ Begins(Setting, "nothing", SendTest)
        /\ Begins(Setting, "nothing", OneShot(u))
    BY <1>1, <1>2, BeginsAlert, BeginsAside DEF Alerting
  <2>2. /\ Down(u) = Alert(u) /\ Triggered(u) = Alert(u) /\ CreateAlert(u) = Alert(u)
        /\ Up(u) = Resolved(u) /\ GatusResolved(u) = Resolved(u) /\ Clear(u) = Resolved(u)
    BY DEF Down, Triggered, CreateAlert, Up, GatusResolved, Clear
  <2>3. \E says \in {"alert", "off", "on", "nothing"},
           plan \in {Alert(u), Resolved(u), Pending(u), SendTest, OneShot(u)} :
          webhook = [says |-> says, plan |-> plan] /\ Begins(Setting, says, plan)
    <3>1. CASE provider = "komodo"
      <4>1. Webhooks(provider, u) = KomodoWebhooks(u)  BY <3>1, WebhooksOf
      <4>2. QED  BY <2>1, <4>1 DEF KomodoWebhooks
    <3>2. CASE provider = "uptimekuma"
      <4>1. Webhooks(provider, u) = UptimeKumaWebhooks(u)  BY <3>2, WebhooksOf
      <4>2. QED  BY <2>1, <2>2, <4>1 DEF UptimeKumaWebhooks
    <3>3. CASE provider = "gatus"
      <4>1. Webhooks(provider, u) = GatusWebhooks(u)  BY <3>3, WebhooksOf
      <4>2. QED  BY <2>1, <2>2, <4>1 DEF GatusWebhooks
    <3>4. CASE provider = "truenas"
      <4>1. Webhooks(provider, u) = TrueNASWebhooks(u)  BY <3>4, WebhooksOf
      <4>2. QED  BY <2>1, <2>2, <4>1 DEF TrueNASWebhooks
    <3>5. QED  BY <1>2, <3>1, <3>2, <3>3, <3>4 DEF Alerting
  <2>4. QED  BY <2>3
<1>3. CASE provider = "alert"
  <2>1. /\ Begins(Setting, "alert", Ongoing(u, "alert")) /\ Begins(Setting, "unsure", Bookkeeping(u, "alert"))
        /\ Begins(Setting, "off", End(u, "alert")) /\ Begins(Setting, "nothing", NotifyOnly(u))
    BY <1>1, <1>3, BeginsUniversal, BeginsAside
  <2>2. Webhooks(provider, u) = UniversalWebhooks(u, "alert")
    BY <1>3, WebhooksOf
  <2>3. UniversalWebhooks(u, "alert") =
          {[says |-> "alert", plan |-> Ongoing(u, "alert")], [says |-> "unsure", plan |-> Bookkeeping(u, "alert")],
           [says |-> "off", plan |-> End(u, "alert")], [says |-> "nothing", plan |-> NotifyOnly(u)]}
    BY DEF UniversalWebhooks
  <2>4. \E says \in {"alert", "off", "unsure", "nothing"},
           plan \in {Ongoing(u, "alert"), Bookkeeping(u, "alert"), End(u, "alert"), NotifyOnly(u)} :
          webhook = [says |-> says, plan |-> plan] /\ Begins(Setting, says, plan)
    BY <2>1, <2>2, <2>3
  <2>5. QED  BY <2>4
<1>4. QED  BY <1>2, <1>3

---------------------------------------------------------------------------
(* The first call of the plan that a handler has left, and the rest.       *)

LEMMA TakenHas ==
  ASSUME NEW p, IsPlan(p), p # <<>>
  PROVE  \A S : Has(p, S) <=> (Head(p).do \in S \/ Has(Tail(p), S))
<1>1. Of(p) = {Head(p)} \union Of(Tail(p))  BY Taken
<1>2. QED  BY <1>1 DEF Has

LEMMA AsideHead ==
  ASSUME NEW p, AsidePlan(p), p # <<>>
  PROVE  AsideCall(Head(p)) /\ AsidePlan(Tail(p))
<1>1. IsPlan(Tail(p)) /\ Of(p) = {Head(p)} \union Of(Tail(p))  BY Taken DEF AsidePlan
<1>2. QED  BY <1>1 DEF AsidePlan

LEMMA OnHead ==
  ASSUME NEW c, NEW p, OnPlan(c, p), p # <<>>
  PROVE  OnCall(Head(p)) /\ OnPlan(c, Tail(p))
<1>1. IsPlan(Tail(p)) /\ Of(p) = {Head(p)} \union Of(Tail(p))  BY Taken DEF OnPlan
<1>2. QED  BY <1>1 DEF OnPlan

LEMMA TellsHead ==
  ASSUME NEW c, NEW p, Tells(c, p), p # <<>>
  PROVE  /\ TellCall(c, Head(p)) /\ Tells(c, Tail(p))
         /\ Head(p).do = "send" => ~Has(p, {"set"})
         /\ Head(p).do = "update" => ~Has(p, {"create"})
<1>1. /\ IsPlan(Tail(p)) /\ Of(p) = {Head(p)} \union Of(Tail(p))
      /\ Before(Tail(p), "set", "send") /\ Before(Tail(p), "create", "update")
      /\ Head(p).do = "send" => ~Has(Tail(p), {"set"})
      /\ Head(p).do = "update" => ~Has(Tail(p), {"create"})
  BY Taken DEF Tells
<1>2. QED  BY <1>1 DEF Tells, Has

LEMMA EndsHead ==
  ASSUME NEW c, NEW p, Ends(c, p), p # <<>>
  PROVE  EndCall(c, Head(p)) /\ Ends(c, Tail(p))
<1>1. IsPlan(Tail(p)) /\ Of(p) = {Head(p)} \union Of(Tail(p))  BY Taken DEF Ends
<1>2. QED  BY <1>1 DEF Ends

\* A plan of one call, or of two.
LEMMA Few ==
  ASSUME NEW p, IsPlan(p), Len(p) \in 1..2
  PROVE  /\ p # <<>> /\ Head(p) = p[1]
         /\ Len(p) = 1 => Of(p) = {p[1]} /\ p[Len(p)] = p[1]
         /\ Len(p) = 2 => /\ Of(p) = {p[1], p[2]} /\ IsPlan(Tail(p)) /\ Len(Tail(p)) = 1
                          /\ Tail(p)[1] = p[2] /\ Of(Tail(p)) = {p[2]}
<1>1. Len(p) = 1 \/ Len(p) = 2  OBVIOUS
<1>2. p # <<>>  BY <1>1
<1>3. /\ Head(p) = p[1] /\ IsPlan(Tail(p)) /\ Len(Tail(p)) = Len(p) - 1
      /\ \A i \in 1..Len(Tail(p)) : Tail(p)[i] = p[i + 1]
  BY <1>2, Taken
<1>4. CASE Len(p) = 1
  <2>1. Of(p) = {p[1]}  BY <1>4 DEF Of
  <2>2. QED  BY <1>2, <1>3, <1>4, <2>1
<1>5. CASE Len(p) = 2
  <2>1. Of(p) = {p[1], p[2]}  BY <1>5 DEF Of
  <2>2. Len(Tail(p)) = 1 /\ Tail(p)[1] = p[2]  BY <1>3, <1>5
  <2>3. Of(Tail(p)) = {Tail(p)[1]}  BY <2>2 DEF Of
  <2>4. QED  BY <1>2, <1>3, <1>5, <2>1, <2>2, <2>3
<1>6. QED  BY <1>1, <1>4, <1>5

\* What a raising handler does next.
RaiseCase(c, p, x) ==
  \/ Tells(c, p)
  \/ /\ x.do = "stop" /\ x.key = "main" /\ LooksUp(c, Tail(p))
     /\ ~Has(Tail(p), {"send"}) /\ ~Undoes(Tail(p))
  \/ /\ x.do = "get" /\ x.key = "main" /\ ~Has(p, {"stop"}) /\ Has(p, {"get"})
     /\ \/ News(c, x.found) /\ News(c, x.absent)
        \/ LooksUp(c, x.found) /\ Len(x.found) = 2 /\ Inert(x.absent)
  \/ x.do = "ifPending" /\ x.key = "main" /\ Inert(x.pending) /\ Books(c, x.over)

LEMMA RaiseHead ==
  ASSUME NEW c, NEW p, RaisePlan(c, p), p # <<>>
  PROVE  RaiseCase(c, p, Head(p))
<1>1. CASE Tells(c, p)
  BY <1>1 DEF RaiseCase
<1>2. CASE LooksUp(c, p)
  <2>1. Len(p) = 1 \/ Len(p) = 2  BY <1>2 DEF LooksUp
  <2>2. CASE Len(p) = 1
    <3>1. Head(p) = p[1] /\ Of(p) = {p[1]}  BY <1>2, <2>2, Few DEF LooksUp
    <3>2. p[1].do = "get" /\ p[1].key = "main" /\ News(c, p[1].found) /\ News(c, p[1].absent)
      BY <1>2, <2>2 DEF LooksUp
    <3>3. ~Has(p, {"stop"}) /\ Has(p, {"get"})  BY <3>1, <3>2 DEF Has
    <3>4. QED  BY <3>1, <3>2, <3>3 DEF RaiseCase
  <2>3. CASE Len(p) = 2
    <3>1. /\ Head(p) = p[1] /\ IsPlan(Tail(p)) /\ Len(Tail(p)) = 1 /\ Tail(p)[1] = p[2]
      BY <1>2, <2>3, Few DEF LooksUp
    <3>2. /\ p[1] = StopTimer("main") /\ p[2].do = "get" /\ p[2].key = "main"
          /\ News(c, p[2].found) /\ News(c, p[2].absent)
      BY <1>2, <2>3 DEF LooksUp
    <3> DEFINE t == Tail(p)
    <3>7. IsPlan(t) /\ Len(t) = 1 /\ t[Len(t)] = p[2]  BY <3>1
    <3> HIDE DEF t
    <3>8. LooksUp(c, t)  BY <3>2, <3>7 DEF LooksUp
    <3>3. LooksUp(c, Tail(p))  BY <3>8 DEF t
    <3>4. ~Has(Tail(p), {"send"}) /\ ~Undoes(Tail(p))  BY <3>3, LookUpHas
    <3>5. Head(p).do = "stop" /\ Head(p).key = "main"  BY <3>1, <3>2, Fields
    <3>6. QED  BY <3>3, <3>4, <3>5 DEF RaiseCase
  <2>4. QED  BY <2>1, <2>2, <2>3
<1>3. CASE Books(c, p)
  <2>1. Head(p) = p[1] /\ Of(p) = {p[1]}  BY <1>3, Few DEF Books
  <2>2. /\ p[1].do = "get" /\ p[1].key = "main"
        /\ LooksUp(c, p[1].found) /\ Len(p[1].found) = 2 /\ Inert(p[1].absent)
    BY <1>3 DEF Books
  <2>3. ~Has(p, {"stop"}) /\ Has(p, {"get"})  BY <2>1, <2>2 DEF Has
  <2>4. QED  BY <2>1, <2>2, <2>3 DEF RaiseCase
<1>4. CASE AsksFirst(c, p)
  <2>1. Head(p) = p[1]  BY <1>4, Few DEF AsksFirst
  <2>2. QED  BY <1>4, <2>1 DEF RaiseCase, AsksFirst
<1>5. QED  BY <1>1, <1>2, <1>3, <1>4 DEF RaisePlan

\* What an ending handler does next.
EndCase(c, p, x) ==
  \/ Ends(c, p)
  \/ /\ ~Ends(c, p) /\ ~Clears(p) /\ ~Has(p, {"cancel"})
     /\ \/ /\ x.do = "ifPending" /\ x.key = "main"
           /\ Inert(x.pending) /\ Ending(c, x.over)
        \/ EndLook(c, x)
  \/ /\ x.do = "cancel" /\ ~Clears(p) /\ EndLooksUp(c, Tail(p)) /\ ~Ends(c, Tail(p))

\* A resolve with a look-up in it is not past its look-ups.
LEMMA LookIsNoEnd ==
  ASSUME NEW c, NEW p, NEW x, x \in Of(p), x.do \in {"get", "endIfTracked", "ifPending", "cancel"}
  PROVE  ~Ends(c, p)
BY DEF Ends, EndCall

LEMMA OffHead ==
  ASSUME NEW c, NEW p, OffPlan(c, p), p # <<>>
  PROVE  EndCase(c, p, Head(p))
<1>1. CASE Ends(c, p)
  BY <1>1 DEF EndCase
<1>2. CASE AsksEnd(c, p)
  <2>1. Head(p) = p[1] /\ Of(p) = {p[1]}  BY <1>2, Few DEF AsksEnd
  <2>2. p[1].do = "ifPending" /\ p[1].key = "main" /\ Inert(p[1].pending) /\ Ending(c, p[1].over)
    BY <1>2 DEF AsksEnd
  <2>3. ~Clears(p) /\ ~Has(p, {"cancel"})  BY <2>1, <2>2 DEF Has, Clears
  <2>4. ~Ends(c, p)  BY <2>1, <2>2, LookIsNoEnd
  <2>5. QED  BY <2>1, <2>2, <2>3, <2>4 DEF EndCase
<1>3. CASE EndLooksUp(c, p)
  <2>1. Len(p) = 1 \/ Len(p) = 2  BY <1>3 DEF EndLooksUp
  <2>2. CASE Len(p) = 1
    <3>1. Head(p) = p[1] /\ Of(p) = {p[1]} /\ p[Len(p)] = p[1]
      BY <1>3, <2>2, Few DEF EndLooksUp
    <3>2. EndLook(c, p[1])  BY <1>3, <3>1 DEF EndLooksUp
    <3>3. p[1].do \in {"get", "endIfTracked"}  BY <3>2 DEF EndLook
    <3>4. ~Clears(p) /\ ~Has(p, {"cancel"})  BY <3>1, <3>3 DEF Has, Clears
    <3>5. ~Ends(c, p)  BY <3>1, <3>3, LookIsNoEnd
    <3>6. QED  BY <3>1, <3>2, <3>4, <3>5 DEF EndCase
  <2>3. CASE Len(p) = 2
    <3>1. /\ Head(p) = p[1] /\ Of(p) = {p[1], p[2]} /\ IsPlan(Tail(p)) /\ Len(Tail(p)) = 1
          /\ Tail(p)[1] = p[2] /\ Of(Tail(p)) = {p[2]}
      BY <1>3, <2>3, Few DEF EndLooksUp
    <3>2. p[1].do = "cancel" /\ EndLook(c, p[2])  BY <1>3, <2>3 DEF EndLooksUp
    <3>3. p[2].do \in {"get", "endIfTracked"}  BY <3>2 DEF EndLook
    <3>4. ~Clears(p)  BY <3>1, <3>2, <3>3 DEF Has, Clears
    <3> DEFINE t == Tail(p)
    <3>8. IsPlan(t) /\ Len(t) = 1 /\ t[Len(t)] = p[2]  BY <3>1
    <3> HIDE DEF t
    <3>9. EndLooksUp(c, t)  BY <3>2, <3>8 DEF EndLooksUp
    <3>5. EndLooksUp(c, Tail(p))  BY <3>9 DEF t
    <3>6. ~Ends(c, Tail(p))  BY <3>1, <3>3, LookIsNoEnd
    <3>7. QED  BY <3>1, <3>2, <3>4, <3>5, <3>6 DEF EndCase
  <2>4. QED  BY <2>1, <2>2, <2>3
<1>4. QED  BY <1>1, <1>2, <1>3 DEF OffPlan

\* An inert plan is one of every voice.
LEMMA InertVoice ==
  ASSUME NEW c, NEW says, NEW p, Voice(c, says, p), NEW q, Inert(q)
  PROVE  /\ Voice(c, says, q) /\ Ends(c, q) /\ ~Clears(q) /\ ~Undoes(q)
         /\ \A S : "answer" \notin S => ~Has(q, S)
<1>1. IsPlan(q) /\ \A x \in Of(q) : x.do = "answer"  BY DEF Inert
<1>2. AsidePlan(q) /\ Ends(c, q)  BY <1>1 DEF AsidePlan, AsideCall, Ends, EndCall
<1>3. c.service # "alert" => OnPlan(c, q)  BY <1>1 DEF OnPlan, OnCall
<1>4. Tells(c, q)
  <2>1. \A i \in 1..Len(q) : q[i].do = "answer"  BY <1>1 DEF Of
  <2>2. Before(q, "set", "send") /\ Before(q, "create", "update")  BY <2>1 DEF Before
  <2>3. QED  BY <1>1, <2>2 DEF Tells, TellCall
<1>5. says = "on" => c.service # "alert"  BY DEF Voice, OnPlan
<1>6. Voice(c, says, q)  BY <1>2, <1>3, <1>4, <1>5 DEF Voice, RaisePlan, OffPlan
<1>7. ~Clears(q) /\ ~Undoes(q) /\ \A S : "answer" \notin S => ~Has(q, S)
  BY <1>1 DEF Clears, Has, Undoes
<1>8. QED  BY <1>2, <1>6, <1>7

---------------------------------------------------------------------------
(* A step of a handler.                                                    *)

Takes(h, q) == handler[h].plan # <<>> /\ Goto(h, q) /\ UNCHANGED config

\* One handler moves on, and still says the same as all that are busy.
LEMMA Moved ==
  ASSUME Typed, OneVoice, NEW h \in Handlers, NEW q, Takes(h, q)
  PROVE  /\ handler' = [g \in Handlers |-> [says |-> handler'[g].says, plan |-> handler'[g].plan]]
         /\ handler'[h].plan = q
         /\ \A g \in Handlers : handler'[g].says = handler[g].says
         /\ \A g \in Handlers : g # h => handler'[g] = handler[g]
         /\ \A g \in Handlers : handler[g].says \in {handler[h].says, "nothing"}
         /\ OneVoice' /\ Setting' = Setting /\ (AllActivity' <=> AllActivity) /\ (Notifies' <=> Notifies)
<1>1. handler = [g \in Handlers |-> [says |-> handler[g].says, plan |-> handler[g].plan]]  BY DEF Typed
<1>2. handler' = [handler EXCEPT ![h].plan = q]  BY DEF Takes, Goto
<1>3. /\ DOMAIN handler' = Handlers
      /\ handler'[h] = [says |-> handler[h].says, plan |-> q]
      /\ \A g \in Handlers : g # h => handler'[g] = handler[g]
  BY <1>1, <1>2
<1>4. \A g \in Handlers : handler'[g].says = handler[g].says  BY <1>3
<1>5. handler' = [g \in Handlers |-> [says |-> handler'[g].says, plan |-> handler'[g].plan]]
  <2>1. handler' = [g \in Handlers |-> handler'[g]]  BY <1>1, <1>2
  <2>2. \A g \in Handlers : handler'[g] = [says |-> handler'[g].says, plan |-> handler'[g].plan]
    <3>1. \A g \in Handlers : handler[g] = [says |-> handler[g].says, plan |-> handler[g].plan]  BY <1>1
    <3>2. QED  BY <1>3, <3>1
  <2>3. QED  BY <2>1, <2>2
<1>6. h \in Busy  BY DEF Takes, Busy, Idle
<1>7. \A g \in Handlers : handler[g].says \in {handler[h].says, "nothing"}
  BY <1>6 DEF OneVoice, Busy, Idle
<1>8. OneVoice'
  <2>1. Busy' \subseteq Busy  BY <1>3, <1>6 DEF Busy
  <2>2. QED  BY <1>4, <2>1 DEF OneVoice, Busy
<1>9. Setting' = Setting /\ (AllActivity' <=> AllActivity) /\ (Notifies' <=> Notifies)
  BY DEF Takes, config, Setting, AllActivity, Notifies
<1>10. QED  BY <1>3, <1>4, <1>5, <1>7, <1>8, <1>9

\* A step of a handler that neither raises an alert nor ends one.
LEMMA QuietStep ==
  ASSUME Typed, OneVoice, Heard, NEW h \in Handlers, NEW q, Takes(h, q),
         handler[h].says \in {"on", "nothing"}, Voice(Setting, handler[h].says, q)
  PROVE  Heard' /\ ~Clearing /\ ~Raising
<1>1. /\ handler'[h].plan = q /\ Setting' = Setting
      /\ \A g \in Handlers : handler'[g].says = handler[g].says
      /\ \A g \in Handlers : g # h => handler'[g] = handler[g]
      /\ \A g \in Handlers : handler[g].says \in {"on", "nothing"}
  BY Moved
<1>2. \A g \in Handlers : Voice(Setting', handler'[g].says, handler'[g].plan)
  BY <1>1 DEF Heard
<1>3. \A g \in Handlers : RaisesWell(g)' /\ EndsWell(g)'
  BY <1>1 DEF RaisesWell, EndsWell
<1>4. QED  BY <1>1, <1>2, <1>3 DEF Heard, Clearing, Raising

\* A step of a handler that raises an alert, with no end begun by it.
LEMMA RaiseStep ==
  ASSUME Typed, OneVoice, Heard, NEW h \in Handlers, NEW q, Takes(h, q),
         handler[h].says \in {"alert", "unsure"}, Voice(Setting, handler[h].says, q), RaisesWell(h)',
         end["main"] = "none" => end'["main"] = "none", row["main"] => row'["main"],
         card["main"] # "none" => card'["main"] # "none"
  PROVE  Heard' /\ ~Clearing /\ Raising /\ Raising'
<1>1. /\ handler'[h].plan = q /\ Setting' = Setting
      /\ \A g \in Handlers : handler'[g].says = handler[g].says
      /\ \A g \in Handlers : g # h => handler'[g] = handler[g]
      /\ \A g \in Handlers : handler[g].says # "off"
  BY Moved
<1>2. \A g \in Handlers : Voice(Setting', handler'[g].says, handler'[g].plan)
  BY <1>1 DEF Heard
<1>3. provider' = provider  BY DEF Takes, config
<1>4. ASSUME NEW g \in Handlers, g # h PROVE RaisesWell(g)'
  <2>1. RaisesWell(g) /\ handler'[g] = handler[g]  BY <1>1, <1>4 DEF Heard
  <2>2. QED  BY <1>3, <2>1 DEF RaisesWell
<1>5. \A g \in Handlers : RaisesWell(g)'  BY <1>4
<1>6. \A g \in Handlers : EndsWell(g)'  BY <1>1 DEF EndsWell
<1>7. QED  BY <1>1, <1>2, <1>5, <1>6 DEF Heard, Clearing, Raising

\* A step of a handler that ends an alert, with none raised by it.
LEMMA EndStep ==
  ASSUME Typed, OneVoice, Heard, NEW h \in Handlers, NEW q, Takes(h, q),
         handler[h].says = "off", Voice(Setting, "off", q), EndsWell(h)',
         note' = "alert" => note = "alert" /\ (Clears(handler[h].plan) => Clears(q)),
         repeats' => repeats
  PROVE  Heard' /\ ~Raising /\ (note' = "alert" /\ Clearing => Clearing')
<1>1. /\ handler'[h].plan = q /\ Setting' = Setting /\ (Notifies' <=> Notifies)
      /\ \A g \in Handlers : handler'[g].says = handler[g].says
      /\ \A g \in Handlers : g # h => handler'[g] = handler[g]
      /\ \A g \in Handlers : handler[g].says \notin {"alert", "unsure"}
  BY Moved
<1>2. \A g \in Handlers : Voice(Setting', handler'[g].says, handler'[g].plan)
  BY <1>1 DEF Heard
<1>3. note' = "alert" /\ Clearing => Clearing'
  <2> SUFFICES ASSUME note' = "alert", NEW g \in Handlers, handler[g].says = "off", Clears(handler[g].plan)
               PROVE  Clears(handler'[g].plan)
    BY <1>1 DEF Clearing
  <2>1. QED  BY <1>1
<1>4. ASSUME NEW g \in Handlers, g # h PROVE EndsWell(g)'
  <2>1. EndsWell(g) /\ handler'[g] = handler[g]  BY <1>1, <1>4 DEF Heard
  <2>2. QED  BY <1>1, <1>3, <2>1 DEF EndsWell
<1>5. \A g \in Handlers : EndsWell(g)'  BY <1>4
<1>6. \A g \in Handlers : RaisesWell(g)'  BY <1>1 DEF RaisesWell
<1>7. QED  BY <1>1, <1>2, <1>3, <1>5, <1>6 DEF Heard, Raising

\* While nothing is hurt no call has failed.
LEMMA NoFault == ASSUME hurt' = {} PROVE \A kind : ~Fault(kind)
BY DEF Fault

\* A call is for the activity it names.
LEMMA KeysNamed == "main" \in Keys /\ "side" \in Keys /\ "main" # "side"
BY DEF Keys

---------------------------------------------------------------------------
(* Each call keeps the invariant.                                          *)

\* What a handler with something left to do is about to do.
Speaks(c, says, p, x) ==
  \/ says = "nothing" /\ AsideCall(x) /\ AsidePlan(Tail(p))
  \/ says = "on" /\ OnCall(x) /\ OnPlan(c, Tail(p))
  \/ says \in {"alert", "unsure"} /\ RaiseCase(c, p, x)
  \/ says = "off" /\ EndCase(c, p, x)

LEMMA Spoken ==
  ASSUME Heard, NEW h \in Handlers, handler[h].plan # <<>>
  PROVE  Speaks(Setting, handler[h].says, handler[h].plan, Call(h)) /\ IsPlan(handler[h].plan)
<1> DEFINE p == handler[h].plan  says == handler[h].says  c == Setting
<1>1. Voice(c, says, p) /\ p # <<>>  BY DEF Heard
<1>2. Call(h) = Head(p)  BY DEF Call
<1> HIDE DEF p, says, c
<1>3. Speaks(c, says, p, Head(p))
  BY <1>1, AsideHead, OnHead, RaiseHead, OffHead DEF Voice, Speaks
<1>4. IsPlan(p)
  BY <1>1 DEF Voice, AsidePlan, OnPlan, RaisePlan, Tells, LooksUp, Books, AsksFirst, OffPlan, Ends, AsksEnd, EndLooksUp
<1>5. QED  BY <1>2, <1>3, <1>4 DEF p, says, c

\* Stop: no end is under way after it, or a callback that runs was met.
LEMMA StopKeeps ==
  ASSUME Alarms, Untroubled', NEW h \in Handlers, Stop(h)
  PROVE  Alarms'
<1> DEFINE p == handler[h].plan  q == Tail(p)  x == Call(h)  says == handler[h].says
<1>1. /\ Takes(h, q) /\ x.do = "stop"
      /\ end' = [end EXCEPT ![x.key] = "none"] /\ raced' = (raced \/ callback[x.key] # "none")
      /\ UNCHANGED <<provider, urls, row, callback, card, repeats, note, last>>
  BY DEF Stop, Calls, Next1, Takes, config, server
<1>2. Typed /\ Heard /\ OneVoice /\ Tidy /\ TakenBack  BY DEF Alarms
<1>3. Speaks(Setting, says, p, x) /\ IsPlan(p) /\ p # <<>>
  BY <1>1, <1>2, Spoken DEF Takes
<1>4. says \in {"on", "alert", "unsure"} /\ x.key = "main" /\ Voice(Setting, says, q)
  /\ (says # "on" => LooksUp(Setting, q) /\ ~Has(q, {"send"}) /\ ~Undoes(q))
  <2> HIDE DEF p, x, says, q
  <2>1. CASE says = "nothing"  BY <1>1, <1>3, <2>1 DEF Speaks, AsideCall
  <2>2. CASE says = "on"
    BY <1>1, <1>3, <2>2 DEF Speaks, OnCall, Voice, q
  <2>3. CASE says \in {"alert", "unsure"}
    <3>1. RaiseCase(Setting, p, x)  BY <1>3, <2>3 DEF Speaks
    <3>2. ~Tells(Setting, p)
      BY <1>1, <1>3, TellsHead DEF TellCall, x, p, Call
    <3>3. x.key = "main" /\ LooksUp(Setting, q) /\ ~Has(q, {"send"}) /\ ~Undoes(q)
      BY <1>1, <3>1, <3>2 DEF RaiseCase, q
    <3>4. QED  BY <2>3, <3>3 DEF Voice, RaisePlan
  <2>4. CASE says = "off"
    <3>1. EndCase(Setting, p, x)  BY <1>3, <2>4 DEF Speaks
    <3>2. ~Ends(Setting, p)
      BY <1>1, <1>3, EndsHead DEF EndCall, x, p, Call
    <3>3. QED  BY <1>1, <3>1, <3>2 DEF EndCase, EndLook
  <2>5. QED  BY <1>3, <2>1, <2>2, <2>3, <2>4 DEF Speaks
<1>5. /\ handler' = [g \in Handlers |-> [says |-> handler'[g].says, plan |-> handler'[g].plan]]
      /\ handler'[h].plan = q /\ handler'[h].says = says
      /\ OneVoice' /\ Setting' = Setting /\ (AllActivity' <=> AllActivity) /\ (Notifies' <=> Notifies)
  BY <1>1, <1>2, Moved
<1> HIDE DEF p, q, x, says
<1>6. /\ end'["main"] = "none" /\ end' \in [Keys -> {"none", "phase1", "phase2", "running"}]
      /\ callback["main"] = "none"
  BY <1>1, <1>2, <1>4, KeysNamed DEF Typed, Untroubled
<1>7. Heard' /\ ~Clearing /\ (Raising => Raising')
  <2>1. CASE says = "on"
    BY <1>1, <1>2, <1>4, <2>1, QuietStep DEF says
  <2>2. CASE says # "on"
    <3>1. RaisesWell(h)'  BY <1>4, <1>5, <1>6, <2>2 DEF RaisesWell
    <3>2. QED  BY <1>1, <1>2, <1>4, <1>6, <2>2, <3>1, RaiseStep DEF says
  <2>3. QED  BY <2>1, <2>2
<1>8. Typed'  BY <1>1, <1>2, <1>5, <1>6 DEF Typed
<1>9. Tidy'  BY <1>1, <1>2, <1>5, <1>6 DEF Tidy
<1>10. TakenBack'  BY <1>1, <1>2, <1>6, <1>7 DEF TakenBack
<1>11. QED  BY <1>5, <1>7, <1>8, <1>9, <1>10 DEF Alarms

\* A handler that is past its look-ups, and one that is not.
Acts(c, says, p, x) ==
  \/ says = "nothing" /\ AsideCall(x) /\ AsidePlan(Tail(p))
  \/ says = "on" /\ OnCall(x) /\ OnPlan(c, Tail(p))
  \/ says \in {"alert", "unsure"} /\ Tells(c, p) /\ TellCall(c, x) /\ Tells(c, Tail(p))
  \/ says = "off" /\ Ends(c, p) /\ EndCall(c, x) /\ Ends(c, Tail(p))
Looks(c, says, p, x) ==
  \/ says \in {"alert", "unsure"} /\ ~Tells(c, p) /\ RaiseCase(c, p, x)
  \/ says = "off" /\ ~Ends(c, p) /\ EndCase(c, p, x)

LEMMA ActsOrLooks ==
  ASSUME Heard, NEW h \in Handlers, handler[h].plan # <<>>
  PROVE  /\ IsPlan(handler[h].plan)
         /\ Call(h).do \notin {"stop", "get", "ifPending", "endIfTracked", "cancel"}
              => Acts(Setting, handler[h].says, handler[h].plan, Call(h))
         /\ Call(h).do \in {"get", "ifPending", "endIfTracked", "cancel"}
              => Looks(Setting, handler[h].says, handler[h].plan, Call(h))
<1> DEFINE p == handler[h].plan  says == handler[h].says  c == Setting  x == Call(h)
<1>1. Speaks(c, says, p, x) /\ IsPlan(p) /\ p # <<>> /\ x = Head(p)  BY Spoken DEF Call
<1> HIDE DEF p, says, c, x
<1>2. Tells(c, p) => TellCall(c, x) /\ Tells(c, Tail(p))  BY <1>1, TellsHead
<1>3. Ends(c, p) => EndCall(c, x) /\ Ends(c, Tail(p))  BY <1>1, EndsHead
<1>4. x.do \notin {"stop", "get", "ifPending", "endIfTracked", "cancel"} => Acts(c, says, p, x)
  BY <1>1, <1>2, <1>3 DEF Speaks, Acts, RaiseCase, EndCase, EndLook
<1>5. x.do \in {"get", "ifPending", "endIfTracked", "cancel"} => Looks(c, says, p, x)
  BY <1>1, <1>2, <1>3 DEF Speaks, Looks, AsideCall, OnCall, TellCall, EndCall
<1>6. QED  BY <1>1, <1>4, <1>5 DEF p, says, c, x

\* A resolve past its look-ups goes on: the alert is still being cleared.
LEMMA GoesOnEnding ==
  ASSUME Typed, OneVoice, Heard, NEW h \in Handlers, NEW q, Takes(h, q),
         handler[h].says = "off", Ends(Setting, handler[h].plan), Ends(Setting, q),
         note' = "alert" => note = "alert" /\ (Clears(handler[h].plan) => Clears(q)),
         repeats' = repeats
  PROVE  Heard' /\ ~Raising /\ (note' = "alert" => Clearing') /\ (Notifies => ~repeats)
<1> DEFINE p == handler[h].plan
<1>1. /\ handler'[h].plan = q /\ handler'[h].says = "off"
      /\ \A g \in Handlers : handler'[g].says = handler[g].says
      /\ \A g \in Handlers : g # h => handler'[g] = handler[g]
      /\ Setting' = Setting /\ (Notifies' <=> Notifies)
  BY Moved
<1>2. ~Has(p, {"cancel"})  BY DEF Ends, EndCall, Has
<1>3. (note = "alert" => Clearing) /\ (Notifies => ~repeats)
  BY <1>2 DEF Heard, EndsWell
<1>4. note' = "alert" => Clearing'
  <2> SUFFICES ASSUME note' = "alert", NEW g \in Handlers, handler[g].says = "off", Clears(handler[g].plan)
               PROVE  handler'[g].says = "off" /\ Clears(handler'[g].plan)
    BY <1>3 DEF Clearing
  <2>1. QED  BY <1>1
<1>5. EndsWell(h)'  BY <1>1, <1>3, <1>4 DEF EndsWell
<1>6. Voice(Setting, "off", q)  BY DEF Voice, OffPlan
<1>7. Heard' /\ ~Raising  BY <1>5, <1>6, EndStep
<1>8. QED  BY <1>3, <1>4, <1>7

\* ScheduleEnd: only a resolve that clears the alert begins an end.
LEMMA ScheduleKeeps ==
  ASSUME Alarms, Untroubled', NEW h \in Handlers, Schedule(h)
  PROVE  Alarms'
<1> DEFINE p == handler[h].plan  q == Tail(p)  x == Call(h)
<1>1. /\ Takes(h, q) /\ x.do = "end" /\ p # <<>>
      /\ end' = [end EXCEPT ![x.key] = "phase1"] /\ raced' = (raced \/ callback[x.key] # "none")
      /\ UNCHANGED <<provider, urls, row, callback, card, repeats, note, last>>
  BY DEF Schedule, Calls, Next1, Takes, config, server
<1>2. Typed /\ Heard /\ OneVoice /\ Tidy /\ TakenBack  BY DEF Alarms
<1>3. handler[h].says = "off" /\ Ends(Setting, p) /\ EndCall(Setting, x) /\ Ends(Setting, q) /\ IsPlan(p)
  BY <1>1, <1>2, ActsOrLooks DEF Acts, AsideCall, OnCall, TellCall
<1>4. x.key = "main" /\ AllActivity  BY <1>1, <1>3 DEF EndCall, Setting
<1>5. /\ handler' = [g \in Handlers |-> [says |-> handler'[g].says, plan |-> handler'[g].plan]]
      /\ OneVoice' /\ Setting' = Setting /\ (AllActivity' <=> AllActivity) /\ (Notifies' <=> Notifies)
  BY <1>1, <1>2, Moved
<1>6. /\ end'["main"] = "phase1" /\ end' \in [Keys -> {"none", "phase1", "phase2", "running"}]
      /\ callback["main"] = "none"
  BY <1>1, <1>2, <1>4, KeysNamed DEF Typed, Untroubled
<1>7. Clears(p) => Clears(q)
  BY <1>1, <1>3, TakenHas DEF Clears, Call
<1> HIDE DEF p, q, x
<1>8. Heard' /\ ~Raising /\ (note' = "alert" => Clearing')
  BY <1>1, <1>2, <1>3, <1>7, GoesOnEnding DEF p
<1>9. Typed'  BY <1>1, <1>2, <1>5, <1>6 DEF Typed
<1>10. Tidy'  BY <1>1, <1>2, <1>4, <1>5, <1>6 DEF Tidy
<1>11. TakenBack'  BY <1>1, <1>2, <1>6, <1>8 DEF TakenBack
<1>12. QED  BY <1>5, <1>8, <1>9, <1>10, <1>11 DEF Alarms

\* A resolve that looks nothing up any more after this call.
LEMMA BeginsEnding ==
  ASSUME Typed, OneVoice, Heard, Tidy, NEW h \in Handlers, NEW q, Takes(h, q),
         handler[h].says = "off", ~Clears(handler[h].plan), ~Has(handler[h].plan, {"cancel"}),
         UNCHANGED <<note, repeats>>, Ends(Setting, q),
         note = "alert" => Clearing \/ Clears(q)
  PROVE  Heard' /\ ~Raising /\ (note = "alert" => Clearing')
<1> DEFINE p == handler[h].plan
<1>1. /\ handler'[h].plan = q /\ handler'[h].says = "off"
      /\ \A g \in Handlers : handler'[g].says = handler[g].says
      /\ \A g \in Handlers : g # h => handler'[g] = handler[g]
      /\ Setting' = Setting /\ (Notifies' <=> Notifies)
  BY Moved
<1>2. Notifies => ~repeats  BY DEF Heard, EndsWell
<1>3. note = "alert" => Clearing'
  <2>1. Clears(q) => Clearing'  BY <1>1 DEF Clearing
  <2>2. Clearing => Clearing'
    <3> SUFFICES ASSUME NEW g \in Handlers, handler[g].says = "off", Clears(handler[g].plan)
                 PROVE  handler'[g].says = "off" /\ Clears(handler'[g].plan)
      BY DEF Clearing
    <3>1. QED  BY <1>1
  <2>3. QED  BY <2>1, <2>2
<1>4. EndsWell(h)'  BY <1>1, <1>2, <1>3 DEF EndsWell
<1>5. Voice(Setting, "off", q)  BY DEF Voice, OffPlan
<1>6. QED  BY <1>3, <1>4, <1>5, EndStep

\* A call that leads to another plan and changes nothing else.
LEMMA OnlyPlan ==
  ASSUME Alarms, NEW h \in Handlers, NEW q, Takes(h, q),
         UNCHANGED <<row, end, callback, card, repeats, note, last>>, Heard',
         note = "alert" /\ Clearing => Clearing', Raising => Raising'
  PROVE  Alarms'
<1>1. Typed /\ OneVoice /\ Tidy /\ TakenBack  BY DEF Alarms
<1>2. /\ handler' = [g \in Handlers |-> [says |-> handler'[g].says, plan |-> handler'[g].plan]]
      /\ OneVoice' /\ Setting' = Setting /\ (AllActivity' <=> AllActivity) /\ (Notifies' <=> Notifies)
  BY <1>1, Moved
<1>3. provider' = provider  BY DEF Takes, config
<1>4. Typed'  BY <1>1, <1>2 DEF Typed
<1>5. Tidy'  BY <1>1, <1>2 DEF Tidy
<1>6. TakenBack'  BY <1>1, <1>3 DEF TakenBack
<1>7. QED  BY <1>2, <1>4, <1>5, <1>6 DEF Alarms

\* EndIfTracked, of a service without activities: there is no row.
LEMMA EndTrackedKeeps ==
  ASSUME Alarms, Untroubled', NEW h \in Handlers, EndTracked(h)
  PROVE  Alarms'
<1> DEFINE p == handler[h].plan  x == Call(h)  q == x.absent
<1>1. p # <<>> /\ x.do = "endIfTracked"  BY DEF EndTracked, Calls
<1>2. Typed /\ Heard /\ OneVoice /\ Tidy /\ TakenBack  BY DEF Alarms
<1>3. /\ handler[h].says = "off" /\ ~Clears(p) /\ ~Has(p, {"cancel"})
      /\ x.key = "main" /\ Rowless(Setting) /\ Ending(Setting, q)
  BY <1>1, <1>2, ActsOrLooks DEF Looks, RaiseCase, EndCase, EndLook
<1>4. ~row["main"]  BY <1>2, <1>3 DEF Tidy
<1>5. \A kind : ~Fails(h, kind)  BY NoFault DEF Fails, Untroubled
<1>6. Takes(h, q) /\ UNCHANGED <<row, end, callback, card, repeats, note, last>>
  BY <1>1, <1>3, <1>4, <1>5 DEF EndTracked, Takes, config, server
<1>7. note = "alert" => Clears(q)  BY <1>2, <1>3 DEF Tidy, Ending, Setting
<1> HIDE DEF p, q, x
<1>8. Heard' /\ ~Raising /\ (note = "alert" => Clearing')
  BY <1>2, <1>3, <1>6, <1>7, BeginsEnding DEF p, Ending
<1>9. QED  BY <1>6, <1>8, OnlyPlan

LEMMA BooksHas ==
  ASSUME NEW c, NEW p, Books(c, p)
  PROVE  RaisePlan(c, p) /\ ~Has(p, {"send"}) /\ ~Undoes(p)
<1>1. Of(p) = {p[1]} /\ p[1].do = "get"  BY Few DEF Books
<1>2. QED  BY <1>1 DEF RaisePlan, Has, Undoes

\* Ender.Pending: an end under way belongs to a resolve that clears.
LEMMA AskPendingKeeps ==
  ASSUME Alarms, Untroubled', NEW h \in Handlers, AskPending(h)
  PROVE  Alarms'
<1> DEFINE p == handler[h].plan  x == Call(h)  q == IF end[x.key] # "none" THEN x.pending ELSE x.over
<1>1. /\ p # <<>> /\ x.do = "ifPending" /\ Takes(h, q)
      /\ UNCHANGED <<row, end, callback, card, repeats, note, last>>
  BY DEF AskPending, Calls, Takes, config, server, ends, ghosts
<1>2. Typed /\ Heard /\ OneVoice /\ Tidy /\ TakenBack  BY DEF Alarms
<1>3. Looks(Setting, handler[h].says, p, x)  BY <1>1, <1>2, ActsOrLooks
<1>4. Voice(Setting, handler[h].says, p)  BY <1>2 DEF Heard
<1>5. handler'[h].plan = q /\ handler'[h].says = handler[h].says /\ Setting' = Setting
  BY <1>1, <1>2, Moved
<1> HIDE DEF p, x
<1>6. CASE handler[h].says \in {"alert", "unsure"}
  <2>1. x.key = "main" /\ Inert(x.pending) /\ Books(Setting, x.over)
    BY <1>1, <1>3, <1>6 DEF Looks, RaiseCase
  <2>2. CASE end["main"] # "none"
    <3>1. q = x.pending  BY <2>1, <2>2
    <3> HIDE DEF q
    <3>2. Voice(Setting, handler[h].says, q) /\ ~Undoes(q) /\ ~Has(q, {"get", "set", "send"}) /\ ~Has(q, {"send"})
      BY <1>4, <2>1, <3>1, InertVoice
    <3>3. RaisesWell(h)'  BY <1>5, <3>2 DEF RaisesWell
    <3>4. QED  BY <1>1, <1>2, <1>6, <3>2, <3>3, RaiseStep, OnlyPlan
  <2>3. CASE end["main"] = "none"
    <3>1. q = x.over  BY <2>1, <2>3
    <3> HIDE DEF q
    <3>2. RaisePlan(Setting, q) /\ ~Undoes(q) /\ ~Has(q, {"send"})  BY <2>1, <3>1, BooksHas
    <3>3. RaisesWell(h)'  BY <1>1, <1>5, <2>3, <3>2 DEF RaisesWell
    <3>4. Voice(Setting, handler[h].says, q)  BY <1>6, <3>2 DEF Voice
    <3>5. QED  BY <1>1, <1>2, <1>6, <3>3, <3>4, RaiseStep, OnlyPlan
  <2>4. QED  BY <2>2, <2>3
<1>7. CASE handler[h].says = "off"
  <2>1. /\ ~Clears(p) /\ ~Has(p, {"cancel"}) /\ x.key = "main" /\ Inert(x.pending) /\ Ending(Setting, x.over)
    BY <1>1, <1>3, <1>7 DEF Looks, EndCase, EndLook
  <2>2. Ends(Setting, q) /\ (note = "alert" => Clearing \/ Clears(q))
    <3>1. CASE end["main"] # "none"
      BY <1>2, <1>4, <2>1, <3>1, InertVoice DEF TakenBack
    <3>2. CASE end["main"] = "none"
      BY <1>2, <2>1, <3>2 DEF Tidy, Ending, Setting
    <3>3. QED  BY <3>1, <3>2
  <2> HIDE DEF q
  <2>3. Heard' /\ ~Raising /\ (note = "alert" => Clearing')
    BY <1>1, <1>2, <1>7, <2>1, <2>2, BeginsEnding DEF p
  <2>4. QED  BY <1>1, <2>3, OnlyPlan
<1>8. QED  BY <1>3, <1>6, <1>7 DEF Looks

LEMMA AsksEndIsNoEnd ==
  ASSUME NEW c, NEW p, AsksEnd(c, p)
  PROVE  ~Ends(c, p)
<1>1. Of(p) = {p[1]} /\ p[1].do = "ifPending"  BY Few DEF AsksEnd
<1>2. QED  BY <1>1, LookIsNoEnd

\* Get: a resolve that finds no row has no alert to take back.
LEMMA ReadKeeps ==
  ASSUME Alarms, Untroubled', NEW h \in Handlers, Read(h)
  PROVE  Alarms'
<1> DEFINE p == handler[h].plan  x == Call(h)  q == IF row[x.key] THEN x.found ELSE x.absent
           c == Setting
<1>1. \A kind : ~Fails(h, kind)  BY NoFault DEF Fails, Untroubled
<1>2. /\ p # <<>> /\ x.do = "get" /\ Takes(h, q)
      /\ UNCHANGED <<row, end, callback, card, repeats, note, last>>
  BY <1>1 DEF Read, Calls, Takes, config, server, ends
<1>3. Typed /\ Heard /\ OneVoice /\ Tidy /\ TakenBack  BY DEF Alarms
<1>4. Looks(c, handler[h].says, p, x)  BY <1>2, <1>3, ActsOrLooks
<1>5. Voice(c, handler[h].says, p)  BY <1>3 DEF Heard
<1>6. /\ handler'[h].plan = q /\ handler'[h].says = handler[h].says /\ Setting' = c
      /\ provider' = provider
  BY <1>2, <1>3, Moved DEF Takes, config
<1>7. /\ c.service = provider /\ c.notifies = Notifies  BY DEF Setting
<1> HIDE DEF p, x, c
<1>8. CASE handler[h].says \in {"alert", "unsure"}
  <2>1. /\ x.key = "main" /\ ~Has(p, {"stop"}) /\ Has(p, {"get"})
        /\ \/ News(c, x.found) /\ News(c, x.absent)
           \/ LooksUp(c, x.found) /\ Len(x.found) = 2 /\ Inert(x.absent)
    BY <1>2, <1>4, <1>8 DEF Looks, RaiseCase
  <2>2. end["main"] = "none"
    <3>1. RaisesWell(h)  BY <1>3 DEF Heard
    <3>2. Has(p, {"get", "set", "send"})  BY <2>1 DEF Has
    <3>3. QED  BY <1>8, <2>1, <3>1, <3>2 DEF RaisesWell, p
  <2>3. News(c, q) \/ LooksUp(c, q) \/ Inert(q)  BY <2>1
  <2> HIDE DEF q
  <2>4. /\ RaisePlan(c, q)
        /\ Has(q, {"send"}) /\ ~Has(q, {"set"}) => provider = "alert"
        /\ Undoes(q) => Has(q, {"create"})
    <3>1. CASE News(c, q)
      BY <1>7, <3>1 DEF News, RaisePlan, Rowless
    <3>2. CASE LooksUp(c, q)
      <4>1. ~Has(q, {"send"}) /\ ~Undoes(q)  BY <3>2, LookUpHas
      <4>2. QED  BY <3>2, <4>1 DEF RaisePlan
    <3>3. CASE Inert(q)
      <4>1. Voice(c, handler[h].says, q) /\ ~Undoes(q) /\ ~Has(q, {"send"})  BY <1>5, <3>3, InertVoice
      <4>2. QED  BY <1>8, <4>1 DEF Voice
    <3>4. QED  BY <2>3, <3>1, <3>2, <3>3
  <2>5. RaisesWell(h)'  BY <1>2, <1>6, <2>2, <2>4 DEF RaisesWell
  <2>6. Voice(c, handler[h].says, q)  BY <1>8, <2>4 DEF Voice
  <2>7. QED  BY <1>2, <1>3, <1>8, <2>5, <2>6, RaiseStep, OnlyPlan DEF c
<1>9. CASE handler[h].says = "off"
  <2>1. /\ ~Clears(p) /\ ~Has(p, {"cancel"}) /\ x.key = "main"
        /\ \/ c.service # "alert" /\ Ending(c, x.found) /\ Inert(x.absent)
           \/ c.service = "alert" /\ AsksEnd(c, x.found) /\ Ending(c, x.absent)
    BY <1>2, <1>4, <1>9 DEF Looks, EndCase, EndLook
  <2>2. \/ Ending(c, q)
        \/ Inert(q) /\ provider # "alert" /\ ~row["main"]
        \/ AsksEnd(c, q)
    BY <1>7, <2>1
  <2> HIDE DEF q
  <2>3. CASE Ending(c, q) \/ (Inert(q) /\ provider # "alert" /\ ~row["main"])
    <3>1. Ends(c, q) /\ (note = "alert" => Clearing \/ Clears(q))
      <4>1. CASE Ending(c, q)
        BY <1>3, <1>7, <4>1 DEF Tidy, Ending
      <4>2. CASE Inert(q) /\ provider # "alert" /\ ~row["main"]
        BY <1>3, <1>5, <4>2, InertVoice DEF TakenBack
      <4>3. QED  BY <2>3, <4>1, <4>2
    <3>2. Heard' /\ ~Raising /\ (note = "alert" => Clearing')
      BY <1>2, <1>3, <1>9, <2>1, <3>1, BeginsEnding DEF p, c
    <3>3. QED  BY <1>2, <3>2, OnlyPlan
  <2>4. CASE AsksEnd(c, q)
    <3>1. ~Ends(c, q)  BY <2>4, AsksEndIsNoEnd
    <3>2. Notifies => ~repeats  BY <1>3, <1>9, <2>1 DEF Heard, EndsWell, p
    <3>3. Notifies' <=> Notifies  BY <1>2, <1>3, Moved
    <3>4. EndsWell(h)'  BY <1>2, <1>6, <3>1, <3>2, <3>3 DEF EndsWell
    <3>5. Voice(c, "off", q)  BY <2>4 DEF Voice, OffPlan
    <3>6. Heard' /\ ~Raising /\ (note = "alert" /\ Clearing => Clearing')
      BY <1>2, <1>3, <1>9, <2>1, <3>4, <3>5, EndStep DEF p, c
    <3>7. QED  BY <1>2, <3>6, OnlyPlan
  <2>5. QED  BY <2>2, <2>3, <2>4
<1>10. QED  BY <1>4, <1>8, <1>9 DEF Looks

\* Set: the row is there before the alert is sent.
LEMMA SetKeeps ==
  ASSUME Alarms, NEW h \in Handlers, Takes(h, Tail(handler[h].plan)),
         Call(h).do = "set", row' = [row EXCEPT ![Call(h).key] = TRUE],
         UNCHANGED <<end, callback, card, repeats, note, last>>
  PROVE  Alarms'
<1> DEFINE p == handler[h].plan  x == Call(h)  q == Tail(p)  c == Setting
<1>1. p # <<>> /\ x = Head(p) /\ provider' = provider  BY DEF Takes, Call, config
<1>2. Typed /\ Heard /\ OneVoice /\ Tidy /\ TakenBack  BY DEF Alarms
<1>3. Acts(c, handler[h].says, p, x) /\ IsPlan(p)  BY <1>1, <1>2, ActsOrLooks
<1>4. /\ handler' = [g \in Handlers |-> [says |-> handler'[g].says, plan |-> handler'[g].plan]]
      /\ handler'[h].plan = q /\ handler'[h].says = handler[h].says
      /\ OneVoice' /\ Setting' = c /\ (AllActivity' <=> AllActivity) /\ (Notifies' <=> Notifies)
  BY <1>2, Moved
<1>5. \A S : Has(p, S) <=> (x.do \in S \/ Has(q, S))  BY <1>1, <1>3, TakenHas
<1>6. Of(p) = {x} \union Of(q)  BY <1>1, <1>3, Taken
<1>7. c.service = provider  BY DEF Setting
<1>8. Typed /\ row' \in [Keys -> BOOLEAN]  BY <1>2 DEF Typed
<1> HIDE DEF p, x, q, c
<1>9. x.key = "main" /\ ~Rowless(c) /\ handler[h].says \in {"on", "alert", "unsure"}
  BY <1>3 DEF Acts, AsideCall, OnCall, OnPlan, TellCall, EndCall, x, Rowless
<1>10. row'["main"]  BY <1>2, <1>9, KeysNamed DEF Typed, x
<1>11. Heard' /\ ~Clearing /\ (Raising => Raising')
  <2>1. CASE handler[h].says = "on"
    <3>1. Voice(c, "on", q)  BY <1>3, <2>1 DEF Acts, Voice, q
    <3>2. QED  BY <1>2, <2>1, <3>1, QuietStep DEF c, q, p
  <2>2. CASE handler[h].says # "on"
    <3>1. Tells(c, p) /\ Tells(c, q)  BY <1>3, <1>9, <2>2 DEF Acts, q
    <3>2. Voice(c, handler[h].says, q)  BY <1>9, <2>2, <3>1 DEF Voice, RaisePlan
    <3>3. ~Has(p, {"stop"})  BY <3>1 DEF Tells, TellCall, Has
    <3>4. Has(p, {"get", "set", "send"})  BY <1>5 DEF x
    <3>5. RaisesWell(h)  BY <1>2 DEF Heard
    <3>6. end["main"] = "none"  BY <1>9, <2>2, <3>3, <3>4, <3>5 DEF RaisesWell, p
    <3>7. Undoes(q) /\ ~Has(q, {"create"}) => card["main"] # "none"
      <4>1. Undoes(q) => Undoes(p)  BY <1>6 DEF Undoes
      <4>2. ~Has(q, {"create"}) => ~Has(p, {"create"})  BY <1>5 DEF x
      <4>3. QED  BY <1>9, <2>2, <3>5, <4>1, <4>2 DEF RaisesWell, p
    <3>8. RaisesWell(h)'  BY <1>4, <1>10, <3>6, <3>7 DEF RaisesWell
    <3>9. QED  BY <1>2, <1>9, <1>10, <2>2, <3>2, <3>8, RaiseStep DEF c, q, p
  <2>3. QED  BY <2>1, <2>2
<1>12. Rowless(Setting') = Rowless(c)  BY <1>4
<1>13. Typed'  BY <1>4, <1>8 DEF Typed
<1>14. Tidy'  BY <1>2, <1>4, <1>9 DEF Tidy
<1>15. TakenBack'  BY <1>1, <1>2, <1>10, <1>11 DEF TakenBack
<1>16. QED  BY <1>4, <1>11, <1>13, <1>14, <1>15 DEF Alarms

\* Delete, by a resolve that still clears the alert.
LEMMA DeleteKeeps ==
  ASSUME Alarms, NEW h \in Handlers, Takes(h, Tail(handler[h].plan)),
         Call(h).do = "delete", row' = [row EXCEPT ![Call(h).key] = FALSE],
         UNCHANGED <<end, callback, card, repeats, note, last>>
  PROVE  Alarms'
<1> DEFINE p == handler[h].plan  x == Call(h)  q == Tail(p)  c == Setting
<1>1. p # <<>> /\ x = Head(p) /\ provider' = provider  BY DEF Takes, Call, config
<1>2. Typed /\ Heard /\ OneVoice /\ Tidy /\ TakenBack  BY DEF Alarms
<1>3. Acts(c, handler[h].says, p, x) /\ IsPlan(p)  BY <1>1, <1>2, ActsOrLooks
<1>4. /\ handler' = [g \in Handlers |-> [says |-> handler'[g].says, plan |-> handler'[g].plan]]
      /\ OneVoice' /\ Setting' = c /\ (AllActivity' <=> AllActivity) /\ (Notifies' <=> Notifies)
  BY <1>2, Moved
<1>5. Clears(p) => Clears(q)  BY <1>1, <1>3, TakenHas DEF Clears
<1>6. Typed /\ row' \in [Keys -> BOOLEAN]  BY <1>2 DEF Typed
<1>7. row["main"] \/ ~row'["main"]  BY <1>6, KeysNamed DEF Typed
<1> HIDE DEF p, x, q, c
<1>8. handler[h].says = "off" /\ Ends(c, p) /\ Ends(c, q)
  BY <1>3 DEF Acts, AsideCall, OnCall, TellCall, x, q
<1>9. Heard' /\ ~Raising /\ (note' = "alert" => Clearing')
  BY <1>2, <1>5, <1>8, GoesOnEnding DEF p, q, c
<1>10. Typed'  BY <1>4, <1>6 DEF Typed
<1>11. Tidy'  BY <1>2, <1>4, <1>7 DEF Tidy, c
<1>12. TakenBack'  BY <1>2, <1>9 DEF TakenBack
<1>13. QED  BY <1>4, <1>9, <1>10, <1>11, <1>12 DEF Alarms

LEMMA WriteKeeps ==
  ASSUME Alarms, Untroubled', NEW h \in Handlers, Write(h)
  PROVE  Alarms'
<1>1. \A kind : ~Fails(h, kind)  BY NoFault DEF Fails, Untroubled
<1>2. PICK op \in {"set", "delete"} :
        /\ Calls(h, op) /\ Next1(h)
        /\ row' = [row EXCEPT ![Call(h).key] = op = "set"]
  BY <1>1 DEF Write
<1>3. /\ Takes(h, Tail(handler[h].plan)) /\ Call(h).do = op
      /\ UNCHANGED <<end, callback, card, repeats, note, last>>
  BY <1>2 DEF Write, Calls, Next1, Takes, config, ends, server
<1>4. QED  BY <1>2, <1>3, SetKeeps, DeleteKeeps

\* An activity that is created, or shown to go on.
LEMMA CardKeeps ==
  ASSUME Alarms, NEW h \in Handlers, Takes(h, Tail(handler[h].plan)),
         Call(h).do \in {"create", "update"}, card' = [card EXCEPT ![Call(h).key] = "ongoing"],
         UNCHANGED <<row, end, callback, repeats, note, last>>
  PROVE  Alarms'
<1> DEFINE p == handler[h].plan  x == Call(h)  q == Tail(p)  c == Setting
<1>1. p # <<>> /\ x = Head(p) /\ provider' = provider  BY DEF Takes, Call, config
<1>2. Typed /\ Heard /\ OneVoice /\ Tidy /\ TakenBack  BY DEF Alarms
<1>3. Acts(c, handler[h].says, p, x) /\ IsPlan(p)  BY <1>1, <1>2, ActsOrLooks
<1>4. /\ handler' = [g \in Handlers |-> [says |-> handler'[g].says, plan |-> handler'[g].plan]]
      /\ handler'[h].plan = q /\ handler'[h].says = handler[h].says
      /\ OneVoice' /\ Setting' = c /\ (AllActivity' <=> AllActivity) /\ (Notifies' <=> Notifies)
  BY <1>2, Moved
<1>5. \A S : Has(p, S) <=> (x.do \in S \/ Has(q, S))  BY <1>1, <1>3, TakenHas
<1>6. Typed /\ card' \in [Keys -> {"none", "ongoing", "ended"}] /\ (card["main"] # "none" => card'["main"] # "none")
  BY <1>2, KeysNamed DEF Typed
<1> HIDE DEF p, x, q, c
<1>7. Heard' /\ ~Clearing /\ (Raising => Raising')
  <2>1. CASE handler[h].says \in {"on", "nothing"}
    <3>1. Voice(c, handler[h].says, q)  BY <1>3, <2>1 DEF Acts, Voice, q
    <3>2. QED  BY <1>2, <2>1, <3>1, QuietStep DEF c, q, p
  <2>2. CASE handler[h].says \in {"alert", "unsure"}
    <3>1. Tells(c, p) /\ TellCall(c, x) /\ Tells(c, q)  BY <1>3, <2>2 DEF Acts, q
    <3>2. Voice(c, handler[h].says, q)  BY <2>2, <3>1 DEF Voice, RaisePlan
    <3>3. card'["main"] # "none"
      <4>1. x.key = "main"  BY <3>1 DEF TellCall, x
      <4>2. QED  BY <1>2, <4>1, KeysNamed DEF Typed, x
    <3>4. ~Has(p, {"stop"})  BY <3>1 DEF Tells, TellCall, Has
    <3>5. RaisesWell(h)  BY <1>2 DEF Heard
    <3>6. Has(q, {"get", "set", "send"}) => end["main"] = "none"
      BY <1>5, <2>2, <3>4, <3>5 DEF RaisesWell, p
    <3>7. Has(q, {"send"}) /\ ~Has(q, {"set"}) => row["main"] \/ provider = "alert"
      BY <1>5, <2>2, <3>5 DEF RaisesWell, p, x
    <3>8. RaisesWell(h)'  BY <1>1, <1>4, <3>3, <3>6, <3>7 DEF RaisesWell
    <3>9. QED  BY <1>2, <1>6, <2>2, <3>2, <3>8, RaiseStep DEF c, q, p
  <2>3. handler[h].says # "off"  BY <1>3 DEF Acts, EndCall, x
  <2>4. QED  BY <1>3, <2>1, <2>2, <2>3 DEF Acts
<1>8. Typed'  BY <1>4, <1>6 DEF Typed
<1>9. Tidy'  BY <1>2, <1>4 DEF Tidy, c
<1>10. TakenBack'  BY <1>1, <1>2, <1>7 DEF TakenBack
<1>11. QED  BY <1>4, <1>7, <1>8, <1>9, <1>10 DEF Alarms

LEMMA CreateKeeps ==
  ASSUME Alarms, Untroubled', NEW h \in Handlers, CreateActivity(h)
  PROVE  Alarms'
<1>1. \A kind : ~Fails(h, kind)  BY NoFault DEF Fails, Untroubled
<1>2. /\ Takes(h, Tail(handler[h].plan)) /\ Call(h).do = "create"
      /\ card' = [card EXCEPT ![Call(h).key] = "ongoing"]
      /\ UNCHANGED <<row, end, callback, repeats, note, last>>
  BY <1>1 DEF CreateActivity, Calls, Next1, Takes, config, ends
<1>3. QED  BY <1>2, CardKeeps

\* A card that is not there: the webhook is refused, and is to be sent again.
LEMMA RefusedKeeps ==
  ASSUME Alarms, NEW h \in Handlers, handler[h].plan # <<>>, Call(h).do = "update",
         card[Call(h).key] = "none", Otherwise(h),
         UNCHANGED <<provider, urls, row, end, callback, card, repeats, note, last>>
  PROVE  Alarms'
<1> DEFINE p == handler[h].plan  x == Call(h)  c == Setting
<1>1. p # <<>> /\ x = Head(p) /\ provider' = provider  BY DEF Call
<1>2. Typed /\ Heard /\ OneVoice /\ Tidy /\ TakenBack  BY DEF Alarms
<1>3. Acts(c, handler[h].says, p, x) /\ IsPlan(p)  BY <1>1, <1>2, ActsOrLooks
<1>4. /\ handler[h].says \in {"on", "nothing", "alert", "unsure"}
      /\ \/ x.or = Refused
         \/ x.or = RollBack /\ x.key = "main" /\ handler[h].says \in {"alert", "unsure"} /\ Tells(c, p)
  BY <1>3 DEF Acts, AsideCall, OnCall, TellCall, EndCall
<1>5. x.or = Refused
  <2> SUFFICES ASSUME x.or = RollBack, x.key = "main", handler[h].says \in {"alert", "unsure"}, Tells(c, p)
               PROVE  FALSE
    BY <1>4
  <2>1. ~Has(p, {"create"})  BY <1>1, TellsHead
  <2>2. x \in Of(p)  BY <1>1, <1>3, Taken
  <2>3. Undoes(p)  BY <2>2 DEF Undoes
  <2>4. QED  BY <1>2, <2>1, <2>3 DEF Heard, RaisesWell
<1>6. Takes(h, Refuse)
  <2>1. x.or # GoOn  BY <1>5 DEF Refused, GoOn
  <2>2. Goto(h, Refuse)  BY <1>5, <2>1 DEF Otherwise, Refused
  <2>3. QED  BY <2>2 DEF Takes, config
<1>7. Voice(c, handler[h].says, p)  BY <1>2 DEF Heard
<1> HIDE DEF p, x, c
<1>8. /\ Voice(c, handler[h].says, Refuse) /\ ~Undoes(Refuse)
      /\ ~Has(Refuse, {"get", "set", "send"}) /\ ~Has(Refuse, {"send"})
  BY <1>7, Answers, InertVoice
<1>9. handler'[h].plan = Refuse  BY <1>2, <1>6, Moved
<1>10. Heard' /\ ~Clearing /\ (Raising => Raising')
  <2>1. CASE handler[h].says \in {"on", "nothing"}
    BY <1>2, <1>6, <1>8, <2>1, QuietStep DEF c
  <2>2. CASE handler[h].says \in {"alert", "unsure"}
    <3>1. RaisesWell(h)'  BY <1>8, <1>9 DEF RaisesWell
    <3>2. QED  BY <1>2, <1>6, <1>8, <2>2, <3>1, RaiseStep DEF c
  <2>3. QED  BY <1>4, <2>1, <2>2
<1>11. QED  BY <1>6, <1>10, OnlyPlan

LEMMA UpdateKeeps ==
  ASSUME Alarms, Untroubled', NEW h \in Handlers, UpdateActivity(h)
  PROVE  Alarms'
<1>1. \A kind : ~Fails(h, kind)  BY NoFault DEF Fails, Untroubled
<1>2. /\ handler[h].plan # <<>> /\ Call(h).do = "update"
      /\ UNCHANGED <<provider, urls, row, end, callback, repeats, note, last>>
  BY DEF UpdateActivity, Calls, config, ends
<1>3. CASE card' = [card EXCEPT ![Call(h).key] = Call(h).state] /\ Next1(h)
  <2>1. Takes(h, Tail(handler[h].plan))  BY <1>2, <1>3 DEF Takes, Next1, config
  <2>2. Call(h).state = "ongoing"
    <3>1. Acts(Setting, handler[h].says, handler[h].plan, Call(h))
      BY <1>2, ActsOrLooks DEF Alarms
    <3>2. QED  BY <1>2, <3>1 DEF Acts, AsideCall, OnCall, TellCall, EndCall
  <2>3. QED  BY <1>2, <1>3, <2>1, <2>2, CardKeeps
<1>4. CASE card[Call(h).key] = "none" /\ Otherwise(h) /\ UNCHANGED card
  BY <1>2, <1>4, RefusedKeeps
<1>5. QED  BY <1>1, <1>3, <1>4 DEF UpdateActivity

\* A push: "resolved" takes the place of the alert.
LEMMA NotifyKeeps ==
  ASSUME Alarms, Untroubled', NEW h \in Handlers, Notify(h)
  PROVE  Alarms'
<1> DEFINE p == handler[h].plan  x == Call(h)  q == Tail(p)  c == Setting
<1>1. \A kind : ~Fails(h, kind)  BY NoFault DEF Fails, Untroubled
<1>2. /\ p # <<>> /\ x.do = "push" /\ Takes(h, q) /\ x = Head(p)
      /\ note' = IF x.note = "notice" THEN note ELSE x.note
      /\ UNCHANGED <<row, end, callback, card, repeats, last>>
  BY <1>1 DEF Notify, Calls, Call, Next1, Takes, config, ends
<1>3. Typed /\ Heard /\ OneVoice /\ Tidy /\ TakenBack  BY DEF Alarms
<1>4. Acts(c, handler[h].says, p, x)  BY <1>2, <1>3, ActsOrLooks
<1>5. /\ handler' = [g \in Handlers |-> [says |-> handler'[g].says, plan |-> handler'[g].plan]]
      /\ OneVoice' /\ Setting' = c /\ (AllActivity' <=> AllActivity) /\ (Notifies' <=> Notifies)
  BY <1>2, <1>3, Moved
<1> HIDE DEF p, x, q, c
<1>6. CASE handler[h].says = "nothing"
  <2>1. x.note = "notice" /\ AsidePlan(q)  BY <1>2, <1>4, <1>6 DEF Acts, AsideCall, q
  <2>2. Voice(c, "nothing", q)  BY <2>1 DEF Voice
  <2>3. Heard' /\ ~Clearing /\ ~Raising  BY <1>2, <1>3, <1>6, <2>2, QuietStep DEF c
  <2>4. QED  BY <1>2, <2>1, <2>3, OnlyPlan
<1>7. CASE handler[h].says # "nothing"
  <2>1. handler[h].says = "off" /\ Ends(c, p) /\ Ends(c, q) /\ x.note = "resolved"
    BY <1>2, <1>4, <1>7 DEF Acts, OnCall, TellCall, EndCall, q
  <2>2. note' = "resolved"  BY <1>2, <2>1
  <2>3. Heard' /\ ~Raising  BY <1>2, <1>3, <2>1, <2>2, GoesOnEnding DEF p, c
  <2>4. Typed'  BY <1>2, <1>3, <1>5 DEF Typed
  <2>5. Tidy'  BY <1>2, <1>3, <1>5, <2>2 DEF Tidy, c
  <2>6. TakenBack'  BY <1>2, <1>3, <2>2, <2>3 DEF TakenBack
  <2>7. QED  BY <1>5, <2>3, <2>4, <2>5, <2>6 DEF Alarms
<1>8. QED  BY <1>6, <1>7

\* ack.Send: the alert has its row, and no end is under way.
LEMMA SendKeeps ==
  ASSUME Alarms, Untroubled', NEW h \in Handlers, Send1(h)
  PROVE  Alarms'
<1> DEFINE p == handler[h].plan  x == Call(h)  q == Tail(p)  c == Setting
<1>1. \A kind : ~Fails(h, kind)  BY NoFault DEF Fails, Untroubled
<1>2. /\ p # <<>> /\ x.do = "send" /\ Takes(h, q) /\ x = Head(p) /\ provider' = provider
      /\ note' = IF x.note = "notice" THEN note ELSE x.note
      /\ repeats' \in {repeats, repeats \/ (x.acked /\ x.note = "alert")}
      /\ UNCHANGED <<row, end, callback, card, last>>
  BY <1>1 DEF Send1, Calls, Call, Next1, Takes, config, ends
<1>3. Typed /\ Heard /\ OneVoice /\ Tidy /\ TakenBack  BY DEF Alarms
<1>4. Acts(c, handler[h].says, p, x) /\ IsPlan(p)  BY <1>2, <1>3, ActsOrLooks
<1>5. /\ handler' = [g \in Handlers |-> [says |-> handler'[g].says, plan |-> handler'[g].plan]]
      /\ handler'[h].plan = q /\ handler'[h].says = handler[h].says
      /\ OneVoice' /\ Setting' = c /\ (AllActivity' <=> AllActivity) /\ (Notifies' <=> Notifies)
  BY <1>2, <1>3, Moved
<1>6. \A S : Has(p, S) <=> (x.do \in S \/ Has(q, S))  BY <1>2, <1>4, TakenHas
<1>7. Of(p) = {x} \union Of(q)  BY <1>2, <1>4, Taken
<1>8. c.notifies = Notifies  BY DEF Setting
<1> HIDE DEF p, x, q, c
<1>9. CASE handler[h].says = "nothing"
  <2>1. x.note = "notice" /\ AsidePlan(q)  BY <1>2, <1>4, <1>9 DEF Acts, AsideCall, q
  <2>2. repeats' = repeats /\ note' = note
    <3>1. repeats \in BOOLEAN  BY <1>3 DEF Typed
    <3>2. QED  BY <1>2, <2>1, <3>1
  <2>3. Voice(c, "nothing", q)  BY <2>1 DEF Voice
  <2>4. Heard' /\ ~Clearing /\ ~Raising  BY <1>2, <1>3, <1>9, <2>3, QuietStep DEF c
  <2>5. QED  BY <1>2, <2>2, <2>4, OnlyPlan
<1>10. CASE handler[h].says # "nothing"
  <2>1. /\ handler[h].says \in {"alert", "unsure"} /\ Tells(c, p) /\ Tells(c, q)
        /\ x.note = "alert" /\ Notifies
    BY <1>2, <1>4, <1>8, <1>10 DEF Acts, OnCall, TellCall, EndCall, q
  <2>2. ~Has(p, {"set"}) /\ ~Has(p, {"stop"})
    <3>1. ~Has(p, {"stop"})  BY <2>1 DEF Tells, TellCall, Has
    <3>2. QED  BY <1>2, <2>1, <3>1, TellsHead
  <2>3. Has(p, {"send"}) /\ Has(p, {"get", "set", "send"})  BY <1>2, <1>6
  <2>4. end["main"] = "none" /\ (row["main"] \/ provider = "alert")
    BY <1>3, <2>1, <2>2, <2>3 DEF Heard, RaisesWell, p
  <2>5. Voice(c, handler[h].says, q)  BY <2>1 DEF Voice, RaisePlan
  <2>6. Undoes(q) /\ ~Has(q, {"create"}) => card["main"] # "none"
    <3>1. Undoes(q) => Undoes(p)  BY <1>7 DEF Undoes
    <3>2. ~Has(q, {"create"}) => ~Has(p, {"create"})  BY <1>2, <1>6
    <3>3. QED  BY <1>3, <2>1, <3>1, <3>2 DEF Heard, RaisesWell, p
  <2>7. RaisesWell(h)'  BY <1>2, <1>5, <2>4, <2>6 DEF RaisesWell
  <2>8. Heard' /\ Raising'  BY <1>2, <1>3, <2>1, <2>5, <2>7, RaiseStep DEF c
  <2>9. Typed'
    <3>1. repeats \in BOOLEAN /\ repeats' \in BOOLEAN
      BY <1>2, <1>3 DEF Typed
    <3>2. QED  BY <1>2, <1>3, <1>5, <3>1 DEF Typed
  <2>10. Tidy'  BY <1>2, <1>3, <1>5, <2>1 DEF Tidy, c
  <2>11. TakenBack'  BY <1>2, <1>3, <2>4, <2>8 DEF TakenBack
  <2>12. QED  BY <1>5, <2>8, <2>9, <2>10, <2>11 DEF Alarms
<1>11. QED  BY <1>9, <1>10

\* ack.Cancel, before the look-up.
LEMMA CancelKeeps ==
  ASSUME Alarms, Untroubled', NEW h \in Handlers, CancelRepeats(h)
  PROVE  Alarms'
<1> DEFINE p == handler[h].plan  x == Call(h)  q == Tail(p)  c == Setting
<1>1. \A kind : ~Fails(h, kind)  BY NoFault DEF Fails, Untroubled
<1>2. /\ p # <<>> /\ x.do = "cancel" /\ Takes(h, q) /\ repeats' = FALSE
      /\ UNCHANGED <<row, end, callback, card, note, last>>
  BY <1>1 DEF CancelRepeats, Calls, Next1, Takes, config, ends
<1>3. Typed /\ Heard /\ OneVoice /\ Tidy /\ TakenBack  BY DEF Alarms
<1>4. Looks(c, handler[h].says, p, x)  BY <1>2, <1>3, ActsOrLooks
<1>5. /\ handler' = [g \in Handlers |-> [says |-> handler'[g].says, plan |-> handler'[g].plan]]
      /\ handler'[h].plan = q
      /\ OneVoice' /\ Setting' = c /\ (AllActivity' <=> AllActivity) /\ (Notifies' <=> Notifies)
  BY <1>2, <1>3, Moved
<1> HIDE DEF p, x, q, c
<1>6. handler[h].says = "off" /\ ~Clears(p) /\ EndLooksUp(c, q) /\ ~Ends(c, q)
  BY <1>2, <1>4 DEF Looks, RaiseCase, EndCase, EndLook, q
<1>7. EndsWell(h)'  BY <1>2, <1>5, <1>6 DEF EndsWell
<1>8. Voice(c, "off", q)  BY <1>6 DEF Voice, OffPlan
<1>9. Heard' /\ ~Raising /\ (note' = "alert" /\ Clearing => Clearing')
  BY <1>2, <1>3, <1>6, <1>7, <1>8, EndStep DEF c, p
<1>10. Typed'  BY <1>2, <1>3, <1>5 DEF Typed
<1>11. Tidy'  BY <1>2, <1>3, <1>5 DEF Tidy, c
<1>12. TakenBack'
  <2>1. provider' = provider  BY <1>2 DEF Takes, config
  <2>2. QED  BY <1>2, <1>3, <1>9, <2>1 DEF TakenBack
<1>13. QED  BY <1>5, <1>9, <1>10, <1>11, <1>12 DEF Alarms

\* The outcome clears the alert.
LEMMA OutcomeEnds ==
  ASSUME NEW c, NEW p, Outcome(p)
  PROVE  Ends(c, p) /\ Clears(p)
<1>1. Has(p, {"push"})  BY DEF Outcome
<1>2. Clears(p)  BY <1>1 DEF Clears, Has
<1>3. QED  BY <1>2 DEF Outcome, Ends, EndCall

\* Pool.Retract: the alert is gone, or the outcome is still to be pushed.
LEMMA TakeBackKeeps ==
  ASSUME Alarms, Untroubled', NEW h \in Handlers, TakeBack(h)
  PROVE  Alarms'
<1> DEFINE p == handler[h].plan  x == Call(h)  c == Setting
<1>1. \A kind : ~Fails(h, kind)  BY NoFault DEF Fails, Untroubled
<1>2. /\ p # <<>> /\ x.do = "retract"
      /\ UNCHANGED <<provider, urls, row, end, callback, card, repeats, last>>
  BY DEF TakeBack, Calls, config, ends
<1>3. Typed /\ Heard /\ OneVoice /\ Tidy /\ TakenBack  BY DEF Alarms
<1>4. Acts(c, handler[h].says, p, x)  BY <1>2, <1>3, ActsOrLooks
<1>5. handler[h].says = "off" /\ Ends(c, p) /\ Inert(x.gone)
  BY <1>2, <1>4 DEF Acts, AsideCall, OnCall, TellCall, EndCall
<1>6. PICK still \in x.or : x.or = {still} /\ Outcome(still)
  BY <1>2, <1>4 DEF Acts, AsideCall, OnCall, TellCall, EndCall
<1>7. CASE note' = "none" /\ Goto(h, x.gone)
  <2>1. Takes(h, x.gone)  BY <1>2, <1>7 DEF Takes, config
  <2>2. Ends(c, x.gone)
    <3>1. Voice(c, "off", p)  BY <1>5 DEF Voice, OffPlan
    <3>2. QED  BY <1>5, <3>1, InertVoice
  <2>3. /\ handler' = [g \in Handlers |-> [says |-> handler'[g].says, plan |-> handler'[g].plan]]
        /\ OneVoice' /\ Setting' = c /\ (AllActivity' <=> AllActivity) /\ (Notifies' <=> Notifies)
    BY <1>3, <2>1, Moved
  <2>4. Heard' /\ ~Raising
    <3> HIDE DEF x
    <3>1. QED  BY <1>2, <1>3, <1>5, <1>7, <2>1, <2>2, GoesOnEnding
  <2> HIDE DEF p, x, c
  <2>5. Typed'  BY <1>2, <1>3, <2>3 DEF Typed
  <2>6. Tidy'  BY <1>2, <1>3, <1>7, <2>3 DEF Tidy, c
  <2>7. TakenBack'  BY <1>2, <1>3, <1>7, <2>4 DEF TakenBack
  <2>8. QED  BY <2>3, <2>4, <2>5, <2>6, <2>7 DEF Alarms
<1>8. CASE Otherwise(h) /\ UNCHANGED note
  <2>1. x.or # GoOn  BY <1>6 DEF GoOn
  <2>2. Goto(h, still)  BY <1>6, <1>8, <2>1 DEF Otherwise
  <2>3. Takes(h, still)  BY <1>2, <2>2 DEF Takes, config
  <2>4. Ends(c, still) /\ Clears(still)  BY <1>6, OutcomeEnds
  <2>5. Heard' /\ ~Raising /\ (note' = "alert" => Clearing')
    BY <1>2, <1>3, <1>5, <1>8, <2>3, <2>4, GoesOnEnding
  <2>6. QED  BY <1>2, <1>8, <2>3, <2>5, OnlyPlan
<1>9. QED  BY <1>1, <1>7, <1>8 DEF TakeBack

\* What a 200 tells the sender.
LEMMA LastSaid ==
  ASSUME NEW h \in Handlers, Respond(h)
  PROVE  /\ handler[h].says = "nothing" => last' = last
         /\ handler[h].says # "nothing" => last' \in {handler[h].says, "unsure"}
BY DEF Respond

\* An answer: a resolve that has cleared nothing had nothing to clear.
LEMMA RespondKeeps ==
  ASSUME Alarms, NEW h \in Handlers, Respond(h)
  PROVE  Alarms'
<1> DEFINE p == handler[h].plan  x == Call(h)  c == Setting  says == handler[h].says
<1>1. /\ p # <<>> /\ x.do = "answer" /\ x = Head(p)
      /\ handler' = [handler EXCEPT ![h] = Idle]
      /\ UNCHANGED <<provider, urls, row, end, callback, card, repeats, note>>
  BY DEF Respond, Calls, Call, config, ends, server
<1>2. Typed /\ Heard /\ OneVoice /\ Tidy /\ TakenBack  BY DEF Alarms
<1>3. Acts(c, says, p, x) /\ IsPlan(p)  BY <1>1, <1>2, ActsOrLooks
<1>4. Of(p) = {x}
  <2>1. Len(p) = 1  BY <1>1, <1>3, Taken
  <2>2. QED  BY <1>1, <1>3, <2>1, Few
<1>5. ~Clears(p) /\ ~Has(p, {"cancel"})  BY <1>1, <1>4 DEF Clears, Has
<1>6. /\ handler'[h] = Idle /\ \A g \in Handlers : g # h => handler'[g] = handler[g]
      /\ handler' = [g \in Handlers |-> [says |-> handler'[g].says, plan |-> handler'[g].plan]]
  <2>1. handler = [g \in Handlers |-> [says |-> handler[g].says, plan |-> handler[g].plan]]
    BY <1>2 DEF Typed
  <2>2. handler'[h] = Idle /\ \A g \in Handlers : g # h => handler'[g] = handler[g]
    BY <1>1, <2>1
  <2>3. handler' = [g \in Handlers |-> handler'[g]]  BY <1>1, <2>1
  <2>4. \A g \in Handlers : handler'[g] = [says |-> handler'[g].says, plan |-> handler'[g].plan]
    <3>1. \A g \in Handlers : handler[g] = [says |-> handler[g].says, plan |-> handler[g].plan]  BY <2>1
    <3>2. QED  BY <2>2, <3>1 DEF Idle
  <2>5. QED  BY <2>2, <2>3, <2>4
<1>7. Setting' = c /\ (AllActivity' <=> AllActivity) /\ (Notifies' <=> Notifies)
  BY <1>1 DEF Setting, AllActivity, Notifies
<1>8. Idle.says = "nothing" /\ Idle.plan = <<>>  BY DEF Idle
<1> HIDE DEF p, x, c, says
<1>9. Clearing => Clearing'
  <2> SUFFICES ASSUME NEW g \in Handlers, handler[g].says = "off", Clears(handler[g].plan)
               PROVE  handler'[g].says = "off" /\ Clears(handler'[g].plan)
    BY DEF Clearing
  <2>1. QED  BY <1>5, <1>6 DEF p
<1>10. Heard'
  <2>1. Voice(c, "nothing", <<>>)  BY Concrete DEF Voice, AsidePlan
  <2>2. Voice(Setting', handler'[h].says, handler'[h].plan) /\ RaisesWell(h)' /\ EndsWell(h)'
    BY <1>6, <1>7, <1>8, <2>1 DEF RaisesWell, EndsWell
  <2>3. ASSUME NEW g \in Handlers, g # h
        PROVE  Voice(Setting', handler'[g].says, handler'[g].plan) /\ RaisesWell(g)' /\ EndsWell(g)'
    <3>1. handler'[g] = handler[g] /\ Voice(c, handler[g].says, handler[g].plan) /\ RaisesWell(g) /\ EndsWell(g)
      BY <1>2, <1>6, <2>3 DEF Heard, c
    <3>2. QED  BY <1>1, <1>7, <1>9, <3>1 DEF RaisesWell, EndsWell, c
  <2>4. QED  BY <2>2, <2>3 DEF Heard
<1>11. OneVoice'
  <2>1. Busy' \subseteq Busy /\ \A g \in Busy' : handler'[g] = handler[g]  BY <1>6 DEF Busy
  <2>2. QED  BY <1>2, <2>1 DEF OneVoice
<1>12. Typed'  BY <1>1, <1>2, <1>6 DEF Typed
<1>13. Tidy'  BY <1>1, <1>2, <1>7 DEF Tidy, c
<1>14. TakenBack'
  <2>1. says \in {"alert", "unsure"} \/ (Raising => Raising')
    BY <1>6 DEF Raising, says
  <2>2. CASE says = "nothing"
    <3>1. last' = last  BY <2>2, LastSaid DEF says
    <3>2. QED  BY <1>1, <1>2, <1>9, <2>1, <2>2, <3>1 DEF TakenBack
  <2>3. CASE says \in {"on", "alert", "unsure"}
    <3>1. last' # "off"  BY <2>3, LastSaid DEF says
    <3>2. QED  BY <1>1, <1>2, <1>9, <3>1 DEF TakenBack
  <2>4. CASE says = "off"
    <3>1. Ends(c, p)  BY <1>3, <2>4 DEF Acts
    <3>2. (note = "alert" => Clearing) /\ (Notifies => ~repeats)
      BY <1>2, <1>5, <2>4, <3>1 DEF Heard, EndsWell, says, p, c
    <3>3. ~repeats  BY <1>2, <3>2 DEF Tidy
    <3>4. QED  BY <1>1, <1>2, <1>9, <3>2, <3>3 DEF TakenBack
  <2>5. QED  BY <1>3, <2>2, <2>3, <2>4 DEF Acts
<1>15. QED  BY <1>10, <1>11, <1>12, <1>13, <1>14 DEF Alarms

---------------------------------------------------------------------------
(* A new webhook, and what goes on without the handlers.                   *)

\* A webhook begins before its look-up, and says what the busy ones say.
LEMMA DeliverKeeps ==
  ASSUME SameChannels, urls \in UrlSets, Alarms, Untroubled, NEW h \in Handlers, Deliver(h)
  PROVE  Alarms'
<1> DEFINE c == Setting
<1>0. PICK u \in urls : \E webhook \in Webhooks(provider, u) :
        /\ \A g \in Busy : handler[g].says = webhook.says
        /\ handler' = [handler EXCEPT ![h] = webhook]
  BY DEF Deliver
<1>1. PICK webhook \in Webhooks(provider, u) :
        /\ \A g \in Busy : handler[g].says = webhook.says
        /\ handler' = [handler EXCEPT ![h] = webhook]
  BY <1>0
<1>2. /\ handler[h] = Idle
      /\ UNCHANGED <<provider, urls, row, end, callback, card, repeats, note, last>>
  BY DEF Deliver, config, ends, server, ghosts
<1>3. Typed /\ Heard /\ OneVoice /\ Tidy /\ TakenBack  BY DEF Alarms
<1>4. /\ webhook = [says |-> webhook.says, plan |-> webhook.plan]
      /\ Begins(c, webhook.says, webhook.plan)
  BY UrlsAgree, WebhookBegins DEF Untroubled
<1>5. /\ handler'[h] = webhook /\ \A g \in Handlers : g # h => handler'[g] = handler[g]
      /\ handler' = [g \in Handlers |-> [says |-> handler'[g].says, plan |-> handler'[g].plan]]
  <2>1. handler = [g \in Handlers |-> [says |-> handler[g].says, plan |-> handler[g].plan]]
    BY <1>3 DEF Typed
  <2>2. handler'[h] = webhook /\ \A g \in Handlers : g # h => handler'[g] = handler[g]
    BY <1>1, <2>1
  <2>3. handler' = [g \in Handlers |-> handler'[g]]  BY <1>1, <2>1
  <2>4. \A g \in Handlers : handler'[g] = [says |-> handler'[g].says, plan |-> handler'[g].plan]
    <3>1. \A g \in Handlers : handler[g] = [says |-> handler[g].says, plan |-> handler[g].plan]  BY <2>1
    <3>2. QED  BY <1>4, <2>2, <3>1
  <2>5. QED  BY <2>2, <2>3, <2>4
<1>6. Setting' = c /\ (AllActivity' <=> AllActivity) /\ (Notifies' <=> Notifies)
  BY <1>2 DEF Setting, AllActivity, Notifies
<1>7. c.service = provider /\ c.shows = AllActivity /\ c.notifies = Notifies  BY DEF Setting
<1>8. handler[h].says = "nothing"  BY <1>2 DEF Idle
<1> HIDE DEF c
<1>9. (Clearing => Clearing') /\ (Raising => Raising')
  <2>1. \A g \in Handlers : handler[g].says # "nothing" => handler'[g] = handler[g]
    BY <1>5, <1>8
  <2>2. QED  BY <2>1 DEF Clearing, Raising
<1>10. Heard'
  <2>1. RaisesWell(h)'
    <3>1. Rowless(c) => end["main"] = "none"  BY <1>3, <1>7 DEF Tidy, Rowless
    <3>2. QED  BY <1>2, <1>4, <1>5, <1>7, <3>1 DEF RaisesWell, Begins
  <2>2. EndsWell(h)'  BY <1>4, <1>5, <1>6, <1>7 DEF EndsWell, Begins
  <2>3. Voice(Setting', handler'[h].says, handler'[h].plan)  BY <1>4, <1>5, <1>6 DEF Begins
  <2>4. ASSUME NEW g \in Handlers, g # h
        PROVE  Voice(Setting', handler'[g].says, handler'[g].plan) /\ RaisesWell(g)' /\ EndsWell(g)'
    <3>1. handler'[g] = handler[g] /\ Voice(c, handler[g].says, handler[g].plan) /\ RaisesWell(g) /\ EndsWell(g)
      BY <1>3, <1>5, <2>4 DEF Heard, c
    <3>2. QED  BY <1>2, <1>6, <1>9, <3>1 DEF RaisesWell, EndsWell, c
  <2>5. QED  BY <2>1, <2>2, <2>3, <2>4 DEF Heard
<1>11. OneVoice'
  <2>1. \A g \in Busy' : g = h \/ (g \in Busy /\ handler'[g] = handler[g])  BY <1>5 DEF Busy
  <2>2. \A g \in Busy' : handler'[g].says = webhook.says  BY <1>1, <1>5, <2>1
  <2>3. QED  BY <2>2 DEF OneVoice
<1>12. Typed'  BY <1>2, <1>3, <1>5 DEF Typed
<1>13. Tidy'  BY <1>2, <1>3, <1>6 DEF Tidy, c
<1>14. TakenBack'  BY <1>2, <1>3, <1>9 DEF TakenBack
<1>15. QED  BY <1>10, <1>11, <1>12, <1>13, <1>14 DEF Alarms

\* An alert that is about to be sent is past its look-up.
LEMMA SendersAreLate ==
  ASSUME NEW c, NEW p, RaisePlan(c, p), Has(p, {"send"})
  PROVE  ~Has(p, {"stop"}) /\ Has(p, {"get", "set", "send"})
<1>1. ~LooksUp(c, p)  BY LookUpHas
<1>2. ~Books(c, p)  BY BooksHas
<1>3. ~AsksFirst(c, p)
  <2> SUFFICES ASSUME AsksFirst(c, p) PROVE FALSE  OBVIOUS
  <2>1. Of(p) = {p[1]} /\ p[1].do = "ifPending"  BY Few DEF AsksFirst
  <2>2. QED  BY <2>1 DEF Has
<1>4. Tells(c, p)  BY <1>1, <1>2, <1>3 DEF RaisePlan
<1>5. QED  BY <1>4 DEF Tells, TellCall, Has

\* The Ender deletes the row of an end that is under way.
LEMMA EnderKeeps ==
  ASSUME Alarms,
         UNCHANGED <<provider, urls, handler, repeats, note, last>>,
         row' \in [Keys -> BOOLEAN], card' \in [Keys -> {"none", "ongoing", "ended"}],
         end' \in [Keys -> {"none", "phase1", "phase2", "running"}],
         callback' \in [Keys -> {"none", "ended", "row"}],
         end["main"] = "none" => end'["main"] = "none",
         card["main"] # "none" => card'["main"] # "none",
         row'["main"] = row["main"] \/ (end["main"] # "none" /\ ~row'["main"]),
         callback'["main"] # "none" => end'["main"] = "running"
  PROVE  Alarms'
<1>1. Typed /\ Heard /\ OneVoice /\ Tidy /\ TakenBack  BY DEF Alarms
<1>2. Setting' = Setting /\ (AllActivity' <=> AllActivity) /\ (Notifies' <=> Notifies)
  BY DEF Setting, AllActivity, Notifies
<1>3. (Clearing' <=> Clearing) /\ (Raising' <=> Raising) /\ OneVoice'
  BY <1>1 DEF Clearing, Raising, OneVoice, Busy
<1>4. ASSUME NEW g \in Handlers PROVE RaisesWell(g)'
  <2> DEFINE p == handler[g].plan
  <2> SUFFICES ASSUME handler[g].says \in {"alert", "unsure"}
               PROVE  /\ Has(p, {"get", "set", "send"}) /\ ~Has(p, {"stop"}) => end'["main"] = "none"
                      /\ Has(p, {"send"}) /\ ~Has(p, {"set"}) => row'["main"] \/ provider = "alert"
                      /\ Undoes(p) /\ ~Has(p, {"create"}) => card'["main"] # "none"
    BY DEF RaisesWell
  <2>1. RaisesWell(g) /\ Voice(Setting, handler[g].says, p)  BY <1>1 DEF Heard
  <2>2. RaisePlan(Setting, p)  BY <2>1 DEF Voice
  <2>3. Has(p, {"send"}) => end["main"] = "none"
    BY <2>1, <2>2, SendersAreLate DEF RaisesWell
  <2>4. QED  BY <2>1, <2>3 DEF RaisesWell
<1>5. \A g \in Handlers : EndsWell(g)'
  BY <1>1, <1>2, <1>3 DEF Heard, EndsWell
<1>6. Heard'  BY <1>1, <1>2, <1>4, <1>5 DEF Heard
<1>7. Typed'  BY <1>1 DEF Typed
<1>8. Tidy'  BY <1>1, <1>2 DEF Tidy
<1>9. TakenBack'  BY <1>1, <1>3 DEF TakenBack
<1>10. QED  BY <1>3, <1>6, <1>7, <1>8, <1>9 DEF Alarms

\* The two phases of an end, and its running callback.
LEMMA EnderStepKeeps ==
  ASSUME Alarms, Untroubled', NEW k \in Keys, EnderStep(k)
  PROVE  Alarms'
<1>1. Typed /\ Tidy /\ "main" \in Keys  BY KeysNamed DEF Alarms
<1>2. \A kind : ~Fault(kind)  BY NoFault DEF Untroubled
<1>3. CASE Phase1(k)
  <2>1. /\ end[k] = "phase1" /\ end' = [end EXCEPT ![k] = "phase2"]
        /\ UNCHANGED <<provider, urls, handler, row, callback, card, repeats, note, last>>
    BY <1>3 DEF Phase1, config, server, ghosts
  <2>2. QED  BY <1>1, <2>1, EnderKeeps DEF Typed, Tidy
<1>4. CASE FirePhase2(k)
  <2>1. /\ end[k] = "phase2" /\ end' = [end EXCEPT ![k] = "running"]
        /\ callback' = [callback EXCEPT ![k] = "ended"]
        /\ UNCHANGED <<provider, urls, handler, row, card, repeats, note, last>>
    BY <1>4 DEF FirePhase2, config, server, ghosts
  <2>2. QED  BY <1>1, <2>1, EnderKeeps DEF Typed, Tidy
<1>5. CASE SendEnded(k)
  <2>1. /\ card' = [card EXCEPT ![k] = IF @ = "none" THEN @ ELSE "ended"]
        /\ callback[k] = "ended" /\ callback' = [callback EXCEPT ![k] = "row"]
        /\ UNCHANGED <<provider, urls, handler, row, end, repeats, note, last>>
    BY <1>2, <1>5 DEF SendEnded, config
  <2>2. QED  BY <1>1, <2>1, EnderKeeps DEF Typed, Tidy
<1>6. CASE DeleteRow(k)
  <2>1. /\ callback[k] = "row" /\ row' = [row EXCEPT ![k] = FALSE]
        /\ callback' = [callback EXCEPT ![k] = "none"]
        /\ end' = [end EXCEPT ![k] = IF @ = "running" THEN "none" ELSE @]
        /\ UNCHANGED <<provider, urls, handler, card, repeats, note, last>>
    BY <1>2, <1>6 DEF DeleteRow, config, server
  <2>2. QED  BY <1>1, <2>1, EnderKeeps DEF Typed, Tidy
<1>7. QED  BY <1>3, <1>4, <1>5, <1>6 DEF EnderStep

---------------------------------------------------------------------------
(* The theorem.                                                            *)

AInv == urls \in UrlSets /\ (Untroubled => Alarms)

\* Every call of a handler either works or is a fault.
LEMMA WorkKeeps ==
  ASSUME Alarms, Untroubled', NEW h \in Handlers, Work(h)
  PROVE  Alarms'
BY StopKeeps, ScheduleKeeps, EndTrackedKeeps, AskPendingKeeps, ReadKeeps, WriteKeeps, CreateKeeps,
   UpdateKeeps, NotifyKeeps, SendKeeps, CancelKeeps, TakeBackKeeps, RespondKeeps DEF Work

\* What has gone wrong stays so, and the service is as it is.
LEMMA TroubleStays ==
  ASSUME [Next]_vars
  PROVE  UNCHANGED <<provider, urls>> /\ (hurt' = {} => hurt = {}) /\ (~raced' => ~raced)
<1>1. \A kind : Fault(kind) => hurt' # {}  BY DEF Fault
<1>2. ASSUME NEW h \in Handlers, Deliver(h) \/ Work(h)
      PROVE  UNCHANGED <<provider, urls>> /\ (hurt' = {} => hurt = {}) /\ (~raced' => ~raced)
  <2>1. CASE Deliver(h) \/ AskPending(h)  BY <2>1 DEF Deliver, AskPending, ghosts, config
  <2>2. CASE Stop(h) \/ Schedule(h)  BY <2>2 DEF Stop, Schedule, config
  <2>10. CASE Respond(h)  BY <2>10 DEF Respond, config
  <2>3. CASE EndTracked(h)
    <3>1. \/ hurt' = hurt /\ raced' = (raced \/ (end[Call(h).key] = "none" /\ callback[Call(h).key] # "none"))
          \/ hurt' = hurt /\ raced' = raced
          \/ hurt' # {} /\ raced' = raced
      BY <1>1, <2>3, Zenon DEF EndTracked, Fails
    <3>2. (hurt' = {} => hurt = {}) /\ (~raced' => ~raced)
      <4>1. CASE hurt' = hurt /\ raced' = (raced \/ (end[Call(h).key] = "none" /\ callback[Call(h).key] # "none"))
        BY <4>1
      <4>2. CASE raced' = raced /\ (hurt' = hurt \/ hurt' # {})
        BY <4>2
      <4>3. QED  BY <3>1, <4>1, <4>2, Zenon
    <3>3. QED  BY <2>3, <3>2 DEF EndTracked, config
  <2>4. CASE Read(h) \/ Write(h)  BY <1>1, <2>4 DEF Read, Write, Fails, config
  <2>5. CASE CreateActivity(h)  BY <1>1, <2>5 DEF CreateActivity, Fails, config
  <2>6. CASE UpdateActivity(h)  BY <1>1, <2>6 DEF UpdateActivity, Fails, config
  <2>7. CASE Notify(h) \/ Send1(h)  BY <1>1, <2>7 DEF Notify, Send1, Fails, config
  <2>8. CASE CancelRepeats(h) \/ TakeBack(h)  BY <1>1, <2>8 DEF CancelRepeats, TakeBack, Fails, config
  <2>9. QED  BY <1>2, <2>1, <2>2, <2>3, <2>4, <2>5, <2>6, <2>7, <2>8, <2>10 DEF Work
<1>3. ASSUME NEW k \in Keys, EnderStep(k)
      PROVE  UNCHANGED <<provider, urls>> /\ (hurt' = {} => hurt = {}) /\ (~raced' => ~raced)
  BY <1>1, <1>3 DEF config, EnderStep, Phase1, FirePhase2, SendEnded, DeleteRow, ghosts
<1>4. CASE Crash  BY <1>1, <1>4 DEF Crash, config
<1>5. CASE UNCHANGED vars  BY <1>5 DEF vars, config, ghosts
<1>6. QED  BY <1>2, <1>3, <1>4, <1>5 DEF Next

LEMMA StartsWell == ASSUME Init PROVE AInv
<1>1. /\ handler = [h \in Handlers |-> Idle] /\ urls \in UrlSets
      /\ row = [k \in Keys |-> FALSE] /\ end = [k \in Keys |-> "none"]
      /\ callback = [k \in Keys |-> "none"] /\ card = [k \in Keys |-> "none"]
      /\ repeats = FALSE /\ note = "none" /\ last = "nothing"
  BY DEF Init
<1>2. \A h \in Handlers : handler[h] = Idle /\ handler[h].says = "nothing" /\ handler[h].plan = <<>>
  BY <1>1 DEF Idle
<1>3. Typed
  <2>1. handler = [h \in Handlers |-> [says |-> handler[h].says, plan |-> handler[h].plan]]
    BY <1>1 DEF Idle
  <2>2. QED  BY <1>1, <2>1 DEF Typed
<1>4. \A c : Voice(c, "nothing", <<>>)  BY Concrete DEF Voice, AsidePlan
<1>5. Heard  BY <1>2, <1>4 DEF Heard, RaisesWell, EndsWell
<1>6. OneVoice  BY <1>2 DEF OneVoice, Busy
<1>7. Tidy /\ TakenBack  BY <1>1, KeysNamed DEF Tidy, TakenBack
<1>8. QED  BY <1>1, <1>3, <1>5, <1>6, <1>7 DEF AInv, Alarms

LEMMA StepsWell ==
  ASSUME SameChannels, AInv, [Next]_vars
  PROVE  AInv'
<1>1. UNCHANGED <<provider, urls>> /\ (hurt' = {} => hurt = {}) /\ (~raced' => ~raced)
  BY TroubleStays
<1>2. SUFFICES ASSUME Untroubled' PROVE Alarms'
  BY <1>1 DEF AInv
<1>3. Untroubled /\ Alarms /\ urls \in UrlSets
  BY <1>1, <1>2 DEF AInv, Untroubled, AskingUrls
<1>4. ASSUME NEW h \in Handlers, Deliver(h) PROVE Alarms'  BY <1>3, <1>4, DeliverKeeps
<1>5. ASSUME NEW h \in Handlers, Work(h) PROVE Alarms'  BY <1>2, <1>3, <1>5, WorkKeeps
<1>6. ASSUME NEW k \in Keys, EnderStep(k) PROVE Alarms'  BY <1>2, <1>3, <1>6, EnderStepKeeps
<1>7. ~Crash  BY <1>2, NoFault DEF Crash, Untroubled
<1>8. CASE UNCHANGED vars
  <2>1. UNCHANGED <<provider, urls, handler, row, end, callback, card, repeats, note, last>>
    BY <1>8 DEF vars, config, ends, server, ghosts
  <2>2. QED  BY <1>3, <2>1, EnderKeeps DEF Alarms, Typed, Tidy
<1>9. QED  BY <1>4, <1>5, <1>6, <1>7, <1>8 DEF Next

\* After a resolve that nothing went wrong with, no phone still shows the
\* alert as open and none repeats it: for every number of handlers, webhooks
\* and deliveries of a service whose URLs agree on their channels (Relay's
\* AlarmStops).
THEOREM AlarmsStop ==
  ASSUME SameChannels
  PROVE  Spec => []AlarmStops
<1>1. Init => AInv  BY StartsWell
<1>2. AInv /\ [Next]_vars => AInv'  BY StepsWell
<1>3. AInv => AlarmStops
  <2> SUFFICES ASSUME AInv, Quiet, Untroubled, last = "off" PROVE note # "alert" /\ ~repeats
    BY DEF AlarmStops, Untroubled, AskingUrls
  <2>1. \A h \in Handlers : handler[h].says = "nothing" /\ handler[h].plan = <<>>
    BY DEF Quiet, Busy, Idle
  <2>2. ~Clearing /\ ~Raising  BY <2>1 DEF Clearing, Raising
  <2>3. QED  BY <2>2 DEF AInv, Alarms, TakenBack
<1>4. QED  BY <1>1, <1>2, <1>3, PTL DEF Spec

---------------------------------------------------------------------------
(* The card.  How far a handler has come with the activity "main" is its   *)
(* stage; what it knows of the row, the end and the card follows from it.  *)
(*   free      it may leave the card as it is;                             *)
(*   seen      it found the row, and has not stopped the end;              *)
(*   fresh     it is to show the card, and may only refuse;                *)
(*   clear     no end is under way; kept: and the row is there;            *)
(*   up        the card is, the row not yet; shown: both are;              *)
(*   over      it ends the card if it is there; closing: it has shown the  *)
(*             card, or stopped its end, and will end it;                  *)
(*   aside     the card is none of its business;                           *)
(*   any       after a fault that the service need not survive.            *)

Stages == {"any", "aside", "free", "seen", "fresh", "clear", "kept", "up", "shown", "over", "closing"}

\* Without a roll-back, and with none the ends of which would take over.
Firm == Alerting \union {"proxmox"}

Acting == {"stop", "end", "set", "delete", "create", "update", "push", "send", "cancel"}
CanFail == {"endIfTracked", "get", "set", "delete", "create", "update", "push", "send", "cancel", "retract"}

Legible(x) ==
  /\ x.do = "update" => x.state \in {"ongoing", "ended"}
  /\ x.do \in {"push", "send"} => x.note \in {"notice", "alert", "resolved"}

\* A call that does nothing to the activity "main".
Incidental(x) == x.do \in {"push", "send", "cancel"} \/ x.key # "main"

\* The stage t after a call x that acts on "main".
Stopped(c, s, t) ==
  \/ c.service = "starr notifying" /\ s \in {"free", "over"} /\ t = s
  \/ /\ c.service # "starr notifying"
     /\ \/ s = "fresh" /\ t = "clear"
        \/ s = "free" /\ t = "clear" /\ c.service # "starr"
        \/ s = "seen" /\ t = "free"
        \/ s = "over" /\ t = "closing" /\ c.service \notin Firm
Written1(s, t) ==
  \/ s \in {"clear", "kept"} /\ t = "kept"
  \/ s \in {"up", "shown"} /\ t = "shown"
  \/ s = "closing" /\ t = s
Created(c, s, t) ==
  \/ s = "clear" /\ t = "up" /\ c.service \notin Alerting \union {"starr"}
  \/ s = "kept" /\ t = "shown"
  \/ s \in {"over", "closing"} /\ t = "closing" /\ c.service \notin Firm
  \/ s \in {"free", "fresh"} /\ t = "up" /\ c.service = "backrest"
Updated(c, s, t) ==
  \/ s = "kept" /\ t = "shown"
  \/ s = "up" /\ t = s /\ c.service # "proxmox"
  \/ s \in {"shown", "closing"} /\ t = s
  \/ s = "free" /\ t = s /\ c.service = "starr"
Acted(c, x, s, t) ==
  \/ x.do = "stop" /\ Stopped(c, s, t)
  \/ /\ c.service # "starr notifying"
     /\ \/ x.do = "set" /\ Written1(s, t)
        \/ x.do = "create" /\ Created(c, s, t)
        \/ x.do = "update" /\ x.state = "ongoing" /\ Updated(c, s, t)
        \/ x.do = "update" /\ x.state = "ended" /\ s = "closing" /\ t = "over"
        \/ x.do = "end" /\ s \in {"over", "closing"} /\ t = "over"
Leads(c, x, s, t) ==
  \/ s = "any" /\ t = s
  \/ Incidental(x) /\ t = s
  \/ ~Incidental(x) /\ Acted(c, x, s, t)

\* The stage after a look-up that found the row.
Finds(c, x, s, t) ==
  \/ t = s
  \/ x.key = "main" /\ s = "clear" /\ t = "kept"
  \/ x.key = "main" /\ s = "free" /\ t = "seen" /\ c.service = "starr"

\* The stage after a call that failed, or met no activity.
AfterFault(c, x, s) ==
  IF x.do \in {"get", "endIfTracked", "retract"} \/ (x.do = "update" /\ x.key # "main") THEN s
  ELSE IF x.do = "update" /\ s = "kept" THEN "fresh"
  ELSE IF x.do = "update" /\ s = "closing" THEN "over"
  ELSE IF x.do = "update" /\ s = "free" THEN "free"
  ELSE IF c.service # "proxmox" \/ x.do \notin {"create", "update", "push", "send", "cancel"} \/ s = "any" THEN "any"
  ELSE IF Incidental(x) THEN s ELSE "fresh"

MayAnswer(x, s) ==
  s \in {"any", "aside", "free", "over", "shown"} \/ (~x.ok /\ s \in {"fresh", "kept"})

Else(plan) == IF Head(plan).or = GoOn THEN {Tail(plan)} ELSE Head(plan).or

\* What is left of a plan once its first call is made is in F, at its stage.
Follows(c, F, s, plan) ==
  LET x == Head(plan)
  IN /\ Legible(x)
     /\ x.do \in Acting => \E t \in Stages : Leads(c, x, s, t) /\ Tail(plan) \in F[t]
     /\ x.do = "get" => x.absent \in F[s] /\ \E t \in Stages : Finds(c, x, s, t) /\ x.found \in F[t]
     /\ x.do = "ifPending" => x.pending \in F[s] /\ x.over \in F[s]
     /\ x.do = "endIfTracked" => s \in {"over", "any"} /\ x.found \in F[s] /\ x.absent \in F[s]
     /\ x.do = "retract" => x.gone \in F[s]
     /\ x.do = "answer" => MayAnswer(x, s)
     /\ x.do \in CanFail => Else(plan) \subseteq F[AfterFault(c, x, s)]
Closed(c, F) == \A s \in Stages : \A plan \in F[s] : plan # <<>> => Follows(c, F, s, plan)

\* The plans fit the stage: whatever their calls meet, what is left fits the
\* stage it is then in.
Fit(c, s, plans) == \E F : Closed(c, F) /\ plans \subseteq F[s]
Fits(c, s, plan) == Fit(c, s, {plan})

LEMMA AfterIsStage ==
  ASSUME NEW c, NEW x, NEW s \in Stages
  PROVE  AfterFault(c, x, s) \in Stages
BY DEF AfterFault, Stages

\* What closed sets have between them is closed.
LEMMA Together ==
  ASSUME NEW c, NEW F, NEW G, Closed(c, F), Closed(c, G)
  PROVE  LET H == [s \in Stages |-> F[s] \union G[s]]
         IN Closed(c, H) /\ \A s \in Stages : F[s] \subseteq H[s] /\ G[s] \subseteq H[s]
<1> DEFINE H == [s \in Stages |-> F[s] \union G[s]]
<1>1. \A s \in Stages : H[s] = F[s] \union G[s]  OBVIOUS
<1> HIDE DEF H
<1>2. ASSUME NEW E, \A s \in Stages : E[s] \subseteq H[s], NEW s \in Stages, NEW plan, Follows(c, E, s, plan)
      PROVE  Follows(c, H, s, plan)
  BY <1>2, AfterIsStage DEF Follows
<1>3. QED  BY <1>1, <1>2 DEF Closed, H

LEMMA FitsBoth ==
  ASSUME NEW c, NEW s \in Stages, NEW P, NEW Q, Fit(c, s, P), Fit(c, s, Q)
  PROVE  Fit(c, s, P \union Q)
<1>1. PICK F : Closed(c, F) /\ P \subseteq F[s]  BY DEF Fit
<1>2. PICK G : Closed(c, G) /\ Q \subseteq G[s]  BY DEF Fit
<1> DEFINE H == [t \in Stages |-> F[t] \union G[t]]
<1>3. Closed(c, H) /\ \A t \in Stages : F[t] \subseteq H[t] /\ G[t] \subseteq H[t]  BY <1>1, <1>2, Together
<1> HIDE DEF H
<1>4. QED  BY <1>1, <1>2, <1>3 DEF Fit

LEMMA FitsNone == \A c, s : Fit(c, s, {})
<1> TAKE c, s
<1> DEFINE F == [t \in Stages |-> {}]
<1>1. Closed(c, F)  BY DEF Closed
<1>2. QED  BY <1>1 DEF Fit

LEMMA FitsNothing == \A c : \A s \in Stages : Fits(c, s, <<>>)
<1> TAKE c
<1> TAKE s \in Stages
<1> DEFINE F == [t \in Stages |-> {<<>>}]
<1>1. \A t \in Stages : F[t] = {<<>>}  OBVIOUS
<1>2. Closed(c, F)  BY <1>1 DEF Closed
<1>3. QED  BY <1>1, <1>2 DEF Fit, Fits

LEMMA FitEach ==
  ASSUME NEW c, NEW s, NEW P, Fit(c, s, P)
  PROVE  \A plan \in P : Fits(c, s, plan)
BY DEF Fit, Fits

\* What fits a stage of one setting fits "any" of every other.
LEMMA FitsAny ==
  ASSUME NEW b, NEW c, NEW s \in Stages, NEW P, Fit(b, s, P)
  PROVE  Fit(c, "any", P)
<1>1. PICK F : Closed(b, F) /\ P \subseteq F[s]  BY DEF Fit
<1> DEFINE G == [t \in Stages |-> IF t = "any" THEN UNION {F[r] : r \in Stages} ELSE {}]
<1>2. "any" \in Stages /\ G["any"] = UNION {F[r] : r \in Stages} /\ \A t \in Stages : t # "any" => G[t] = {}
  BY DEF Stages
<1> HIDE DEF G
<1>3. \A r \in Stages : F[r] \subseteq G["any"]  BY <1>2
<1>4. ASSUME NEW plan \in G["any"], plan # <<>> PROVE Follows(c, G, "any", plan)
  <2>1. PICK r \in Stages : plan \in F[r]  BY <1>2
  <2>2. Follows(b, F, r, plan)  BY <1>1, <1>4, <2>1 DEF Closed
  <2> DEFINE x == Head(plan)
  <2>3. AfterFault(c, x, "any") = "any"  BY DEF AfterFault
  <2>4. \A t : Leads(c, x, "any", "any") /\ Finds(c, x, "any", "any") /\ MayAnswer(x, "any")
    BY DEF Leads, Finds, MayAnswer
  <2>5. AfterFault(b, x, r) \in Stages  BY AfterIsStage
  <2> HIDE DEF x
  <2>6. /\ x.do \in Acting => Tail(plan) \in G["any"]
        /\ x.do \in CanFail => Else(plan) \subseteq G["any"]
        /\ x.do = "get" => x.absent \in G["any"] /\ x.found \in G["any"]
        /\ x.do = "ifPending" => x.pending \in G["any"] /\ x.over \in G["any"]
        /\ x.do = "endIfTracked" => x.found \in G["any"] /\ x.absent \in G["any"]
        /\ x.do = "retract" => x.gone \in G["any"]
    BY <1>3, <2>1, <2>2, <2>5 DEF Follows, x
  <2>7. Legible(x)  BY <2>2 DEF Follows, x
  <2>8. QED  BY <1>2, <2>3, <2>4, <2>6, <2>7 DEF Follows, x
<1>5. Closed(c, G)  BY <1>2, <1>4 DEF Closed
<1>6. P \subseteq G["any"]  BY <1>1, <1>3
<1>7. QED  BY <1>5, <1>6 DEF Fit
\* What is known of a plan from its stage.
LEMMA Unfold ==
  ASSUME NEW c, NEW s \in Stages, NEW p, Fits(c, s, p), p # <<>>, NEW x, x = Head(p)
  PROVE  /\ Legible(x)
         /\ x.do \in Acting => \E t \in Stages : Leads(c, x, s, t) /\ Fits(c, t, Tail(p))
         /\ x.do = "get" => Fits(c, s, x.absent) /\ \E t \in Stages : Finds(c, x, s, t) /\ Fits(c, t, x.found)
         /\ x.do = "ifPending" => Fits(c, s, x.pending) /\ Fits(c, s, x.over)
         /\ x.do = "endIfTracked" => s \in {"over", "any"} /\ Fits(c, s, x.found) /\ Fits(c, s, x.absent)
         /\ x.do = "retract" => Fits(c, s, x.gone)
         /\ x.do = "answer" => MayAnswer(x, s)
         /\ x.do \in CanFail => \A r \in Else(p) : Fits(c, AfterFault(c, x, s), r)
<1>1. PICK F : Closed(c, F) /\ p \in F[s]  BY DEF Fit, Fits
<1>2. Follows(c, F, s, p)  BY <1>1 DEF Closed
<1>3. \A t, r : r \in F[t] => Fits(c, t, r)  BY <1>1 DEF Fit, Fits
<1> HIDE DEF Fits
<1>4. QED  BY <1>2, <1>3 DEF Follows

---------------------------------------------------------------------------
(* How the plans of the webhooks are shown to fit, from the last call on.  *)

Listed(plan) == \E calls : plan \in Seq(calls)
Built(c, s, plan) == Listed(plan) /\ Fits(c, s, plan)

LEMMA BuiltAny == ASSUME NEW b, NEW c, NEW s \in Stages, NEW p, Built(b, s, p) PROVE Built(c, "any", p)
BY FitsAny DEF Built, Fits

LEMMA Solo == \A x : Listed(<<x>>) /\ <<x>> # <<>> /\ Head(<<x>>) = x
<1> TAKE x
<1>1. <<x>> \in Seq({x}) /\ Len(<<x>>) = 1 /\ <<x>>[1] = x  OBVIOUS
<1> DEFINE a == <<x>>
<1>2. a \in Seq({x}) /\ Len(a) = 1 /\ a[1] = x  BY <1>1
<1> HIDE DEF a
<1>3. Listed(a) /\ a # <<>> /\ Head(a) = x  BY <1>2 DEF Listed
<1>4. QED  BY <1>3 DEF a

LEMMA OneMore ==
  ASSUME NEW x, NEW q, Listed(q)
  PROVE  Listed(<<x>> \o q) /\ <<x>> \o q # <<>> /\ Head(<<x>> \o q) = x /\ Tail(<<x>> \o q) = q
<1> DEFINE a == <<x>>  p == a \o q
<1>1. PICK A : q \in Seq(A)  BY DEF Listed
<1> DEFINE B == A \union {x}
<1>2. a \in Seq(B) /\ Len(a) = 1 /\ a[1] = x  OBVIOUS
<1>3. q \in Seq(B) /\ Len(q) \in Nat
  <2>1. q \in Seq(B)  BY <1>1, SeqMonotonic
  <2>2. QED  BY <2>1, LenProperties
<1> HIDE DEF a, B
<1>4. /\ p \in Seq(B) /\ Len(p) = 1 + Len(q)
      /\ \A i \in 1..(1 + Len(q)) : p[i] = IF i <= 1 THEN a[i] ELSE q[i - 1]
  <2>1. /\ a \o q \in Seq(B) /\ Len(a \o q) = Len(a) + Len(q)
        /\ \A i \in 1..(Len(a) + Len(q)) : (a \o q)[i] = IF i <= Len(a) THEN a[i] ELSE q[i - Len(a)]
    BY <1>2, <1>3, ConcatProperties
  <2>2. QED  BY <1>2, <2>1
<1>5. p[1] = x  BY <1>2, <1>3, <1>4
<1>6. \A i \in 1..Len(q) : p[i + 1] = q[i]
  <2> TAKE i \in 1..Len(q)
  <2>1. i + 1 \in 1..(1 + Len(q)) /\ ~(i + 1 =< 1) /\ (i + 1) - 1 = i  BY <1>3
  <2>2. QED  BY <1>4, <2>1
<1> HIDE DEF p
<1>7. p # <<>>
  <2>1. Len(p) # 0  BY <1>3, <1>4
  <2>2. QED  BY <2>1
<1>8. Head(p) = p[1]  BY <1>7
<1>9. /\ Tail(p) \in Seq(B) /\ Len(Tail(p)) = Len(p) - 1
      /\ \A i \in 1..Len(Tail(p)) : Tail(p)[i] = p[i + 1]
  BY <1>4, <1>7, HeadTailProperties
<1>10. Len(Tail(p)) = Len(q)  BY <1>3, <1>4, <1>9
<1>11. Tail(p) = q
  <2>1. \A i \in 1..Len(Tail(p)) : Tail(p)[i] = q[i]  BY <1>6, <1>9, <1>10
  <2>2. QED  BY <1>3, <1>9, <1>10, <2>1, SeqEqual
<1>12. QED  BY <1>4, <1>5, <1>7, <1>8, <1>11 DEF Listed, p, a

\* A plan fits where its first call leads to what fits.
LEMMA Joins ==
  ASSUME NEW c, NEW s \in Stages, NEW p, NEW G, Closed(c, G), p # <<>>, Follows(c, G, s, p)
  PROVE  Fits(c, s, p)
<1> DEFINE H == [t \in Stages |-> IF t = s THEN G[t] \union {p} ELSE G[t]]
<1>1. \A t \in Stages : G[t] \subseteq H[t] /\ (t = s => p \in H[t]) /\ \A q \in H[t] : q \in G[t] \/ (t = s /\ q = p)
  OBVIOUS
<1> HIDE DEF H
<1>2. ASSUME NEW t \in Stages, NEW plan, Follows(c, G, t, plan)
      PROVE  Follows(c, H, t, plan)
  BY <1>1, <1>2, AfterIsStage DEF Follows
<1>3. Closed(c, H)  BY <1>1, <1>2 DEF Closed
<1>4. QED  BY <1>1, <1>3 DEF Fits, Fit

LEMMA Cons ==
  ASSUME NEW c, NEW s \in Stages, NEW t \in Stages, NEW x, NEW q, Built(c, t, q),
         x.do \in Acting, Legible(x), Leads(c, x, s, t),
         x.do \in CanFail =>
           IF x.or = GoOn THEN Fits(c, AfterFault(c, x, s), q) ELSE Fit(c, AfterFault(c, x, s), x.or)
  PROVE  Built(c, s, <<x>> \o q)
<1> DEFINE p == <<x>> \o q
<1>1. Listed(p) /\ p # <<>> /\ Head(p) = x /\ Tail(p) = q  BY OneMore DEF Built
<1> HIDE DEF p
<1>2. PICK F : Closed(c, F) /\ q \in F[t]  BY DEF Built, Fits, Fit
<1>3. PICK G : Closed(c, G) /\ (x.do \in CanFail => Else(p) \subseteq G[AfterFault(c, x, s)])
  <2>1. CASE x.do \in CanFail  BY <1>1, <2>1 DEF Fits, Fit, Else
  <2>2. CASE x.do \notin CanFail  BY <1>2, <2>2
  <2>3. QED  BY <2>1, <2>2
<1> DEFINE H == [r \in Stages |-> F[r] \union G[r]]
<1>4. Closed(c, H) /\ \A r \in Stages : F[r] \subseteq H[r] /\ G[r] \subseteq H[r]  BY <1>2, <1>3, Together
<1> HIDE DEF H
<1>5. x.do \notin {"get", "ifPending", "endIfTracked", "retract", "answer"}  BY DEF Acting
<1>6. Follows(c, H, s, p)  BY <1>1, <1>2, <1>3, <1>4, <1>5, AfterIsStage DEF Follows
<1>7. QED  BY <1>1, <1>4, <1>6, Joins DEF Built, p

\* A look-up, with what it leads to.
LEMMA LooksFit ==
  ASSUME NEW c, NEW s \in Stages, NEW t \in Stages, NEW x, Finds(c, x, s, t), x.do \notin Acting,
         x.do \in {"get", "endIfTracked"} => Fits(c, t, x.found) /\ Fits(c, s, x.absent),
         x.do = "endIfTracked" => s \in {"over", "any"} /\ s = t,
         x.do = "ifPending" => Fits(c, s, x.pending) /\ Fits(c, s, x.over),
         x.do = "retract" => Fits(c, s, x.gone), x.do \in CanFail => x.or # GoOn /\ Fit(c, s, x.or),
         x.do # "answer"
  PROVE  Built(c, s, <<x>>)
<1> DEFINE p == <<x>>
<1>1. Listed(p) /\ p # <<>> /\ Head(p) = x  BY Solo
<1> HIDE DEF p
<1>2. \E F, G : Closed(c, F) /\ Closed(c, G)
        /\ (x.do \in {"get", "endIfTracked"} => x.found \in F[t] /\ x.absent \in G[s])
        /\ (x.do = "ifPending" => x.pending \in F[s] /\ x.over \in G[s])
        /\ (x.do = "retract" => x.gone \in F[s])
  <2>1. CASE x.do \in {"get", "endIfTracked"}  BY <2>1 DEF Fits, Fit
  <2>2. CASE x.do = "ifPending"  BY <2>2 DEF Fits, Fit
  <2>3. CASE x.do = "retract"  BY <2>3 DEF Fits, Fit
  <2>4. CASE x.do \notin {"get", "endIfTracked", "ifPending", "retract"}  BY <2>4, FitsNone DEF Fit
  <2>5. QED  BY <2>1, <2>2, <2>3, <2>4
<1>3. PICK F, G : Closed(c, F) /\ Closed(c, G)
        /\ (x.do \in {"get", "endIfTracked"} => x.found \in F[t] /\ x.absent \in G[s])
        /\ (x.do = "ifPending" => x.pending \in F[s] /\ x.over \in G[s])
        /\ (x.do = "retract" => x.gone \in F[s])
  BY <1>2
<1>4. PICK E : Closed(c, E) /\ (x.do \in CanFail => x.or \subseteq E[s])
  <2>1. CASE x.do \in CanFail  BY <2>1 DEF Fit
  <2>2. CASE x.do \notin CanFail  BY <1>3, <2>2
  <2>3. QED  BY <2>1, <2>2
<1> DEFINE H == [r \in Stages |-> F[r] \union G[r]]  K == [r \in Stages |-> H[r] \union E[r]]
<1>5. Closed(c, H) /\ \A r \in Stages : F[r] \subseteq H[r] /\ G[r] \subseteq H[r]  BY <1>3, Together
<1> HIDE DEF H
<1>6. Closed(c, K) /\ \A r \in Stages : H[r] \subseteq K[r] /\ E[r] \subseteq K[r]  BY <1>4, <1>5, Together
<1> HIDE DEF K
<1>7. \A r \in Stages : F[r] \subseteq K[r] /\ G[r] \subseteq K[r] /\ E[r] \subseteq K[r]  BY <1>5, <1>6
<1>8. x.do \in CanFail => x.do \in {"get", "endIfTracked", "retract"}  BY DEF CanFail, Acting
<1>9. x.do \in CanFail => AfterFault(c, x, s) = s /\ Else(p) = x.or  BY <1>1, <1>8 DEF AfterFault, Else
<1>10. Legible(x)  BY DEF Legible, Acting
<1>11. Follows(c, K, s, p)  BY <1>1, <1>3, <1>4, <1>7, <1>9, <1>10 DEF Follows, Acting
<1>12. QED  BY <1>1, <1>6, <1>11, Joins DEF Built, p
\* Sequences in a row.
LEMMA Assoc ==
  ASSUME NEW p, NEW q, NEW r, Listed(p), Listed(q), Listed(r)
  PROVE  (p \o q) \o r = p \o (q \o r) /\ Listed(p \o q) /\ <<>> \o q = q
<1>1. PICK A, B, C : p \in Seq(A) /\ q \in Seq(B) /\ r \in Seq(C)  BY DEF Listed
<1> DEFINE D == A \union B \union C
<1>2. p \in Seq(D) /\ q \in Seq(D) /\ r \in Seq(D)
  <2>1. A \subseteq D /\ B \subseteq D /\ C \subseteq D  OBVIOUS
  <2> HIDE DEF D
  <2>2. QED  BY <1>1, <2>1, SeqMonotonic
<1> HIDE DEF D
<1>3. (p \o q) \o r = p \o (q \o r)  BY <1>2, ConcatAssociative
<1>4. p \o q \in Seq(D)  BY <1>2, ConcatProperties
<1>5. <<>> \o q = q  BY <1>2, ConcatEmptySeq
<1>6. QED  BY <1>3, <1>4, <1>5 DEF Listed

LEMMA Tuples ==
  /\ Listed(<<>>)
  /\ \A a, b : <<a, b>> = <<a>> \o <<b>> /\ Listed(<<a, b>>)
  /\ \A a, b, d : <<a, b, d>> = <<a>> \o <<b, d>> /\ Listed(<<a, b, d>>)
  /\ \A a, b, d, e : <<a, b, d, e>> = <<a>> \o <<b, d, e>> /\ Listed(<<a, b, d, e>>)
<1>1. Listed(<<>>)
  <2>1. <<>> \in Seq({})  OBVIOUS
  <2>2. QED  BY <2>1 DEF Listed
<1>2. ASSUME NEW a, NEW b PROVE <<a, b>> = <<a>> \o <<b>> /\ Listed(<<a, b>>)
  <2>1. <<a, b>> \in Seq({a, b})  OBVIOUS
  <2>2. Listed(<<a, b>>)  BY <2>1 DEF Listed
  <2> DEFINE S == {a, b}  p == <<a, b>>  h == <<a>>  q == <<b>>  r == h \o q
  <2>3. p \in Seq(S) /\ Len(p) = 2 /\ p[1] = a /\ p[2] = b  OBVIOUS
  <2>4. h \in Seq(S) /\ Len(h) = 1 /\ h[1] = a /\ q \in Seq(S) /\ Len(q) = 1 /\ q[1] = b  OBVIOUS
  <2> HIDE DEF p, h, q, S
  <2>5. /\ r \in Seq(S) /\ Len(r) = Len(h) + Len(q)
        /\ \A i \in 1..Len(h) + Len(q) : r[i] = IF i <= Len(h) THEN h[i] ELSE q[i - Len(h)]
    BY <2>4, ConcatProperties
  <2> HIDE DEF r
  <2>6. Len(r) = 2 /\ r[1] = a /\ r[2] = b  BY <2>4, <2>5
  <2>7. \A i \in 1..Len(r) : r[i] = p[i]
    <3>1. \A i \in 1..Len(r) : i = 1 \/ i = 2  BY <2>6
    <3>2. QED  BY <2>3, <2>6, <3>1
  <2>8. r = p  BY <2>3, <2>5, <2>6, <2>7, SeqEqual
  <2>9. QED  BY <2>2, <2>8 DEF r, p, h, q
<1>3. ASSUME NEW a, NEW b, NEW d PROVE <<a, b, d>> = <<a>> \o <<b, d>> /\ Listed(<<a, b, d>>)
  <2>1. <<a, b, d>> \in Seq({a, b, d})  OBVIOUS
  <2>2. Listed(<<a, b, d>>)  BY <2>1 DEF Listed
  <2>3. QED  BY <2>2
<1>4. ASSUME NEW a, NEW b, NEW d, NEW e PROVE <<a, b, d, e>> = <<a>> \o <<b, d, e>> /\ Listed(<<a, b, d, e>>)
  <2>1. <<a, b, d, e>> \in Seq({a, b, d, e})  OBVIOUS
  <2>2. Listed(<<a, b, d, e>>)  BY <2>1 DEF Listed
  <2>3. QED  BY <2>2
<1>5. QED  BY <1>1, <1>2, <1>3, <1>4

\* The first calls of a plan, one at a time.
LEMMA Peel ==
  ASSUME NEW q, Listed(q)
  PROVE  /\ \A a : Listed(<<a>> \o q)
         /\ \A a, b : <<a, b>> \o q = <<a>> \o (<<b>> \o q)
         /\ \A a, b, d : <<a, b, d>> \o q = <<a>> \o (<<b>> \o (<<d>> \o q))
         /\ \A a, b, d, e : <<a, b, d, e>> \o q = <<a>> \o (<<b>> \o (<<d>> \o (<<e>> \o q)))
         /\ \A condition, p : Listed(p) =>
              When(condition, p) \o q = (IF condition THEN p \o q ELSE q) /\ Listed(When(condition, p))
<1>0. \A a : Listed(<<a>>)  BY Solo
<1>1. \A a : Listed(<<a>> \o q)  BY <1>0, Assoc
<1>2. \A a, b : <<a, b>> \o q = <<a>> \o (<<b>> \o q)
  <2> TAKE a, b
  <2>1. <<a, b>> = <<a>> \o <<b>>  BY Tuples
  <2>2. QED  BY <1>0, <2>1, Assoc
<1>3. \A a, b, d : <<a, b, d>> \o q = <<a>> \o (<<b>> \o (<<d>> \o q))
  <2> TAKE a, b, d
  <2>1. <<a, b, d>> = <<a>> \o <<b, d>> /\ Listed(<<b, d>>)  BY Tuples
  <2>2. <<a, b, d>> \o q = <<a>> \o (<<b, d>> \o q)  BY <1>0, <2>1, Assoc
  <2>3. QED  BY <1>2, <2>2
<1>4. \A a, b, d, e : <<a, b, d, e>> \o q = <<a>> \o (<<b>> \o (<<d>> \o (<<e>> \o q)))
  <2> TAKE a, b, d, e
  <2>1. <<a, b, d, e>> = <<a>> \o <<b, d, e>> /\ Listed(<<b, d, e>>)  BY Tuples
  <2>2. <<a, b, d, e>> \o q = <<a>> \o (<<b, d, e>> \o q)  BY <1>0, <2>1, Assoc
  <2>3. QED  BY <1>3, <2>2
<1>5. \A condition, p : Listed(p) =>
        When(condition, p) \o q = (IF condition THEN p \o q ELSE q) /\ Listed(When(condition, p))
  BY Tuples, Assoc DEF When
<1>6. QED  BY <1>1, <1>2, <1>3, <1>4, <1>5

LEMMA AnswersFit ==
  ASSUME NEW c, NEW s \in Stages
  PROVE  /\ Listed(Done) /\ Listed(Refuse)
         /\ s \in {"any", "aside", "free", "over", "shown"} => Built(c, s, Done)
         /\ s \in {"any", "aside", "free", "over", "shown", "fresh", "kept"} => Built(c, s, Refuse) /\ Fit(c, s, Refused)
<1>1. ASSUME NEW ok, NEW r \in Stages, MayAnswer([do |-> "answer", ok |-> ok], r)
      PROVE  Built(c, r, Answer(ok))
  <2> DEFINE x == [do |-> "answer", ok |-> ok]  F == [t \in Stages |-> {}]  p == <<x>>
  <2>1. Listed(p) /\ p # <<>> /\ Head(p) = x  BY Solo
  <2>2. x.do = "answer" /\ MayAnswer(x, r) /\ Closed(c, F)  BY <1>1 DEF Closed
  <2> HIDE DEF p, x
  <2>3. Follows(c, F, r, p)  BY <2>1, <2>2 DEF Follows, Legible, Acting, CanFail
  <2>4. Built(c, r, p)  BY <2>1, <2>2, <2>3, Joins DEF Built
  <2>5. QED  BY <2>4 DEF Answer, p, x
<1>2. Listed(Done) /\ Listed(Refuse)  BY Solo DEF Done, Refuse, Answer
<1>3. s \in {"any", "aside", "free", "over", "shown"} => Built(c, s, Done)
  BY <1>1 DEF MayAnswer, Done
<1>4. s \in {"any", "aside", "free", "over", "shown", "fresh", "kept"} => Built(c, s, Refuse)
  BY <1>1 DEF MayAnswer, Refuse
<1>5. QED  BY <1>2, <1>3, <1>4 DEF Built, Fits, Refused
\* What each call carries for when it fails.
LEMMA OrFields ==
  /\ \A k, err : Set(k, err).or = err /\ Create(k, err).or = err
  /\ \A k : Delete(k).or = GoOn
  /\ \A k, found, absent, err : Get(k, found, absent, err).or = err
  /\ \A k, found, absent : EndIfTracked(k, found, absent).or = {absent}
  /\ \A text, err : Push(text, err).or = err
  /\ \A u, text, err : Send(u, text, err).or = err
  /\ Cancel.or = GoOn
BY DEF Set, Create, Delete, Get, EndIfTracked, Push, Send, Cancel

\* The calls on "main".
LEMMA StopFits ==
  ASSUME NEW c, NEW s \in Stages, NEW t \in Stages, NEW q, Built(c, t, q),
         Stopped(c, s, t) \/ (s = "any" /\ t = "any")
  PROVE  Built(c, s, <<StopTimer("main")>> \o q)
<1> DEFINE x == StopTimer("main")
<1>1. x.do = "stop" /\ x.key = "main"  BY Fields
<1> HIDE DEF x
<1>2. x.do \in Acting /\ x.do \notin CanFail /\ Legible(x)  BY <1>1 DEF Acting, CanFail, Legible
<1>3. Leads(c, x, s, t)  BY <1>1 DEF Leads, Acted, Incidental
<1>4. Built(c, s, <<x>> \o q)  BY <1>2, <1>3, Cons
<1>5. QED  BY <1>4 DEF x

LEMMA EndFits ==
  ASSUME NEW c, NEW s \in Stages, NEW t \in Stages, NEW q, Built(c, t, q),
         (s \in {"over", "closing"} /\ t = "over" /\ c.service # "starr notifying") \/ (s = "any" /\ t = "any")
  PROVE  Built(c, s, <<ScheduleEnd("main")>> \o q)
<1> DEFINE x == ScheduleEnd("main")
<1>1. x.do = "end" /\ x.key = "main"  BY Fields
<1> HIDE DEF x
<1>2. x.do \in Acting /\ x.do \notin CanFail /\ Legible(x)  BY <1>1 DEF Acting, CanFail, Legible
<1>3. Leads(c, x, s, t)  BY <1>1 DEF Leads, Acted, Incidental
<1>4. Built(c, s, <<x>> \o q)  BY <1>2, <1>3, Cons
<1>5. QED  BY <1>4 DEF x

LEMMA SetFits ==
  ASSUME NEW c, NEW s \in Stages, NEW t \in Stages, NEW q, Built(c, t, q), NEW err,
         err = GoOn \/ Fit(c, "any", err),
         (Written1(s, t) /\ c.service # "starr notifying") \/ (s = "any" /\ t = "any")
  PROVE  Built(c, s, <<Set("main", err)>> \o q)
<1> DEFINE x == Set("main", err)
<1>1. x.do = "set" /\ x.key = "main" /\ x.or = err  BY DEF Set
<1> HIDE DEF x
<1>2. x.do \in Acting /\ Legible(x)  BY <1>1 DEF Acting, Legible
<1>3. Leads(c, x, s, t)  BY <1>1 DEF Leads, Acted, Incidental
<1>4. AfterFault(c, x, s) = "any"  BY <1>1 DEF AfterFault
<1>5. Fits(c, "any", q)  BY BuiltAny DEF Built
<1>6. Built(c, s, <<x>> \o q)  BY <1>1, <1>2, <1>3, <1>4, <1>5, Cons
<1>7. QED  BY <1>6 DEF x

LEMMA CreateFits ==
  ASSUME NEW c, NEW s \in Stages, NEW t \in Stages, NEW q, Built(c, t, q), NEW err, err # GoOn,
         Fit(c, "any", err), c.service = "proxmox" => err = Refused,
         (Created(c, s, t) /\ c.service # "starr notifying") \/ (s = "any" /\ t = "any")
  PROVE  Built(c, s, <<Create("main", err)>> \o q)
<1> DEFINE x == Create("main", err)
<1>1. x.do = "create" /\ x.key = "main" /\ x.or = err  BY DEF Create
<1> HIDE DEF x
<1>2. x.do \in Acting /\ Legible(x)  BY <1>1 DEF Acting, Legible
<1>3. Leads(c, x, s, t)  BY <1>1 DEF Leads, Acted, Incidental
<1>4. AfterFault(c, x, s) = IF c.service # "proxmox" \/ s = "any" THEN "any" ELSE "fresh"
  BY <1>1 DEF AfterFault, Incidental
<1>5. c.service = "proxmox" => Fit(c, "fresh", err)
  <2>1. "fresh" \in Stages  BY DEF Stages
  <2>2. Fit(c, "fresh", Refused)  BY <2>1, AnswersFit
  <2>3. QED  BY <2>2
<1>6. Built(c, s, <<x>> \o q)  BY <1>1, <1>2, <1>3, <1>4, <1>5, Cons
<1>7. QED  BY <1>6 DEF x

LEMMA UpdateFits ==
  ASSUME NEW c, NEW s \in Stages, NEW t \in Stages, NEW q, Built(c, t, q), NEW err, err # GoOn,
         err = Refused \/ (s \in {"shown", "up", "any"} /\ Fit(c, "any", err) /\ c.service # "proxmox"),
         NEW state, state \in {"ongoing", "ended"},
         \/ state = "ongoing" /\ Updated(c, s, t) /\ c.service # "starr notifying"
         \/ state = "ended" /\ s = "closing" /\ t = "over" /\ c.service # "starr notifying"
         \/ s = "any" /\ t = "any"
  PROVE  Built(c, s, <<Update("main", state, err)>> \o q)
<1> DEFINE x == Update("main", state, err)
<1>1. x.do = "update" /\ x.key = "main" /\ x.or = err /\ x.state = state  BY DEF Update
<1> HIDE DEF x
<1>2. x.do \in Acting /\ Legible(x)  BY <1>1 DEF Acting, Legible
<1>3. Leads(c, x, s, t)  BY <1>1 DEF Leads, Acted, Incidental
<1>4. /\ AfterFault(c, x, s) \in {"fresh", "over", "free", "any"}
      /\ s \in {"shown", "up", "any"} /\ c.service # "proxmox" => AfterFault(c, x, s) = "any"
  BY <1>1 DEF AfterFault, Incidental
<1>5. Fit(c, AfterFault(c, x, s), err)
  <2>1. \A r \in {"fresh", "over", "free", "any"} : Fit(c, r, Refused)  BY AnswersFit DEF Stages
  <2>2. QED  BY <1>4, <2>1
<1>6. Built(c, s, <<x>> \o q)  BY <1>1, <1>2, <1>3, <1>5, Cons
<1>7. QED  BY <1>6 DEF x

LEMMA DeleteFits ==
  ASSUME NEW c, NEW q, Built(c, "any", q)
  PROVE  Built(c, "any", <<Delete("main")>> \o q)
<1> DEFINE x == Delete("main")
<1>1. x.do = "delete" /\ x.key = "main" /\ x.or = GoOn  BY Fields, OrFields
<1> HIDE DEF x
<1>2. x.do \in Acting /\ Legible(x) /\ "any" \in Stages  BY <1>1 DEF Acting, Legible, Stages
<1>3. Leads(c, x, "any", "any")  BY DEF Leads
<1>4. AfterFault(c, x, "any") = "any"  BY <1>1 DEF AfterFault
<1>6. Built(c, "any", <<x>> \o q)  BY <1>1, <1>2, <1>3, <1>4, Cons DEF Built
<1>7. QED  BY <1>6 DEF x

\* Calls that do nothing to "main", where a refusal may follow.
LEMMA TellFits ==
  ASSUME NEW c, NEW s \in Stages, NEW q, Built(c, s, q), NEW x, x.do \in {"push", "send", "cancel"},
         x.do # "cancel" => x.note \in {"notice", "alert", "resolved"},
         x.or = GoOn \/ (Fit(c, "any", x.or) /\ (c.service # "proxmox" \/ Fit(c, s, x.or)))
  PROVE  Built(c, s, <<x>> \o q)
<1>2. x.do \in Acting /\ Legible(x)  BY DEF Acting, Legible
<1>3. Leads(c, x, s, s)  BY DEF Leads, Incidental
<1>4. AfterFault(c, x, s) = IF c.service = "proxmox" THEN s ELSE "any"  BY DEF AfterFault, Incidental
<1>5. Fits(c, "any", q) /\ Fits(c, s, q)  BY BuiltAny DEF Built
<1>6. QED  BY <1>2, <1>3, <1>4, <1>5, Cons

LEMMA SideFits ==
  ASSUME NEW c, NEW s \in {"any", "aside", "over", "free"}, NEW q, Built(c, s, q), NEW x, x.key = "side",
         \/ x.do \in {"stop", "end"}
         \/ x.do \in {"set", "delete"} /\ x.or = GoOn
         \/ x.do = "create" /\ x.or = Refused
         \/ x.do = "update" /\ x.or = Refused /\ x.state = "ongoing"
  PROVE  Built(c, s, <<x>> \o q)
<1>1. s \in Stages  BY DEF Stages
<1>2. x.do \in Acting /\ Legible(x)  BY DEF Acting, Legible
<1>3. Leads(c, x, s, s)  BY DEF Leads, Incidental
<1>4. /\ x.do \in {"set", "delete"} => AfterFault(c, x, s) = "any"
      /\ x.do \in {"create", "update"} => AfterFault(c, x, s) \in {s, "any"}
  BY DEF AfterFault, Incidental
<1>5. Fits(c, "any", q)  BY <1>1, BuiltAny DEF Built
<1>6. Fit(c, s, Refused) /\ Fit(c, "any", Refused)  BY AnswersFit DEF Stages
<1>7. Refused # GoOn  BY DEF Refused, GoOn
<1>8. x.do \in CanFail => IF x.or = GoOn THEN Fits(c, AfterFault(c, x, s), q) ELSE Fit(c, AfterFault(c, x, s), x.or)
  BY <1>4, <1>5, <1>6, <1>7 DEF CanFail
<1>9. QED  BY <1>1, <1>2, <1>3, <1>8, Cons

\* The look-ups.
LEMMA GetFits ==
  ASSUME NEW c, NEW s \in Stages, NEW t \in Stages, NEW k, NEW found, NEW absent, NEW err,
         Built(c, t, found), Built(c, s, absent), Fit(c, s, err), err # GoOn,
         \/ t = s
         \/ k = "main" /\ s = "clear" /\ t = "kept"
         \/ k = "main" /\ s = "free" /\ t = "seen" /\ c.service = "starr"
  PROVE  Built(c, s, <<Get(k, found, absent, err)>>)
<1> DEFINE x == Get(k, found, absent, err)
<1>1. x.do = "get" /\ x.key = k /\ x.or = err /\ x.found = found /\ x.absent = absent
  BY LookUpFields, OrFields
<1> HIDE DEF x
<1>2. x.do \notin Acting /\ Finds(c, x, s, t)  BY <1>1 DEF Acting, Finds
<1>3. Built(c, s, <<x>>)  BY <1>1, <1>2, LooksFit DEF Built
<1>4. QED  BY <1>3 DEF x

LEMMA IfPendingFits ==
  ASSUME NEW c, NEW s \in Stages, NEW k, NEW pending, NEW over, Built(c, s, pending), Built(c, s, over)
  PROVE  Built(c, s, <<IfPending(k, pending, over)>>)
<1> DEFINE x == IfPending(k, pending, over)
<1>1. x.do = "ifPending" /\ x.pending = pending /\ x.over = over
  BY LookUpFields
<1> HIDE DEF x
<1>2. x.do \notin Acting /\ Finds(c, x, s, s) /\ x.do \notin CanFail  BY <1>1 DEF Acting, Finds, CanFail
<1>3. Built(c, s, <<x>>)  BY <1>1, <1>2, LooksFit DEF Built
<1>4. QED  BY <1>3 DEF x

LEMMA EndIfTrackedFits ==
  ASSUME NEW c, NEW s \in {"over", "any"}, NEW k, NEW found, NEW absent, Built(c, s, found), Built(c, s, absent)
  PROVE  Built(c, s, <<EndIfTracked(k, found, absent)>>)
<1> DEFINE x == EndIfTracked(k, found, absent)
<1>1. x.do = "endIfTracked" /\ x.found = found /\ x.absent = absent /\ x.or = {absent}
  BY LookUpFields, OrFields
<1> HIDE DEF x
<1>2. x.do \notin Acting /\ Finds(c, x, s, s) /\ s \in Stages  BY <1>1 DEF Acting, Finds, Stages
<1>3. x.or # GoOn /\ Fit(c, s, x.or)  BY <1>1 DEF GoOn, Built, Fits
<1>4. Built(c, s, <<x>>)  BY <1>1, <1>2, <1>3, LooksFit DEF Built
<1>5. QED  BY <1>4 DEF x

LEMMA RetractFits ==
  ASSUME NEW c, NEW s \in Stages, NEW gone, NEW still, Built(c, s, gone), Built(c, s, still)
  PROVE  Built(c, s, <<Retract(gone, still)>>)
<1> DEFINE x == Retract(gone, still)
<1>1. x.do = "retract" /\ x.gone = gone /\ x.or = {still}
  BY LookUpFields
<1> HIDE DEF x
<1>2. x.do \notin Acting /\ Finds(c, x, s, s)  BY <1>1 DEF Acting, Finds
<1>3. x.or # GoOn /\ Fit(c, s, x.or)  BY <1>1 DEF GoOn, Built, Fits
<1>4. Fits(c, s, x.gone)  BY <1>1 DEF Built
<1>5. x.do \notin {"get", "endIfTracked", "ifPending", "answer"}  BY <1>1
<1>6. Built(c, s, <<x>>)  BY <1>2, <1>3, <1>4, <1>5, LooksFit
<1>7. QED  BY <1>6 DEF x

\* A plan that is only for a setting whose services show activities.
At(b, s) == IF b THEN s ELSE "any"

LEMMA WhenFits ==
  ASSUME NEW c, NEW s, NEW p, NEW q, NEW condition, Listed(p), Listed(q),
         condition => Built(c, s, p \o q), ~condition => Built(c, s, q)
  PROVE  Built(c, s, When(condition, p) \o q) /\ Listed(When(condition, p))
<1>1. When(condition, p) \o q = (IF condition THEN p \o q ELSE q) /\ Listed(When(condition, p))  BY Peel
<1>2. QED  BY <1>1

\* Plans in a row, as they are written.
LEMMA Regroup ==
  ASSUME NEW c, NEW s, NEW q, Listed(q)
  PROVE  /\ \A x, y : Built(c, s, <<x>> \o (<<y>> \o q)) => Built(c, s, <<x, y>> \o q)
         /\ \A x, y, z : Built(c, s, <<x>> \o (<<y>> \o (<<z>> \o q))) => Built(c, s, <<x, y, z>> \o q)
         /\ \A x, y, z, w :
              Built(c, s, <<x>> \o (<<y>> \o (<<z>> \o (<<w>> \o q)))) => Built(c, s, <<x, y, z, w>> \o q)
         /\ \A p, r : Listed(p) /\ Listed(r) /\ Built(c, s, p \o (r \o q)) => Built(c, s, (p \o r) \o q)
         /\ \A p, r, t : Listed(p) /\ Listed(r) /\ Listed(t) /\ Built(c, s, p \o (r \o (t \o q)))
              => Built(c, s, ((p \o r) \o t) \o q)
<1>1. \A x, y : Built(c, s, <<x>> \o (<<y>> \o q)) => Built(c, s, <<x, y>> \o q)
  <2> TAKE x, y
  <2>1. <<x, y>> \o q = <<x>> \o (<<y>> \o q)  BY Peel
  <2>2. QED  BY <2>1
<1>2. \A x, y, z : Built(c, s, <<x>> \o (<<y>> \o (<<z>> \o q))) => Built(c, s, <<x, y, z>> \o q)
  <2>1. \A a, b, d : <<a, b, d>> \o q = <<a>> \o (<<b>> \o (<<d>> \o q))  BY Peel
  <2>2. QED  BY <2>1, Zenon
<1>3. \A x, y, z, w :
        Built(c, s, <<x>> \o (<<y>> \o (<<z>> \o (<<w>> \o q)))) => Built(c, s, <<x, y, z, w>> \o q)
  <2>1. \A a, b, d, e : <<a, b, d, e>> \o q = <<a>> \o (<<b>> \o (<<d>> \o (<<e>> \o q)))  BY Peel
  <2>2. QED  BY <2>1, Zenon
<1>4. ASSUME NEW p, NEW r, Listed(p), Listed(r), Built(c, s, p \o (r \o q)) PROVE Built(c, s, (p \o r) \o q)
  <2>1. (p \o r) \o q = p \o (r \o q)  BY <1>4, Assoc
  <2>2. QED  BY <1>4, <2>1
<1>5. ASSUME NEW p, NEW r, NEW t, Listed(p), Listed(r), Listed(t), Built(c, s, p \o (r \o (t \o q)))
      PROVE  Built(c, s, ((p \o r) \o t) \o q)
  <2>1. Listed(p \o r) /\ Listed(t \o q)  BY <1>5, Assoc
  <2>2. ((p \o r) \o t) \o q = (p \o r) \o (t \o q)  BY <1>5, <2>1, Assoc
  <2>3. (p \o r) \o (t \o q) = p \o (r \o (t \o q))  BY <1>5, <2>1, Assoc
  <2>4. QED  BY <1>5, <2>2, <2>3
<1>6. QED  BY <1>1, <1>2, <1>3, <1>4, <1>5

LEMMA TellIf ==
  ASSUME NEW c, NEW s \in Stages, NEW q, Built(c, s, q), NEW x, x.do \in {"push", "send", "cancel"},
         x.do # "cancel" => x.note \in {"notice", "alert", "resolved"},
         x.or = GoOn \/ (Fit(c, "any", x.or) /\ (c.service # "proxmox" \/ Fit(c, s, x.or))), NEW condition
  PROVE  Built(c, s, When(condition, <<x>>) \o q) /\ Listed(When(condition, <<x>>))
<1>1. Built(c, s, <<x>> \o q)  BY TellFits
<1>2. Listed(<<x>>) /\ Listed(q)  BY Solo DEF Built
<1>3. When(condition, <<x>>) \o q = (IF condition THEN <<x>> \o q ELSE q) /\ Listed(When(condition, <<x>>))
  BY <1>2, Peel
<1>4. QED  BY <1>1, <1>3

LEMMA NoticeFits ==
  ASSUME NEW c, NEW s \in {"any", "aside", "free", "over", "shown"}, NEW condition, NEW err,
         err \in {GoOn, Refused}
  PROVE  Built(c, s, When(condition, <<Push("notice", err)>>) \o Done)
<1> DEFINE x == Push("notice", err)
<1>1. x.do = "push" /\ x.note = "notice" /\ x.or = err  BY DEF Push
<1> HIDE DEF x
<1>2. s \in Stages /\ "any" \in Stages  BY DEF Stages
<1>3. Built(c, s, Done) /\ Fit(c, "any", Refused) /\ Fit(c, s, Refused)  BY <1>2, AnswersFit
<1>4. Built(c, s, When(condition, <<x>>) \o Done)  BY <1>1, <1>2, <1>3, TellIf
<1>5. QED  BY <1>4 DEF x

LEMMA NotifyOnlyFits ==
  ASSUME NEW c, NEW s \in {"any", "aside", "free", "over"}, NEW u
  PROVE  Built(c, s, NotifyOnly(u)) /\ Built(c, s, Instead(u)) /\ Built(c, s, IssueResolved(u))
<1>1. Built(c, s, NotifyOnly(u)) /\ Built(c, s, Instead(u))
  BY NoticeFits DEF NotifyOnly, Instead
<1>2. s \in Stages  BY DEF Stages
<1>3. Built(c, s, Done)  BY <1>2, AnswersFit
<1>4. Built(c, s, <<Retract(Done, NotifyOnly(u))>>)  BY <1>1, <1>2, <1>3, RetractFits
<1>5. QED  BY <1>1, <1>4 DEF IssueResolved

---------------------------------------------------------------------------
(* The alerting services.                                                  *)

LEMMA RollBackFits ==
  ASSUME NEW c
  PROVE  /\ Fit(c, "any", RollBack) /\ RollBack # GoOn /\ Refused # GoOn
         /\ \A answer \in {Done, Refuse} : Built(c, "any", <<Delete("main")>> \o answer)
<1>1. "any" \in Stages  BY DEF Stages
<1>2. Built(c, "any", Done) /\ Built(c, "any", Refuse)  BY <1>1, AnswersFit
<1>3. \A answer \in {Done, Refuse} : Built(c, "any", <<Delete("main")>> \o answer)  BY <1>2, DeleteFits
<1>4. QED  BY <1>3 DEF RollBack, GoOn, Refused, Built, Fits

LEMMA AlertFits ==
  ASSUME NEW c, c.service \in Alerting, NEW u, NEW b \in BOOLEAN, b => AllowsActivity(u)
  PROVE  Built(c, At(b, "fresh"), Alert(u))
<1> DEFINE S(s) == At(b, s)
           told == When(AllowsNotification(u), <<Send(u, "alert", GoOn)>>)
           up == <<Create("main", RollBack), Update("main", "ongoing", RollBack)>>
           again == <<Update("main", "ongoing", Refused)>>
           new == <<Set("main", GoOn)>> \o When(AllowsActivity(u), up) \o told \o Done
           known == <<Set("main", GoOn)>> \o When(AllowsActivity(u), again) \o Done
           set == <<Set("main", GoOn)>>
<1>1. /\ S("fresh") \in Stages /\ S("clear") \in Stages /\ S("kept") \in Stages /\ S("shown") \in Stages
      /\ "any" \in Stages
  BY DEF At, Stages
<1>2. c.service \notin {"proxmox", "starr notifying", "starr"}  BY DEF Alerting
<1>3. Built(c, S("shown"), Done) /\ Listed(Done)  BY <1>1, AnswersFit DEF At
<1>4. ~AllowsActivity(u) => S("kept") = S("shown")  BY DEF At
<1>5. Listed(set) /\ Listed(up) /\ Listed(again)  BY Solo, Tuples
<1>6. Built(c, S("shown"), told \o Done) /\ Listed(told)
  <2> DEFINE x == Send(u, "alert", GoOn)
  <2>1. x.do = "send" /\ x.note = "alert" /\ x.or = GoOn  BY DEF Send
  <2> HIDE DEF x
  <2>2. Built(c, S("shown"), When(AllowsNotification(u), <<x>>) \o Done) /\ Listed(When(AllowsNotification(u), <<x>>))
    BY <1>1, <1>3, <2>1, TellIf
  <2>3. QED  BY <2>2 DEF x
<1>7. Built(c, S("clear"), new)
  <2> DEFINE q == told \o Done  q1 == <<Update("main", "ongoing", RollBack)>> \o q
             p == When(AllowsActivity(u), up)
  <2> HIDE DEF told
  <2>1. Built(c, S("shown"), q) /\ Listed(q)  BY <1>6 DEF Built
  <2> HIDE DEF q
  <2>2. Updated(c, S("shown"), S("shown")) \/ S("shown") = "any"  BY DEF At, Updated
  <2>3. Built(c, S("shown"), q1)  BY <1>1, <1>2, <2>1, <2>2, RollBackFits, UpdateFits DEF At
  <2>4. Created(c, S("kept"), S("shown")) \/ (S("kept") = "any" /\ S("shown") = "any")  BY DEF At, Created
  <2> HIDE DEF q1
  <2>5. Built(c, S("kept"), <<Create("main", RollBack)>> \o q1)
    BY <1>1, <1>2, <2>3, <2>4, RollBackFits, CreateFits
  <2>6. Built(c, S("kept"), up \o q)  BY <2>1, <2>5, Regroup DEF q1
  <2> HIDE DEF up
  <2>7. Built(c, S("kept"), p \o q) /\ Listed(p)  BY <1>4, <1>5, <2>1, <2>6, WhenFits
  <2> HIDE DEF p
  <2>8. Written1(S("clear"), S("kept")) \/ (S("clear") = "any" /\ S("kept") = "any")  BY DEF At, Written1
  <2>9. Built(c, S("clear"), set \o (p \o q))  BY <1>1, <1>2, <2>7, <2>8, SetFits
  <2> HIDE DEF set
  <2>10. Built(c, S("clear"), ((set \o p) \o told) \o Done)
    BY <1>3, <1>5, <1>6, <2>7, <2>9, Regroup DEF q
  <2>11. QED  BY <2>10 DEF p, set
<1>8. Built(c, S("kept"), known)
  <2> DEFINE p == When(AllowsActivity(u), again)
  <2>1. Updated(c, S("kept"), S("shown")) \/ (S("kept") = "any" /\ S("shown") = "any")  BY DEF At, Updated
  <2>2. Built(c, S("kept"), again \o Done)  BY <1>1, <1>2, <1>3, <2>1, RollBackFits, UpdateFits
  <2> HIDE DEF again
  <2>3. Built(c, S("kept"), p \o Done) /\ Listed(p)  BY <1>3, <1>4, <1>5, <2>2, WhenFits
  <2> HIDE DEF p
  <2>4. Written1(S("kept"), S("kept")) \/ S("kept") = "any"  BY DEF At, Written1
  <2>5. Built(c, S("kept"), set \o (p \o Done))  BY <1>1, <1>2, <2>3, <2>4, SetFits
  <2> HIDE DEF set
  <2>6. Built(c, S("kept"), (set \o p) \o Done)  BY <1>3, <1>5, <2>3, <2>5, Regroup
  <2>7. QED  BY <2>6 DEF p, set
<1> HIDE DEF new, known
<1>9. Built(c, S("clear"), <<Get("main", known, new, {new})>>)
  <2>1. Fit(c, S("clear"), {new}) /\ {new} # GoOn  BY <1>7 DEF Built, Fits, GoOn
  <2>2. (S("clear") = "clear" /\ S("kept") = "kept") \/ S("clear") = S("kept")  BY DEF At
  <2>3. QED  BY <1>1, <1>7, <1>8, <2>1, <2>2, GetFits
<1>10. Stopped(c, S("fresh"), S("clear")) \/ (S("fresh") = "any" /\ S("clear") = "any")  BY <1>2 DEF At, Stopped
<1>11. Built(c, S("fresh"), <<StopTimer("main")>> \o <<Get("main", known, new, {new})>>)
  BY <1>1, <1>9, <1>10, StopFits
<1>12. Alert(u) = <<StopTimer("main"), Get("main", known, new, {new})>>
  BY DEF Alert, new, known, RollBack
<1>13. QED  BY <1>11, <1>12, Tuples

LEMMA PendingFits ==
  ASSUME NEW c, c.service \in Alerting, NEW u, NEW b \in BOOLEAN, b => AllowsActivity(u)
  PROVE  Built(c, At(b, "fresh"), Pending(u))
<1> DEFINE S(s) == At(b, s)
           q1 == <<Update("main", "ongoing", Refused)>> \o Done
           q2 == <<Create("main", RollBack)>> \o q1
           q3 == <<Set("main", {Done})>> \o q2
<1>1. /\ S("fresh") \in Stages /\ S("clear") \in Stages /\ S("kept") \in Stages /\ S("shown") \in Stages
      /\ "any" \in Stages
  BY DEF At, Stages
<1>2. c.service \notin {"proxmox", "starr notifying", "starr"}  BY DEF Alerting
<1>3. Built(c, S("shown"), Done) /\ Listed(Done) /\ Built(c, "any", Done) /\ Fit(c, "any", {Done})
  BY <1>1, AnswersFit DEF At, Built, Fits
<1>4. /\ Updated(c, S("shown"), S("shown")) \/ S("shown") = "any"
      /\ Created(c, S("kept"), S("shown")) \/ (S("kept") = "any" /\ S("shown") = "any")
      /\ Written1(S("clear"), S("kept")) \/ (S("clear") = "any" /\ S("kept") = "any")
      /\ Stopped(c, S("fresh"), S("clear")) \/ (S("fresh") = "any" /\ S("clear") = "any")
  BY <1>2 DEF At, Updated, Created, Written1, Stopped
<1>5. Built(c, S("shown"), q1)  BY <1>1, <1>2, <1>3, <1>4, RollBackFits, UpdateFits
<1> HIDE DEF q1
<1>6. Built(c, S("kept"), q2)  BY <1>1, <1>2, <1>4, <1>5, RollBackFits, CreateFits
<1> HIDE DEF q2
<1>7. Built(c, S("clear"), q3)  BY <1>1, <1>2, <1>3, <1>4, <1>6, SetFits
<1> HIDE DEF q3
<1>8. Built(c, S("fresh"), <<StopTimer("main")>> \o q3)  BY <1>1, <1>4, <1>7, StopFits
<1>9. Built(c, S("fresh"), <<StopTimer("main"), Set("main", {Done}), Create("main", RollBack),
                             Update("main", "ongoing", Refused)>> \o Done)
  BY <1>3, <1>8, Regroup DEF q1, q2, q3
<1>10. ~AllowsActivity(u) => Built(c, S("fresh"), Done)  BY <1>3 DEF At
<1>11. QED  BY <1>9, <1>10 DEF Pending, RollBack

LEMMA ResolvedFits ==
  ASSUME NEW c, c.service \in Alerting, NEW u, NEW b \in BOOLEAN, b => AllowsActivity(u)
  PROVE  Built(c, At(b, "over"), Resolved(u))
<1> DEFINE s == At(b, "over")
           resolved == <<Push("resolved", GoOn)>> \o Done
           notify == IF ~AllowsNotification(u) THEN Done
                     ELSE IF u.retract THEN <<Retract(Done, resolved)>> ELSE resolved
           found == <<IF AllowsActivity(u) THEN ScheduleEnd("main") ELSE Delete("main")>> \o notify
           look == <<Get("main", found, Done, {Done})>>
<1>1. s \in Stages /\ s \in {"over", "any"} /\ (~AllowsActivity(u) => s = "any")  BY DEF At, Stages
<1>2. c.service # "starr notifying"  BY DEF Alerting
<1> HIDE DEF s
<1>3. Built(c, s, Done) /\ Listed(Done) /\ Fit(c, s, {Done}) /\ {Done} # GoOn
  BY <1>1, AnswersFit DEF Built, Fits, GoOn
<1>4. Built(c, s, resolved)
  <2>1. Push("resolved", GoOn).do = "push" /\ Push("resolved", GoOn).note = "resolved" /\ Push("resolved", GoOn).or = GoOn
    BY DEF Push
  <2>2. QED  BY <1>1, <1>3, <2>1, TellFits
<1> HIDE DEF resolved
<1>5. Built(c, s, notify)  BY <1>1, <1>3, <1>4, RetractFits
<1> HIDE DEF notify
<1>6. Built(c, s, found)
  <2>1. Built(c, s, <<ScheduleEnd("main")>> \o notify)  BY <1>1, <1>2, <1>5, EndFits
  <2>2. ~AllowsActivity(u) => Built(c, s, <<Delete("main")>> \o notify)  BY <1>1, <1>5, DeleteFits
  <2>3. QED  BY <2>1, <2>2
<1> HIDE DEF found
<1>7. Built(c, s, look)  BY <1>1, <1>3, <1>6, GetFits
<1>8. Built(c, s, When(u.ack /\ AllowsNotification(u), <<Cancel>>) \o look)
  <2>1. Cancel.do = "cancel" /\ Cancel.or = GoOn  BY DEF Cancel
  <2> HIDE DEF look
  <2>2. Built(c, s, <<Cancel>> \o look) /\ Listed(<<Cancel>>) /\ Listed(look)
    BY <1>1, <1>7, <2>1, TellFits, Solo DEF Built
  <2>3. QED  BY <1>7, <2>2, WhenFits
<1>9. QED  BY <1>8 DEF Resolved, look, found, notify, resolved, s

LEMMA AsideFits ==
  ASSUME NEW c, NEW u, NEW s \in {"any", "aside"}
  PROVE  /\ Built(c, s, OneShot(u)) /\ Built(c, s, SendTest)
         /\ Built(c, s, Fencing(u)) /\ Built(c, s, SystemMail(u)) /\ Built(c, s, ConsumptionStarted(u))
         /\ \A problem : Built(c, s, BackrestAlert(u, problem))
<1>1. s \in Stages /\ s \in {"any", "aside", "free", "over", "shown"}  BY DEF Stages
<1>2. Built(c, s, Done) /\ Listed(Done) /\ Fit(c, "any", Refused) /\ Fit(c, s, Refused)  BY <1>1, AnswersFit DEF Stages
<1>3. \A q : Built(c, s, q) => /\ Built(c, s, <<ScheduleEnd("side")>> \o q)
                               /\ Built(c, s, <<Set("side", GoOn)>> \o q)
                               /\ Built(c, s, <<Create("side", Refused)>> \o q)
                               /\ Built(c, s, <<Update("side", "ongoing", Refused)>> \o q)
  <2>1. /\ ScheduleEnd("side").do = "end" /\ ScheduleEnd("side").key = "side"
        /\ Set("side", GoOn).do = "set" /\ Set("side", GoOn).key = "side" /\ Set("side", GoOn).or = GoOn
        /\ Create("side", Refused).do = "create" /\ Create("side", Refused).key = "side"
        /\ Create("side", Refused).or = Refused
        /\ Update("side", "ongoing", Refused).do = "update" /\ Update("side", "ongoing", Refused).key = "side"
        /\ Update("side", "ongoing", Refused).or = Refused /\ Update("side", "ongoing", Refused).state = "ongoing"
    BY DEF ScheduleEnd, Set, Create, Update
  <2>2. QED  BY <2>1, SideFits
<1>4. Built(c, s, SendTest)
  <2>1. Built(c, s, <<Create("side", Refused)>> \o (<<Update("side", "ongoing", Refused)>> \o Done))  BY <1>2, <1>3
  <2>2. QED  BY <1>2, <2>1, Regroup DEF SendTest
<1>5. Built(c, s, OneShot(u))
  <2>1. Send(u, "notice", Refused).do = "send" /\ Send(u, "notice", Refused).note = "notice"
        /\ Send(u, "notice", Refused).or = Refused
    BY DEF Send
  <2>2. QED  BY <1>1, <1>2, <2>1, TellIf DEF OneShot
<1>6. Built(c, s, Fencing(u))
  <2>1. Built(c, s, <<Create("side", Refused)>> \o (<<Update("side", "ongoing", Refused)>>
          \o (<<Set("side", GoOn)>> \o (<<ScheduleEnd("side")>> \o Done))))
    BY <1>2, <1>3
  <2>2. Built(c, s, <<Create("side", Refused), Update("side", "ongoing", Refused), Set("side", GoOn),
                      ScheduleEnd("side")>> \o Done)
    BY <1>2, <2>1, Regroup
  <2>3. QED  BY <1>2, <2>2 DEF Fencing
<1>7. ASSUME NEW q, Built(c, s, q)
      PROVE  Built(c, s, <<Create("side", Refused), Update("side", "ongoing", Refused), ScheduleEnd("side")>> \o q)
  <2>1. Built(c, s, <<Create("side", Refused)>> \o (<<Update("side", "ongoing", Refused)>>
          \o (<<ScheduleEnd("side")>> \o q)))
    BY <1>3, <1>7
  <2>2. Listed(q)  BY <1>7 DEF Built
  <2>3. QED  BY <2>1, <2>2, Regroup
<1>8. Built(c, s, SystemMail(u)) /\ Built(c, s, ConsumptionStarted(u))
  BY <1>2, <1>7 DEF SystemMail, ConsumptionStarted
<1>9. ASSUME NEW problem PROVE Built(c, s, BackrestAlert(u, problem))
  <2> DEFINE notify(err) == When(NotifyFallback(u, problem), <<Push("notice", err)>>) \o Done
  <2>1. Built(c, s, notify(GoOn)) /\ Built(c, s, notify(Refused))  BY NoticeFits
  <2>2. BackrestAlert(u, problem) =
          IF AllowsActivity(u)
          THEN <<Create("side", Refused), Update("side", "ongoing", Refused), ScheduleEnd("side")>> \o notify(GoOn)
          ELSE notify(Refused)
    BY DEF BackrestAlert
  <2> HIDE DEF notify
  <2>3. QED  BY <1>7, <2>1, <2>2
<1>10. QED  BY <1>4, <1>5, <1>6, <1>8, <1>9

---------------------------------------------------------------------------
(* The backup services, and the universal webhook.                         *)

LEMMA StartingFits ==
  ASSUME NEW c, c.service = "proxmox", NEW u, c.shows => AllowsActivity(u), NEW s \in {"fresh", "free"},
         ~c.shows => s = "free"
  PROVE  Built(c, s, Starting(u))
<1> DEFINE q1 == <<Update("main", "ongoing", Refused)>> \o Done
           q2 == <<Set("main", GoOn)>> \o q1
           q3 == <<Create("main", Refused)>> \o q2
<1>1. /\ s \in Stages /\ "free" \in Stages /\ "clear" \in Stages /\ "up" \in Stages /\ "shown" \in Stages
      /\ "any" \in Stages
  BY DEF Stages
<1>2. Built(c, "shown", Done) /\ Built(c, "free", Done) /\ Listed(Done) /\ Fit(c, "any", Refused)
  BY <1>1, AnswersFit
<1>3. Built(c, "shown", q1)  BY <1>1, <1>2, RollBackFits, UpdateFits DEF Updated
<1> HIDE DEF q1
<1>4. Built(c, "up", q2)  BY <1>1, <1>3, SetFits DEF Written1
<1> HIDE DEF q2
<1>5. Built(c, "clear", q3)  BY <1>1, <1>2, <1>4, RollBackFits, CreateFits DEF Created, Alerting
<1> HIDE DEF q3
<1>6. Built(c, s, <<StopTimer("main")>> \o q3)  BY <1>1, <1>5, StopFits DEF Stopped
<1>7. Built(c, s, <<StopTimer("main"), Create("main", Refused), Set("main", GoOn),
                    Update("main", "ongoing", Refused)>> \o Done)
  BY <1>2, <1>6, Regroup DEF q1, q2, q3
<1>8. QED  BY <1>2, <1>7 DEF Starting

LEMMA FinishedFits ==
  ASSUME NEW c, c.service = "proxmox", NEW u
  PROVE  Built(c, "over", Finished(u))
<1>1. "over" \in Stages  BY DEF Stages
<1>2. Built(c, "over", Done) /\ Fit(c, "over", Refused)  BY <1>1, AnswersFit
<1>3. Built(c, "over", <<ScheduleEnd("main")>> \o Done)  BY <1>1, <1>2, EndFits
<1>4. Built(c, "over", <<Get("main", <<ScheduleEnd("main")>> \o Done, Done, Refused)>>)
  BY <1>1, <1>2, <1>3, RollBackFits, GetFits
<1>5. QED  BY <1>2, <1>4 DEF Finished

\* The services that show an activity as soon as its handler can.
Plain(c) == c.service \notin Firm \union {"starr", "starr notifying"}

\* A card that a handler that is to end it shows, or that nothing ends yet.
LEMMA ShowsFit ==
  ASSUME NEW c, Plain(c), NEW err, err # GoOn, Fit(c, "any", err), NEW q, Listed(q)
  PROVE  /\ \A s \in {"over", "closing"} : Built(c, "closing", q) =>
              /\ Built(c, s, <<Create("main", err)>> \o q)
              /\ Built(c, "closing", <<Update("main", "ongoing", Refused)>> \o q)
              /\ Built(c, "closing", <<Set("main", GoOn)>> \o q)
              /\ Built(c, s, <<Create("main", err)>> \o (<<Update("main", "ongoing", Refused)>> \o (<<Set("main", GoOn)>> \o q)))
         /\ \A s \in {"clear", "free", "fresh"} : Built(c, "shown", q) /\ (s = "clear" \/ c.service = "backrest") =>
              Built(c, s, <<Create("main", err)>> \o (<<Update("main", "ongoing", Refused)>> \o (<<Set("main", GoOn)>> \o q)))
         /\ Built(c, "over", q) => Built(c, "closing", <<ScheduleEnd("main")>> \o q)
<1>1. {"over", "closing", "clear", "up", "shown", "free", "fresh", "any"} \subseteq Stages  BY DEF Stages
<1>2. c.service \notin {"proxmox", "starr", "starr notifying"} /\ c.service \notin Alerting  BY DEF Plain, Firm
<1>3. \A s \in {"over", "closing"} : \A p : Built(c, "closing", p) => Built(c, s, <<Create("main", err)>> \o p)
  <2> SUFFICES ASSUME NEW s \in {"over", "closing"}, NEW p, Built(c, "closing", p)
               PROVE  Built(c, s, <<Create("main", err)>> \o p)
    OBVIOUS
  <2>1. Created(c, s, "closing")  BY DEF Created, Plain
  <2>2. QED  BY <1>1, <1>2, <2>1, CreateFits
<1>4. \A p : Built(c, "closing", p) => Built(c, "closing", <<Update("main", "ongoing", Refused)>> \o p)
  BY <1>1, <1>2, RollBackFits, UpdateFits DEF Updated
<1>5. \A p : Built(c, "closing", p) => Built(c, "closing", <<Set("main", GoOn)>> \o p)
  BY <1>1, <1>2, SetFits DEF Written1
<1>6. ASSUME NEW s \in {"clear", "free", "fresh"}, Built(c, "shown", q), s = "clear" \/ c.service = "backrest"
      PROVE  Built(c, s, <<Create("main", err)>> \o (<<Update("main", "ongoing", Refused)>> \o (<<Set("main", GoOn)>> \o q)))
  <2> DEFINE q1 == <<Set("main", GoOn)>> \o q  q2 == <<Update("main", "ongoing", Refused)>> \o q1
  <2>1. Built(c, "up", q1)  BY <1>1, <1>2, <1>6, SetFits DEF Written1
  <2> HIDE DEF q1
  <2>2. Built(c, "up", q2)  BY <1>1, <1>2, <2>1, RollBackFits, UpdateFits DEF Updated
  <2> HIDE DEF q2
  <2>3. Created(c, s, "up")  BY <1>2, <1>6 DEF Created
  <2>4. Built(c, s, <<Create("main", err)>> \o q2)  BY <1>1, <1>2, <2>2, <2>3, CreateFits
  <2>5. QED  BY <2>4 DEF q1, q2
<1>7. Built(c, "over", q) => Built(c, "closing", <<ScheduleEnd("main")>> \o q)  BY <1>1, <1>2, EndFits
<1>8. QED  BY <1>3, <1>4, <1>5, <1>6, <1>7

LEMMA BackrestFits ==
  ASSUME NEW c, c.service = "backrest", NEW u, c.shows => AllowsActivity(u)
  PROVE  /\ \A s \in {"fresh", "free"} : (~c.shows => s = "free") => Built(c, s, BackrestStart(u))
         /\ \A problem : Built(c, "over", BackrestEnd(u, problem))
<1>1. {"over", "closing", "shown", "free", "any"} \subseteq Stages  BY DEF Stages
<1>2. Plain(c)  BY DEF Plain, Firm, Alerting
<1>3. Built(c, "shown", Done) /\ Built(c, "free", Done) /\ Listed(Done) /\ Fit(c, "any", Refused)
  BY <1>1, AnswersFit
<1>4. ASSUME NEW s \in {"fresh", "free"}, ~c.shows => s = "free"
      PROVE  Built(c, s, BackrestStart(u))
  <2>1. Built(c, s, <<Create("main", Refused)>> \o (<<Update("main", "ongoing", Refused)>> \o (<<Set("main", GoOn)>> \o Done)))
    BY <1>2, <1>3, RollBackFits, ShowsFit
  <2>2. Built(c, s, <<Create("main", Refused), Update("main", "ongoing", Refused), Set("main", GoOn)>> \o Done)
    BY <1>3, <2>1, Regroup
  <2>3. QED  BY <1>3, <1>4, <2>2 DEF BackrestStart
<1>5. ASSUME NEW problem PROVE Built(c, "over", BackrestEnd(u, problem))
  <2> DEFINE notify(err) == When(NotifyFallback(u, problem), <<Push("notice", err)>>) \o Done
             q1 == <<ScheduleEnd("main")>> \o notify(GoOn)
  <2>1. Built(c, "over", notify(GoOn)) /\ Built(c, "over", notify(Refused))  BY NoticeFits
  <2>2. BackrestEnd(u, problem) =
          IF AllowsActivity(u)
          THEN <<Create("main", Refused), Update("main", "ongoing", Refused), Set("main", GoOn),
                 ScheduleEnd("main")>> \o notify(GoOn)
          ELSE <<EndIfTracked("main", notify(Refused), notify(Refused))>>
    BY DEF BackrestEnd
  <2> HIDE DEF notify
  <2>3. Listed(notify(GoOn))  BY <2>1 DEF Built
  <2>4. Built(c, "closing", q1) /\ Listed(q1)  BY <1>2, <1>3, <2>1, <2>3, RollBackFits, ShowsFit DEF Built
  <2> HIDE DEF q1
  <2>5. Built(c, "over", <<Create("main", Refused)>> \o (<<Update("main", "ongoing", Refused)>> \o (<<Set("main", GoOn)>> \o q1)))
    BY <1>2, <1>3, <2>4, RollBackFits, ShowsFit
  <2>6. Built(c, "over", <<EndIfTracked("main", notify(Refused), notify(Refused))>>)  BY <2>1, EndIfTrackedFits
  <2>7. QED  BY <2>2, <2>3, <2>5, <2>6, Regroup DEF q1
<1>6. QED  BY <1>4, <1>5

LEMMA RaiseFits ==
  ASSUME NEW c, c.service # "proxmox", NEW u, NEW kind \in UniversalKinds, NEW s \in Stages, NEW q, Built(c, s, q), NEW err,
         err = GoOn \/ Fit(c, "any", err), NEW condition
  PROVE  /\ Built(c, s, <<Raise(u, kind, err)>> \o q)
         /\ Built(c, s, When(condition, <<Raise(u, kind, err)>>) \o q)
         /\ Listed(When(condition, <<Raise(u, kind, err)>>))
<1> DEFINE x == Raise(u, kind, err)
<1>1. x.do \in {"push", "send"} /\ x.note \in {"notice", "alert", "resolved"} /\ x.or = err
  <2>1. /\ Send(u, "alert", err).do = "send" /\ Send(u, "alert", err).note = "alert" /\ Send(u, "alert", err).or = err
        /\ Send(u, "notice", err).do = "send" /\ Send(u, "notice", err).note = "notice" /\ Send(u, "notice", err).or = err
        /\ Push("notice", err).do = "push" /\ Push("notice", err).note = "notice" /\ Push("notice", err).or = err
    BY DEF Send, Push
  <2>2. x \in {Send(u, "alert", err), Send(u, "notice", err), Push("notice", err)}  BY DEF Raise, UniversalKinds
  <2> HIDE DEF x
  <2>3. QED  BY <2>1, <2>2
<1> HIDE DEF x
<1>2. Built(c, s, <<x>> \o q)  BY <1>1, TellFits
<1>3. Built(c, s, When(condition, <<x>>) \o q) /\ Listed(When(condition, <<x>>))  BY <1>1, TellIf
<1>4. QED  BY <1>2, <1>3 DEF x

LEMMA OngoingFits ==
  ASSUME NEW c, c.service \in UniversalKinds, NEW u, c.shows => AllowsActivity(u), NEW s \in {"fresh", "free"},
         ~AllowsActivity(u) => s = "free"
  PROVE  Built(c, s, Ongoing(u, c.service))
<1> DEFINE kind == c.service
           worthIt == NotifyFallback(u, kind # "progress")
           tell(isNew) == When(isNew /\ worthIt, <<Raise(u, kind, GoOn)>>)
           show(isNew) == <<Update("main", "ongoing", Refused), Set("main", GoOn)>> \o tell(isNew) \o Done
           raise == <<Raise(u, kind, Refused)>> \o Done
           new == <<Create("main", {Refuse, raise})>> \o show(TRUE)
<1>1. {"clear", "kept", "up", "shown", "fresh", "free", "any"} \subseteq Stages /\ kind \in UniversalKinds
  BY DEF Stages
<1>2. Plain(c) /\ kind \notin {"proxmox", "starr", "starr notifying"} /\ kind \notin Alerting
  BY DEF Plain, Firm, Alerting, UniversalKinds
<1> HIDE DEF kind, worthIt
<1>3. \A t \in {"any", "free", "shown"} : Built(c, t, Done)  BY <1>1, AnswersFit
<1>4. Listed(Done) /\ Fit(c, "any", Refused) /\ Built(c, "any", Refuse)  BY <1>1, AnswersFit
<1>5. Built(c, "any", raise)  BY <1>1, <1>2, <1>3, <1>4, RaiseFits DEF kind
<1>6. \A isNew \in BOOLEAN : Built(c, "shown", tell(isNew) \o Done) /\ Listed(tell(isNew))
  BY <1>1, <1>2, <1>3, RaiseFits DEF kind
<1> HIDE DEF tell, raise
<1>7. \A isNew \in BOOLEAN : Built(c, "kept", show(isNew)) /\ Built(c, "up", show(isNew))
  <2> TAKE isNew \in BOOLEAN
  <2> DEFINE q == tell(isNew) \o Done  q1 == <<Set("main", GoOn)>> \o q
             two == <<Update("main", "ongoing", Refused), Set("main", GoOn)>>
  <2>1. Built(c, "shown", q) /\ Listed(q)  BY <1>6 DEF Built
  <2> HIDE DEF q
  <2>2. Built(c, "shown", q1) /\ Built(c, "up", q1)  BY <1>1, <1>2, <2>1, SetFits DEF Written1, kind
  <2> HIDE DEF q1
  <2>3. \A t \in {"kept", "up"} : Built(c, t, <<Update("main", "ongoing", Refused)>> \o q1)
    BY <1>1, <1>2, <2>2, RollBackFits, UpdateFits DEF Updated, kind
  <2>4. \A t \in {"kept", "up"} : Built(c, t, two \o q)  BY <2>1, <2>3, Regroup DEF q1
  <2>5. Listed(two) /\ Listed(tell(isNew))  BY <1>6, Tuples
  <2> HIDE DEF two
  <2>6. \A t \in {"kept", "up"} : Built(c, t, (two \o tell(isNew)) \o Done)  BY <1>4, <2>4, <2>5, Regroup DEF q
  <2>7. QED  BY <2>6 DEF two
<1> HIDE DEF show
<1>8. Built(c, "clear", new)
  <2>1. Fit(c, "any", {Refuse, raise}) /\ {Refuse, raise} # GoOn
    <3>1. {Refuse, raise} = {Refuse} \union {raise}  OBVIOUS
    <3>2. QED  BY <1>1, <1>4, <1>5, <3>1, FitsBoth DEF Built, Fits, GoOn
  <2>2. Created(c, "clear", "up")  BY <1>2 DEF Created, kind
  <2>3. QED  BY <1>1, <1>2, <1>7, <2>1, <2>2, CreateFits DEF kind
<1> HIDE DEF new
<1>9. Built(c, "clear", <<Get("main", show(FALSE), new, {new})>>)
  <2>1. Fit(c, "clear", {new}) /\ {new} # GoOn  BY <1>8 DEF Built, Fits, GoOn
  <2>2. QED  BY <1>1, <1>7, <1>8, <2>1, GetFits
<1>10. Built(c, s, <<StopTimer("main")>> \o <<Get("main", show(FALSE), new, {new})>>)
  <2>1. Stopped(c, s, "clear")  BY <1>2 DEF Stopped, kind
  <2>2. QED  BY <1>1, <1>9, <2>1, StopFits
<1>11. ~AllowsActivity(u) => Built(c, s, When(worthIt, <<Raise(u, kind, Refused)>>) \o Done)
  BY <1>1, <1>2, <1>3, <1>4, RaiseFits DEF kind
<1>12. Ongoing(u, kind) = IF AllowsActivity(u) THEN <<StopTimer("main"), Get("main", show(FALSE), new, {new})>>
                          ELSE When(worthIt, <<Raise(u, kind, Refused)>>) \o Done
  BY DEF Ongoing, new, show, raise, tell, worthIt
<1>13. QED  BY <1>10, <1>11, <1>12, Tuples DEF kind

LEMMA BookkeepingFits ==
  ASSUME NEW c, c.service \in UniversalKinds, NEW u, c.shows => AllowsActivity(u)
  PROVE  Built(c, "free", Bookkeeping(u, c.service))
<1> DEFINE ongoing == Ongoing(u, c.service)
<1>1. "free" \in Stages  BY DEF Stages
<1>2. Built(c, "free", Done)  BY <1>1, AnswersFit
<1>3. Built(c, "free", ongoing)  BY OngoingFits
<1> HIDE DEF ongoing
<1>4. Fit(c, "free", {ongoing}) /\ {ongoing} # GoOn  BY <1>3 DEF Built, Fits, GoOn
<1>5. Built(c, "free", <<Get("main", ongoing, Done, {ongoing})>>)  BY <1>1, <1>2, <1>3, <1>4, GetFits
<1>6. Built(c, "free", <<IfPending("main", Done, <<Get("main", ongoing, Done, {ongoing})>>)>>)
  BY <1>1, <1>2, <1>5, IfPendingFits
<1>7. QED  BY <1>2, <1>6 DEF Bookkeeping, ongoing

LEMMA PushFits ==
  ASSUME NEW c, NEW s \in Stages, NEW q, Built(c, s, q), NEW text \in {"notice", "resolved"}, NEW err \in {GoOn, Refused},
         err = GoOn \/ c.service # "proxmox"
  PROVE  Built(c, s, <<Push(text, err)>> \o q)
<1>1. Fit(c, "any", Refused)  BY AnswersFit DEF Stages
<1>2. Push(text, err).do = "push" /\ Push(text, err).note = text /\ Push(text, err).or = err  BY DEF Push
<1>3. QED  BY <1>1, <1>2, TellFits

LEMMA CancelFits ==
  ASSUME NEW c, NEW s \in Stages, NEW q, Built(c, s, q)
  PROVE  Built(c, s, <<Cancel>> \o q)
<1>1. Cancel.do = "cancel" /\ Cancel.or = GoOn  BY DEF Cancel
<1>2. QED  BY <1>1, TellFits

LEMMA UniversalEndFits ==
  ASSUME NEW c, c.service \in UniversalKinds, NEW u, NEW s \in {"over", "any"}
  PROVE  Built(c, s, End(u, c.service))
<1> DEFINE kind == c.service
           outcome(tracked) ==
             <<Push(IF kind = "alert" THEN "resolved" ELSE "notice", IF tracked THEN GoOn ELSE Refused)>> \o Done
           notify(tracked) ==
             IF ~NotifyFallback(u, TRUE) THEN Done
             ELSE IF kind = "alert" /\ tracked /\ u.retract THEN <<Retract(Done, outcome(TRUE))>>
             ELSE outcome(tracked)
           ending == <<IfPending("main", Done, <<ScheduleEnd("main")>> \o notify(TRUE))>>
           condition == kind # "progress" /\ u.ack /\ AllowsNotification(u)
           look == IF AllowsActivity(u) THEN <<Get("main", ending, notify(FALSE), {notify(FALSE)})>>
                   ELSE <<EndIfTracked("main", notify(TRUE), notify(FALSE))>>
<1>1. s \in Stages /\ "any" \in Stages /\ kind \notin {"starr notifying", "proxmox"}  BY DEF Stages, UniversalKinds
<1> HIDE DEF kind
<1>2. Built(c, s, Done) /\ Fit(c, "any", Refused)  BY <1>1, AnswersFit
<1>3. \A tracked \in BOOLEAN : Built(c, s, outcome(tracked))
  <2> TAKE tracked \in BOOLEAN
  <2> DEFINE text == IF kind = "alert" THEN "resolved" ELSE "notice"  err == IF tracked THEN GoOn ELSE Refused
  <2>1. text \in {"notice", "resolved"} /\ err \in {GoOn, Refused}  OBVIOUS
  <2> HIDE DEF text, err, outcome, notify, ending, condition, look
  <2>2. Built(c, s, <<Push(text, err)>> \o Done)  BY <1>1, <1>2, <2>1, PushFits DEF kind
  <2>3. QED  BY <2>2 DEF text, err, outcome
<1> HIDE DEF outcome
<1>4. \A tracked \in BOOLEAN : Built(c, s, notify(tracked))
  <2>1. Built(c, s, <<Retract(Done, outcome(TRUE))>>)  BY <1>1, <1>2, <1>3, RetractFits
  <2>2. QED  BY <1>2, <1>3, <2>1
<1> HIDE DEF notify
<1>5. Built(c, s, ending)
  <2>1. Built(c, s, <<ScheduleEnd("main")>> \o notify(TRUE))  BY <1>1, <1>4, EndFits DEF kind
  <2>2. QED  BY <1>1, <1>2, <2>1, IfPendingFits
<1> HIDE DEF ending
<1>6. Built(c, s, look)
  <2>1. Fit(c, s, {notify(FALSE)}) /\ {notify(FALSE)} # GoOn  BY <1>4 DEF Built, Fits, GoOn
  <2>2. Built(c, s, <<Get("main", ending, notify(FALSE), {notify(FALSE)})>>)  BY <1>1, <1>4, <1>5, <2>1, GetFits
  <2>3. Built(c, s, <<EndIfTracked("main", notify(TRUE), notify(FALSE))>>)  BY <1>4, EndIfTrackedFits
  <2>4. QED  BY <2>2, <2>3
<1> HIDE DEF look
<1>7. Built(c, s, When(condition, <<Cancel>>) \o look)
  <2>1. Built(c, s, <<Cancel>> \o look) /\ Listed(<<Cancel>>) /\ Listed(look)
    BY <1>1, <1>6, CancelFits, Solo DEF Built
  <2>2. QED  BY <1>6, <2>1, WhenFits
<1>8. End(u, kind) = When(condition, <<Cancel>>) \o look
  BY DEF End, condition, look, ending, notify, outcome
<1>9. QED  BY <1>7, <1>8 DEF kind

---------------------------------------------------------------------------
(* The media, download and document services.                              *)

LEMMA MediaFits ==
  ASSUME NEW c, c.service = "overseerr", NEW u, c.shows => AllowsActivity(u)
  PROVE  /\ \A s \in {"fresh", "free"} : (~c.shows => s = "free") => Built(c, s, MediaEvent(u, FALSE))
         /\ Built(c, "over", MediaEvent(u, TRUE))
<1>1. {"over", "closing", "clear", "shown", "free", "fresh", "any"} \subseteq Stages  BY DEF Stages
<1>2. Plain(c) /\ c.service \notin {"proxmox", "starr", "starr notifying"}  BY DEF Plain, Firm, Alerting
<1>3. /\ \A t \in {"any", "free", "shown", "over"} : Built(c, t, Done)
      /\ Listed(Done) /\ Fit(c, "any", Refused) /\ Built(c, "any", Refuse) /\ Built(c, "free", Refuse) /\ Built(c, "over", Refuse)
  BY <1>1, AnswersFit
<1>4. ASSUME NEW terminal \in BOOLEAN, NEW s \in {"fresh", "free", "over"}, terminal <=> s = "over",
             ~c.shows => s # "fresh"
      PROVE  Built(c, s, MediaEvent(u, terminal))
  <2> DEFINE err(pushed) == IF pushed THEN {Done, Refuse} ELSE Refused
             last1 == When(terminal, <<ScheduleEnd("main")>>)
             q == last1 \o Done
             four(pushed) == <<StopTimer("main"), Create("main", err(pushed)), Update("main", "ongoing", Refused),
                               Set("main", GoOn)>>
             card1(pushed) == four(pushed) \o last1 \o Done
             noCard(answer) == IF terminal THEN <<EndIfTracked("main", answer, answer)>> ELSE answer
             t == IF terminal THEN "closing" ELSE "shown"
             r == IF terminal THEN "closing" ELSE "clear"
  <2>1. /\ Built(c, t, q) /\ Listed(last1) /\ Listed(q)
    <3>1. Built(c, "closing", <<ScheduleEnd("main")>> \o Done) /\ Listed(<<ScheduleEnd("main")>>)
      BY <1>1, <1>2, <1>3, EndFits, Solo
    <3>2. Built(c, t, q) /\ Listed(last1)  BY <1>3, <3>1, WhenFits
    <3>3. QED  BY <3>2 DEF Built
  <2> HIDE DEF q, last1
  <2>2. \A pushed \in BOOLEAN : Built(c, s, card1(pushed))
    <3> TAKE pushed \in BOOLEAN
    <3>1. Fit(c, "any", err(pushed)) /\ err(pushed) # GoOn
      <4>1. {Done, Refuse} = {Done} \union {Refuse}  OBVIOUS
      <4>2. Fit(c, "any", {Done, Refuse}) /\ {Done, Refuse} # GoOn  BY <1>1, <1>3, <4>1, FitsBoth DEF Built, Fits, GoOn
      <4>3. QED  BY <1>3, <4>2, RollBackFits
    <3> HIDE DEF err
    <3>2. Built(c, r, <<Create("main", err(pushed))>> \o (<<Update("main", "ongoing", Refused)>> \o (<<Set("main", GoOn)>> \o q)))
      BY <1>2, <2>1, <3>1, ShowsFit
    <3>3. Stopped(c, s, r)  BY <1>2, <1>4 DEF Stopped, Plain
    <3>4. s \in Stages /\ r \in Stages  BY <1>1
    <3> HIDE DEF r
    <3>5. Built(c, s, <<StopTimer("main")>> \o (<<Create("main", err(pushed))>> \o (<<Update("main", "ongoing", Refused)>> \o (<<Set("main", GoOn)>> \o q))))
      BY <3>2, <3>3, <3>4, StopFits
    <3>6. Built(c, s, four(pushed) \o q)  BY <2>1, <3>5, Regroup
    <3>7. Listed(four(pushed))  BY Tuples
    <3> HIDE DEF four
    <3>8. Built(c, s, (four(pushed) \o last1) \o Done)  BY <1>3, <2>1, <3>6, <3>7, Regroup DEF q
    <3>9. QED  BY <3>8
  <2> HIDE DEF card1
  <2>3. ~AllowsActivity(u) => \A answer \in {Done, Refuse} : Built(c, s, noCard(answer))
    <3>1. terminal => \A answer \in {Done, Refuse} : Built(c, s, <<EndIfTracked("main", answer, answer)>>)
      BY <1>3, <1>4, EndIfTrackedFits
    <3>2. ~AllowsActivity(u) /\ ~terminal => s = "free"  BY <1>4
    <3>3. QED  BY <1>3, <3>1, <3>2
  <2> HIDE DEF noCard
  <2>4. ASSUME NEW p, NEW p2, Built(c, s, p), Built(c, s, p2)
        PROVE  Built(c, s, <<Push("notice", {Refuse, p})>> \o p2)
    <3> DEFINE x == Push("notice", {Refuse, p})
    <3>1. x.do = "push" /\ x.note = "notice" /\ x.or = {Refuse, p}  BY DEF Push
    <3> HIDE DEF x
    <3>2. s \in Stages  BY <1>1
    <3>3. Built(c, "any", p)  BY <2>4, <3>2, BuiltAny
    <3>4. {Refuse, p} = {Refuse} \union {p}  OBVIOUS
    <3>5. Fit(c, "any", {Refuse, p})  BY <1>1, <1>3, <3>3, <3>4, FitsBoth DEF Built, Fits
    <3>6. Built(c, s, <<x>> \o p2)  BY <2>4, <3>1, <3>2, <3>5, TellFits
    <3>7. QED  BY <3>6 DEF x
  <2>5. MediaEvent(u, terminal) =
          IF ~AllowsNotification(u) THEN card1(FALSE)
          ELSE IF AllowsActivity(u) THEN <<Push("notice", {Refuse, card1(FALSE)})>> \o card1(TRUE)
          ELSE <<Push("notice", {Refuse, noCard(Refuse)})>> \o noCard(Done)
    BY DEF MediaEvent, card1, four, last1, noCard, err
  <2>6. QED  BY <2>2, <2>3, <2>4, <2>5
<1>5. QED  BY <1>4

\* What is over when it is first heard of.
LEMMA OnceFits ==
  ASSUME NEW c, Plain(c), NEW u
  PROVE  /\ Built(c, "over", Document(u)) /\ Built(c, "over", Transcoded(u))
         /\ Built(c, "over", PageChanged(u)) /\ Built(c, "over", ActionRun(u))
<1>1. {"over", "closing", "any"} \subseteq Stages  BY DEF Stages
<1>2. c.service \notin {"starr", "starr notifying", "proxmox"}  BY DEF Plain, Firm
<1>3. Built(c, "over", Done) /\ Listed(Done) /\ Fit(c, "any", Refused)  BY <1>1, AnswersFit
<1>4. Built(c, "over", Instead(u))  BY NotifyOnlyFits
<1> DEFINE q == <<ScheduleEnd("main")>> \o Done
<1>5. Built(c, "closing", q) /\ Listed(q)  BY <1>1, <1>2, <1>3, EndFits DEF Built
<1> HIDE DEF q
<1>6. /\ Built(c, "over", <<Create("main", Refused)>> \o q)
      /\ Built(c, "over", <<Create("main", Refused)>> \o (<<Update("main", "ongoing", Refused)>> \o (<<Set("main", GoOn)>> \o q)))
  BY <1>3, <1>5, RollBackFits, ShowsFit
<1>7. Built(c, "over", <<Create("main", Refused), Update("main", "ongoing", Refused), Set("main", GoOn),
                         ScheduleEnd("main")>> \o Done)
  BY <1>3, <1>6, Regroup DEF q
<1>8. Built(c, "over", <<Create("main", Refused), ScheduleEnd("main")>> \o Done)  BY <1>3, <1>6, Regroup DEF q
<1>9. Built(c, "over", <<Create("main", Refused), Update("main", "ongoing", Refused),
                         Update("main", "ended", Refused)>> \o Done)
  <2> DEFINE q1 == <<Update("main", "ended", Refused)>> \o Done
             q2 == <<Update("main", "ongoing", Refused)>> \o q1
  <2>1. Built(c, "closing", q1) /\ Listed(q1)  BY <1>1, <1>2, <1>3, RollBackFits, UpdateFits DEF Built
  <2> HIDE DEF q1
  <2>2. Built(c, "closing", q2) /\ Listed(q2)  BY <1>3, <2>1, RollBackFits, ShowsFit DEF Built
  <2> HIDE DEF q2
  <2>3. Built(c, "over", <<Create("main", Refused)>> \o q2)  BY <1>3, <2>2, RollBackFits, ShowsFit
  <2>4. QED  BY <1>3, <2>3, Regroup DEF q1, q2
<1>10. QED  BY <1>3, <1>4, <1>7, <1>8, <1>9 DEF Document, Transcoded, PageChanged, ActionRun

---------------------------------------------------------------------------
(* Radarr and Sonarr.                                                      *)

LEMMA AnnounceFits ==
  ASSUME NEW c, NEW u, NEW s \in Stages, NEW t \in Stages, NEW q, Built(c, t, q),
         Stopped(c, s, t) \/ (s = "any" /\ t = "any")
  PROVE  Built(c, s, Announce(u) \o q)
<1> DEFINE p == When(AllowsNotification(u), <<Push("notice", GoOn)>>)  h == <<StopTimer("main")>>
<1>1. Built(c, t, p \o q) /\ Listed(p)
  <2>1. Built(c, t, <<Push("notice", GoOn)>> \o q)  BY PushFits
  <2>2. Listed(<<Push("notice", GoOn)>>) /\ Listed(q)  BY Solo DEF Built
  <2>3. QED  BY <2>1, <2>2, WhenFits
<1> HIDE DEF p
<1>2. Built(c, s, h \o (p \o q)) /\ Listed(h) /\ Listed(q)  BY <1>1, StopFits, Solo DEF Built
<1> HIDE DEF h
<1>3. Built(c, s, (h \o p) \o q)  BY <1>1, <1>2, Regroup
<1>4. QED  BY <1>3 DEF Announce, p, h

LEMMA CreateFailedFits ==
  ASSUME NEW c, NEW u
  PROVE  LET err == {<<Delete("main")>> \o answer : answer \in CreateFailed(u)}
         IN Fit(c, "any", err) /\ err # GoOn
<1> DEFINE Back(answer) == <<Delete("main")>> \o answer
<1>1. CreateFailed(u) \subseteq {Done, Refuse} /\ Refuse \in CreateFailed(u)  BY DEF CreateFailed, Refused
<1>2. Fit(c, "any", {Back(Done)}) /\ Fit(c, "any", {Back(Refuse)})  BY RollBackFits DEF Built, Fits
<1> HIDE DEF Back
<1>3. Fit(c, "any", {Back(Done)} \union {Back(Refuse)})  BY <1>2, FitsBoth DEF Stages
<1>4. {Back(answer) : answer \in CreateFailed(u)} \subseteq {Back(Done)} \union {Back(Refuse)}
      /\ Back(Refuse) \in {Back(answer) : answer \in CreateFailed(u)}
  BY <1>1
<1>5. Fit(c, "any", {Back(answer) : answer \in CreateFailed(u)})
  BY <1>3, <1>4 DEF Fit
<1>6. {Back(answer) : answer \in CreateFailed(u)} # GoOn  BY <1>4 DEF GoOn
<1>7. QED  BY <1>5, <1>6 DEF Back

LEMMA TrackedFits ==
  ASSUME NEW c, c.service = "starr", NEW u, NEW s \in Stages, NEW r \in Stages, NEW t \in Stages, NEW q, Built(c, t, q),
         \/ s = "any" /\ r = "any" /\ t = "any"
         \/ s = "clear" /\ r = "kept" /\ t = "shown"
         \/ s = "closing" /\ r = "closing" /\ t = "closing"
  PROVE  Built(c, s, Tracked(u) \o q) /\ Listed(Tracked(u))
<1> DEFINE err == {<<Delete("main")>> \o answer : answer \in CreateFailed(u)}
           q1 == <<Create("main", err)>> \o q
<1>1. Fit(c, "any", err) /\ err # GoOn  BY CreateFailedFits
<1> HIDE DEF err
<1>2. c.service \notin Firm /\ "any" \in Stages  BY DEF Firm, Alerting, Stages
<1>3. Created(c, r, t) \/ (r = "any" /\ t = "any")  BY <1>2 DEF Created
<1>4. Built(c, r, q1)  BY <1>1, <1>3, CreateFits
<1> HIDE DEF q1
<1>5. Fit(c, "any", {Done})  BY <1>2, AnswersFit DEF Built, Fits
<1>6. Written1(s, r) \/ (s = "any" /\ r = "any")  BY DEF Written1
<1>7. Built(c, s, <<Set("main", {Done})>> \o q1)  BY <1>4, <1>5, <1>6, SetFits
<1>8. Listed(q)  BY DEF Built
<1>9. Built(c, s, <<Set("main", {Done}), Create("main", err)>> \o q)  BY <1>7, <1>8, Regroup DEF q1
<1>10. Listed(<<Set("main", {Done}), Create("main", err)>>)  BY Tuples
<1>11. Tracked(u) = <<Set("main", {Done}), Create("main", err)>>  BY DEF Tracked, err
<1>12. QED  BY <1>9, <1>10, <1>11

LEMMA GrabFits ==
  ASSUME NEW c, NEW u, NEW b \in BOOLEAN, b => AllowsActivity(u)
  PROVE  /\ c.service = "starr" => Built(c, At(b, "fresh"), Grab(u, FALSE))
         /\ c.service = "starr notifying" => Built(c, "free", Grab(u, TRUE))
<1> DEFINE S(s) == At(b, s)
           update == <<Update("main", "ongoing", Refused)>> \o Done
           new == Tracked(u) \o update
           known == <<Set("main", {Done})>> \o update
           look == <<Get("main", known, new, {new})>>
<1>1. /\ S("fresh") \in Stages /\ S("clear") \in Stages /\ S("kept") \in Stages /\ S("shown") \in Stages
      /\ "any" \in Stages /\ "free" \in Stages
  BY DEF At, Stages
<1>2. Built(c, S("shown"), Done) /\ Built(c, "free", Done) /\ Built(c, "any", Done) /\ Fit(c, "any", {Done})
  BY <1>1, AnswersFit DEF At, Built, Fits
<1>3. ASSUME c.service = "starr" PROVE Built(c, S("fresh"), Grab(u, FALSE))
  <2>1. /\ Updated(c, S("shown"), S("shown")) \/ S("shown") = "any"
        /\ Updated(c, S("kept"), S("shown")) \/ (S("kept") = "any" /\ S("shown") = "any")
        /\ Written1(S("kept"), S("kept")) \/ S("kept") = "any"
        /\ Stopped(c, S("fresh"), S("clear")) \/ (S("fresh") = "any" /\ S("clear") = "any")
    BY <1>3 DEF At, Updated, Created, Written1, Stopped
  <2>2. Built(c, S("shown"), update) /\ Built(c, S("kept"), update)
    BY <1>1, <1>2, <1>3, <2>1, RollBackFits, UpdateFits
  <2> HIDE DEF update
  <2>3. Built(c, S("clear"), new)  BY <1>1, <1>3, <2>2, TrackedFits DEF At
  <2>4. Built(c, S("kept"), known)  BY <1>1, <1>2, <1>3, <2>1, <2>2, SetFits
  <2> HIDE DEF new, known
  <2>5. Fit(c, S("clear"), {new}) /\ {new} # GoOn  BY <2>3 DEF Built, Fits, GoOn
  <2>6. (S("clear") = "clear" /\ S("kept") = "kept") \/ S("clear") = S("kept")  BY DEF At
  <2>7. Built(c, S("clear"), look)  BY <1>1, <2>3, <2>4, <2>5, <2>6, GetFits
  <2> HIDE DEF look
  <2>8. Built(c, S("fresh"), Announce(u) \o look)  BY <1>1, <2>1, <2>7, AnnounceFits
  <2>9. ~AllowsActivity(u) => Built(c, S("fresh"), Announce(u) \o Done)
    <3>1. ~AllowsActivity(u) => S("fresh") = "any"  BY DEF At
    <3>2. Built(c, "any", Announce(u) \o Done)  BY <1>1, <1>2, AnnounceFits
    <3>3. QED  BY <3>1, <3>2
  <2>10. Grab(u, FALSE) = Announce(u) \o (IF ~AllowsActivity(u) THEN Done ELSE look)
    BY DEF Grab, look, known, new, update
  <2>11. QED  BY <2>8, <2>9, <2>10
<1>4. ASSUME c.service = "starr notifying" PROVE Built(c, "free", Grab(u, TRUE))
  <2>1. Stopped(c, "free", "free")  BY <1>4 DEF Stopped
  <2>2. Built(c, "free", Announce(u) \o Done)  BY <1>1, <1>2, <2>1, AnnounceFits
  <2>3. QED  BY <2>2 DEF Grab
<1>5. QED  BY <1>3, <1>4

LEMMA ImportFits ==
  ASSUME NEW c, NEW u, NEW b \in BOOLEAN, b => AllowsActivity(u)
  PROVE  /\ c.service = "starr" => Built(c, At(b, "over"), Import(u, FALSE))
         /\ c.service = "starr notifying" => Built(c, "over", Import(u, TRUE))
<1> DEFINE ending == <<ScheduleEnd("main")>> \o Done
           new == Tracked(u) \o ending
           look == <<Get("main", ending, new, {new})>>
<1>1. {"over", "closing", "any"} \subseteq Stages  BY DEF Stages
<1>2. Built(c, "over", Done) /\ Built(c, "any", Done) /\ Listed(Done)  BY <1>1, AnswersFit
<1>3. ASSUME NEW s \in {"over", "any"}, NEW import, Built(c, s, import)
      PROVE  LET forget == <<Delete("side")>> \o import
             IN Built(c, s, <<Get("side", <<Retract(forget, forget)>>, import, {import})>>)
  <2> DEFINE forget == <<Delete("side")>> \o import
  <2>0. s \in Stages  BY <1>1
  <2>1. Delete("side").do = "delete" /\ Delete("side").key = "side" /\ Delete("side").or = GoOn  BY DEF Delete
  <2>2. Built(c, s, forget)  BY <1>3, <2>1, SideFits
  <2> HIDE DEF forget
  <2>3. Built(c, s, <<Retract(forget, forget)>>)  BY <2>0, <2>2, RetractFits
  <2>4. Fit(c, s, {import}) /\ {import} # GoOn  BY <1>3 DEF Built, Fits, GoOn
  <2>5. QED  BY <1>3, <2>0, <2>3, <2>4, GetFits DEF forget
<1>4. ASSUME c.service = "starr" PROVE Built(c, At(b, "over"), Import(u, FALSE))
  <2>1. \A s \in {"closing", "any"} : Built(c, s, look)
    <3> TAKE s \in {"closing", "any"}
    <3> DEFINE t == IF s = "any" THEN "any" ELSE "over"
    <3>1. s \in Stages /\ t \in Stages /\ Built(c, t, Done)  BY <1>1, <1>2
    <3>2. (s \in {"over", "closing"} /\ t = "over") \/ (s = "any" /\ t = "any")  OBVIOUS
    <3> HIDE DEF t
    <3>3. Built(c, s, ending)  BY <1>4, <3>1, <3>2, EndFits
    <3> HIDE DEF ending
    <3>4. Built(c, s, new)  BY <1>4, <3>1, <3>3, TrackedFits
    <3> HIDE DEF new
    <3>5. Fit(c, s, {new}) /\ {new} # GoOn  BY <3>4 DEF Built, Fits, GoOn
    <3>6. QED  BY <3>1, <3>3, <3>4, <3>5, GetFits
  <2> DEFINE import == Announce(u) \o (IF ~AllowsActivity(u) THEN Done ELSE look)
  <2>2. Built(c, At(b, "over"), import)
    <3> HIDE DEF look
    <3>1. Stopped(c, "over", "closing")  BY <1>4 DEF Stopped, Firm, Alerting
    <3>2. Built(c, "over", Announce(u) \o look)  BY <1>1, <2>1, <3>1, AnnounceFits
    <3>3. Built(c, "any", Announce(u) \o look) /\ Built(c, "any", Announce(u) \o Done)
      BY <1>1, <1>2, <2>1, AnnounceFits
    <3>4. QED  BY <3>2, <3>3 DEF At
  <2>3. At(b, "over") \in {"over", "any"}  BY DEF At
  <2>4. Import(u, FALSE) =
          LET forget == <<Delete("side")>> \o import
          IN <<Get("side", <<Retract(forget, forget)>>, import, {import})>>
    BY DEF Import, import, look, new, ending
  <2> HIDE DEF import
  <2>5. QED  BY <1>3, <2>2, <2>3, <2>4
<1>5. ASSUME c.service = "starr notifying" PROVE Built(c, "over", Import(u, TRUE))
  <2> DEFINE import == Announce(u) \o Done
  <2>1. Stopped(c, "over", "over")  BY <1>5 DEF Stopped
  <2>2. Built(c, "over", import)  BY <1>1, <1>2, <2>1, AnnounceFits
  <2>3. Import(u, TRUE) =
          LET forget == <<Delete("side")>> \o import
          IN <<Get("side", <<Retract(forget, forget)>>, import, {import})>>
    BY DEF Import, import
  <2> HIDE DEF import
  <2>4. QED  BY <1>3, <2>2, <2>3
<1>6. QED  BY <1>4, <1>5

LEMMA ManualFits ==
  ASSUME NEW c, NEW u, NEW b \in BOOLEAN, b => AllowsActivity(u)
  PROVE  /\ c.service = "starr" => Built(c, At(b, "free"), ManualInteraction(u, FALSE))
         /\ c.service = "starr notifying" => Built(c, "free", ManualInteraction(u, TRUE))
<1>1. {"free", "seen", "any"} \subseteq Stages  BY DEF Stages
<1>2. Built(c, "free", Done) /\ Built(c, "any", Done) /\ Listed(Done)  BY <1>1, AnswersFit
<1>3. ASSUME NEW s \in {"free", "any"}, NEW flip, Built(c, s, flip)
      PROVE  Built(c, s, <<Push("notice", {flip})>> \o When(u.retract, <<Set("side", GoOn)>>) \o flip)
  <2> DEFINE p == When(u.retract, <<Set("side", GoOn)>>)  h == <<Push("notice", {flip})>>
  <2>0. s \in Stages /\ Listed(flip)  BY <1>1, <1>3 DEF Built
  <2>1. Built(c, s, p \o flip) /\ Listed(p)
    <3>1. Set("side", GoOn).do = "set" /\ Set("side", GoOn).key = "side" /\ Set("side", GoOn).or = GoOn  BY DEF Set
    <3>2. Built(c, s, <<Set("side", GoOn)>> \o flip)  BY <1>3, <3>1, SideFits
    <3>3. Listed(<<Set("side", GoOn)>>)  BY Solo
    <3>4. QED  BY <1>3, <2>0, <3>2, <3>3, WhenFits
  <2> HIDE DEF p
  <2>2. Push("notice", {flip}).do = "push" /\ Push("notice", {flip}).note = "notice"
        /\ Push("notice", {flip}).or = {flip}
    BY DEF Push
  <2>3. Built(c, "any", flip)  BY <1>3, <2>0, BuiltAny
  <2>4. Fit(c, "any", {flip}) /\ Fit(c, s, {flip})  BY <1>3, <2>3 DEF Built, Fits
  <2>5. Built(c, s, h \o (p \o flip)) /\ Listed(h)  BY <2>0, <2>1, <2>2, <2>4, TellFits, Solo
  <2> HIDE DEF h
  <2>6. QED  BY <2>0, <2>1, <2>5, Regroup DEF h, p
<1>4. ASSUME c.service = "starr" PROVE Built(c, At(b, "free"), ManualInteraction(u, FALSE))
  <2> DEFINE s == At(b, "free")  t == At(b, "seen")
             found == <<StopTimer("main"), Update("main", "ongoing", Refused)>> \o Done
             flip == IF ~AllowsActivity(u) THEN Done ELSE <<Get("main", found, Done, {Done})>>
  <2>1. /\ s \in Stages /\ t \in Stages /\ Built(c, s, Done) /\ Fit(c, s, {Done}) /\ {Done} # GoOn
        /\ s \in {"free", "any"} /\ t \in {"seen", "any"} /\ (s = "any" <=> t = "any")
    BY <1>1, <1>2 DEF At, Built, Fits, GoOn
  <2> HIDE DEF s, t
  <2>2. Built(c, t, found)
    <3> DEFINE q == <<Update("main", "ongoing", Refused)>> \o Done
    <3>1. Updated(c, s, s) \/ s = "any"  BY <1>4, <2>1 DEF Updated
    <3>2. Built(c, s, q)  BY <1>4, <2>1, <3>1, RollBackFits, UpdateFits
    <3> HIDE DEF q
    <3>3. Stopped(c, t, s) \/ (s = "any" /\ t = "any")  BY <1>4, <2>1 DEF Stopped
    <3>4. Built(c, t, <<StopTimer("main")>> \o q)  BY <2>1, <3>2, <3>3, StopFits
    <3>5. QED  BY <1>2, <3>4, Regroup DEF q
  <2> HIDE DEF found
  <2>3. Built(c, s, <<Get("main", found, Done, {Done})>>)
    <3>1. t = s \/ (s = "free" /\ t = "seen" /\ c.service = "starr")  BY <1>4, <2>1
    <3>2. QED  BY <2>1, <2>2, <3>1, GetFits
  <2>4. Built(c, s, flip)  BY <2>1, <2>3
  <2>5. ManualInteraction(u, FALSE) =
          IF ~AllowsNotification(u) THEN flip
          ELSE <<Push("notice", {flip})>> \o When(u.retract, <<Set("side", GoOn)>>) \o flip
    BY DEF ManualInteraction, flip, found
  <2> HIDE DEF flip
  <2>6. Built(c, s, ManualInteraction(u, FALSE))  BY <1>3, <2>1, <2>4, <2>5
  <2>7. QED  BY <2>6 DEF s
<1>5. ASSUME c.service = "starr notifying" PROVE Built(c, "free", ManualInteraction(u, TRUE))
  <2>1. ManualInteraction(u, TRUE) =
          IF ~AllowsNotification(u) THEN Done
          ELSE <<Push("notice", {Done})>> \o When(u.retract, <<Set("side", GoOn)>>) \o Done
    BY DEF ManualInteraction
  <2>2. QED  BY <1>2, <1>3, <2>1
<1>6. QED  BY <1>4, <1>5

---------------------------------------------------------------------------
(* The stage at which the handler of a webhook begins.                     *)

\* Its services can do without the activities.
Unconcerned(c) == c.service \in Alerting \union {"starr"} /\ ~c.shows

Opening(c, says) ==
  IF Unconcerned(c) THEN "any"
  ELSE IF says = "off" THEN "over"
  ELSE IF says = "nothing" THEN "aside"
  ELSE IF says = "unsure" \/ ~c.shows \/ c.service = "starr notifying" THEN "free"
  ELSE "fresh"

Said(c, w) ==
  /\ w = [says |-> w.says, plan |-> w.plan] /\ w.says \in {"alert", "on", "off", "unsure", "nothing"}
  /\ Fits(c, Opening(c, w.says), w.plan)

LEMMA SaidEach ==
  ASSUME NEW c, NEW plan
  PROVE  /\ Built(c, Opening(c, "alert"), plan) => Said(c, Alerts(plan))
         /\ Built(c, Opening(c, "on"), plan) => Said(c, On(plan))
         /\ Built(c, Opening(c, "off"), plan) => Said(c, Off(plan))
         /\ Built(c, Opening(c, "unsure"), plan) => Said(c, Perhaps(plan))
         /\ Built(c, Opening(c, "nothing"), plan) => Said(c, Aside(plan))
BY DEF Built, Said, Alerts, On, Off, Perhaps, Aside

LEMMA AlertingSaid ==
  ASSUME NEW c, c.service \in Alerting, NEW u, c.shows \in BOOLEAN, c.shows => AllowsActivity(u),
         NEW w \in {Alerts(Alert(u)), On(Pending(u)), Off(Resolved(u)), Aside(OneShot(u)), Aside(SendTest)}
  PROVE  Said(c, w)
<1>1. /\ Opening(c, "alert") = At(c.shows, "fresh") /\ Opening(c, "on") = At(c.shows, "fresh")
      /\ Opening(c, "off") = At(c.shows, "over") /\ Opening(c, "nothing") \in {"any", "aside"}
  BY DEF Opening, Unconcerned, At, Alerting
<1>2. /\ Built(c, Opening(c, "alert"), Alert(u)) /\ Built(c, Opening(c, "on"), Pending(u))
      /\ Built(c, Opening(c, "off"), Resolved(u))
  BY <1>1, AlertFits, PendingFits, ResolvedFits
<1>3. Built(c, Opening(c, "nothing"), OneShot(u)) /\ Built(c, Opening(c, "nothing"), SendTest)
  BY <1>1, AsideFits
<1>4. QED  BY <1>2, <1>3, SaidEach

LEMMA UniversalSaid ==
  ASSUME NEW c, c.service \in UniversalKinds, NEW u, c.shows \in BOOLEAN, c.shows => AllowsActivity(u),
         NEW w \in UniversalWebhooks(u, c.service)
  PROVE  Said(c, w)
<1>1. ~Unconcerned(c) /\ c.service # "starr notifying"  BY DEF Unconcerned, UniversalKinds, Alerting
<1>2. /\ Opening(c, "alert") = (IF c.shows THEN "fresh" ELSE "free")
      /\ Opening(c, "on") = (IF c.shows THEN "fresh" ELSE "free")
      /\ Opening(c, "unsure") = "free" /\ Opening(c, "off") = "over" /\ Opening(c, "nothing") = "aside"
  BY <1>1 DEF Opening
<1>3. Built(c, Opening(c, "alert"), Ongoing(u, c.service)) /\ Built(c, Opening(c, "on"), Ongoing(u, c.service))
  BY <1>2, OngoingFits
<1>4. Built(c, Opening(c, "unsure"), Bookkeeping(u, c.service))  BY <1>2, BookkeepingFits
<1>5. Built(c, Opening(c, "off"), End(u, c.service))  BY <1>2, UniversalEndFits
<1>6. Built(c, Opening(c, "nothing"), NotifyOnly(u))  BY <1>2, NotifyOnlyFits
<1>7. QED  BY <1>3, <1>4, <1>5, <1>6, SaidEach DEF UniversalWebhooks

LEMMA BackupSaid ==
  ASSUME NEW c, NEW u, c.shows \in BOOLEAN, c.shows => AllowsActivity(u)
  PROVE  /\ c.service = "proxmox" => \A w \in ProxmoxWebhooks(u) : Said(c, w)
         /\ c.service = "backrest" => \A w \in BackrestWebhooks(u) : Said(c, w)
         /\ c.service = "overseerr" => \A w \in OverseerrWebhooks(u) : Said(c, w)
<1> SUFFICES ASSUME c.service \in {"proxmox", "backrest", "overseerr"} PROVE
         /\ c.service = "proxmox" => \A w \in ProxmoxWebhooks(u) : Said(c, w)
         /\ c.service = "backrest" => \A w \in BackrestWebhooks(u) : Said(c, w)
         /\ c.service = "overseerr" => \A w \in OverseerrWebhooks(u) : Said(c, w)
  OBVIOUS
<1> DEFINE s == Opening(c, "on")
<1>1. ~Unconcerned(c) /\ c.service # "starr notifying"  BY DEF Unconcerned, Alerting
<1>2. /\ s \in {"fresh", "free"} /\ (~c.shows => s = "free")
      /\ Opening(c, "off") = "over" /\ Opening(c, "nothing") = "aside"
  BY <1>1 DEF Opening
<1> HIDE DEF s
<1>3. /\ Built(c, "aside", Fencing(u)) /\ Built(c, "aside", SystemMail(u)) /\ Built(c, "aside", SendTest)
      /\ \A problem : Built(c, "aside", BackrestAlert(u, problem))
      /\ Built(c, "aside", NotifyOnly(u)) /\ Built(c, "aside", IssueResolved(u))
  BY AsideFits, NotifyOnlyFits
<1>4. ASSUME c.service = "proxmox", NEW w \in ProxmoxWebhooks(u) PROVE Said(c, w)
  <2>1. Built(c, s, Starting(u)) /\ Built(c, "over", Finished(u))  BY <1>2, <1>4, StartingFits, FinishedFits
  <2>2. w \in {On(Starting(u)), Off(Finished(u)), Aside(Fencing(u)), Aside(SystemMail(u)), Aside(SendTest)}
    BY <1>4 DEF ProxmoxWebhooks, ReplicationStarting, ReplicationFinished, Updates
  <2>3. QED  BY <1>2, <1>3, <2>1, <2>2, SaidEach DEF s
<1>5. ASSUME c.service = "backrest", NEW w \in BackrestWebhooks(u) PROVE Said(c, w)
  <2>1. Built(c, s, BackrestStart(u)) /\ \A problem : Built(c, "over", BackrestEnd(u, problem))
    BY <1>2, <1>5, BackrestFits
  <2>2. \/ w = On(BackrestStart(u))
        \/ \E problem \in BOOLEAN : w \in {Off(BackrestEnd(u, problem)), Aside(BackrestAlert(u, problem))}
    BY <1>5 DEF BackrestWebhooks
  <2>3. QED  BY <1>2, <1>3, <2>1, <2>2, SaidEach DEF s
<1>6. ASSUME c.service = "overseerr", NEW w \in OverseerrWebhooks(u) PROVE Said(c, w)
  <2>1. Built(c, s, MediaEvent(u, FALSE)) /\ Built(c, "over", MediaEvent(u, TRUE))  BY <1>2, <1>6, MediaFits
  <2>2. w \in {On(MediaEvent(u, FALSE)), Off(MediaEvent(u, TRUE)), Aside(NotifyOnly(u)),
               Aside(IssueResolved(u)), Aside(SendTest)}
    BY <1>6 DEF OverseerrWebhooks
  <2>3. QED  BY <1>2, <1>3, <2>1, <2>2, SaidEach DEF s
<1>7. QED  BY <1>4, <1>5, <1>6

\* The webhooks of the services that raise no alerts.
LEMMA WebhooksOfOthers ==
  ASSUME NEW u
  PROVE  /\ Webhooks("proxmox", u) = ProxmoxWebhooks(u)
         /\ Webhooks("backrest", u) = BackrestWebhooks(u)
         /\ Webhooks("overseerr", u) = OverseerrWebhooks(u)
         /\ Webhooks("paperless", u) = PaperlessWebhooks(u)
         /\ Webhooks("unmanic", u) = UnmanicWebhooks(u)
         /\ Webhooks("changedetection", u) = ChangedetectionWebhooks(u)
         /\ Webhooks("bazarr", u) = BazarrWebhooks(u)
         /\ Webhooks("jellyfin", u) = JellyfinWebhooks(u)
         /\ Webhooks("prowlarr", u) = ProwlarrWebhooks(u)
         /\ Webhooks("forgejo", u) = ForgejoWebhooks(u)
         /\ Webhooks("starr", u) = RadarrWebhooks(u, FALSE) \union SonarrWebhooks(u, FALSE)
         /\ Webhooks("starr notifying", u) = RadarrWebhooks(u, TRUE) \union SonarrWebhooks(u, TRUE)
<1>1. Webhooks("proxmox", u) = ProxmoxWebhooks(u)  BY Zenon DEF Webhooks, UniversalKinds
<1>2. Webhooks("backrest", u) = BackrestWebhooks(u)  BY Zenon DEF Webhooks, UniversalKinds
<1>3. Webhooks("overseerr", u) = OverseerrWebhooks(u)  BY Zenon DEF Webhooks, UniversalKinds
<1>4. Webhooks("paperless", u) = PaperlessWebhooks(u)  BY Zenon DEF Webhooks, UniversalKinds
<1>5. Webhooks("unmanic", u) = UnmanicWebhooks(u)  BY Zenon DEF Webhooks, UniversalKinds
<1>6. Webhooks("changedetection", u) = ChangedetectionWebhooks(u)  BY Zenon DEF Webhooks, UniversalKinds
<1>7. Webhooks("bazarr", u) = BazarrWebhooks(u)  BY Zenon DEF Webhooks, UniversalKinds
<1>8. Webhooks("jellyfin", u) = JellyfinWebhooks(u)  BY Zenon DEF Webhooks, UniversalKinds
<1>9. Webhooks("prowlarr", u) = ProwlarrWebhooks(u)  BY Zenon DEF Webhooks, UniversalKinds
<1>10. Webhooks("forgejo", u) = ForgejoWebhooks(u)  BY Zenon DEF Webhooks, UniversalKinds
<1>11. Webhooks("starr", u) = RadarrWebhooks(u, FALSE) \union SonarrWebhooks(u, FALSE)  BY Zenon DEF Webhooks, UniversalKinds
<1>12. Webhooks("starr notifying", u) = RadarrWebhooks(u, TRUE) \union SonarrWebhooks(u, TRUE)  BY Zenon DEF Webhooks, UniversalKinds
<1>13. QED  BY <1>1, <1>2, <1>3, <1>4, <1>5, <1>6, <1>7, <1>8, <1>9, <1>10, <1>11, <1>12

LEMMA StarrSaid ==
  \A c, u, w :
    /\ c.service \in {"starr", "starr notifying"} /\ c.shows \in BOOLEAN /\ (c.shows => AllowsActivity(u))
    /\ w \in Webhooks(c.service, u)
    => Said(c, w)
<1> TAKE c, u, w
<1> HAVE /\ c.service \in {"starr", "starr notifying"} /\ c.shows \in BOOLEAN /\ (c.shows => AllowsActivity(u))
         /\ w \in Webhooks(c.service, u)
<1>0. /\ c.service = "starr" => w \in RadarrWebhooks(u, FALSE) \union SonarrWebhooks(u, FALSE)
      /\ c.service = "starr notifying" => w \in RadarrWebhooks(u, TRUE) \union SonarrWebhooks(u, TRUE)
  BY WebhooksOfOthers
<1>1. ASSUME NEW notifies \in BOOLEAN, w \in RadarrWebhooks(u, notifies) \union SonarrWebhooks(u, notifies)
      PROVE  w \in {On(Grab(u, notifies)), Off(Import(u, notifies)), Perhaps(ManualInteraction(u, notifies)),
                    Aside(NotifyOnly(u)), Aside(IssueResolved(u)), Aside(SendTest)}
  BY <1>1 DEF RadarrWebhooks, SonarrWebhooks, RadarrGrab, RadarrDownload, SonarrGrab, SonarrDownload,
              RadarrManualInteraction, SonarrManualInteraction, Health, HealthRestored, ApplicationUpdate,
              RadarrNotice, SonarrNotice
<1>2. \A s \in {"any", "aside"} :
        Built(c, s, NotifyOnly(u)) /\ Built(c, s, IssueResolved(u)) /\ Built(c, s, SendTest)
  BY AsideFits, NotifyOnlyFits
<1>3. CASE c.service = "starr"
  <2>1. /\ Opening(c, "on") = At(c.shows, "fresh") /\ Opening(c, "off") = At(c.shows, "over")
        /\ Opening(c, "unsure") = At(c.shows, "free") /\ Opening(c, "nothing") \in {"any", "aside"}
    BY <1>3 DEF Opening, Unconcerned, At
  <2>2. /\ Built(c, Opening(c, "on"), Grab(u, FALSE)) /\ Built(c, Opening(c, "off"), Import(u, FALSE))
        /\ Built(c, Opening(c, "unsure"), ManualInteraction(u, FALSE))
    BY <1>3, <2>1, GrabFits, ImportFits, ManualFits
  <2>3. QED  BY <1>0, <1>1, <1>2, <1>3, <2>1, <2>2, SaidEach
<1>4. CASE c.service = "starr notifying"
  <2>1. /\ Opening(c, "on") = "free" /\ Opening(c, "off") = "over"
        /\ Opening(c, "unsure") = "free" /\ Opening(c, "nothing") = "aside"
    BY <1>4 DEF Opening, Unconcerned, Alerting
  <2>2. /\ Built(c, Opening(c, "on"), Grab(u, TRUE)) /\ Built(c, Opening(c, "off"), Import(u, TRUE))
        /\ Built(c, Opening(c, "unsure"), ManualInteraction(u, TRUE))
    BY <1>4, <2>1, GrabFits, ImportFits, ManualFits
  <2>3. QED  BY <1>0, <1>1, <1>2, <1>4, <2>1, <2>2, SaidEach
<1>5. QED  BY <1>3, <1>4

\* The services that only tell of what is over, or only notify.
LEMMA OthersSaid ==
  ASSUME NEW c, NEW u, c.service \in {"paperless", "unmanic", "changedetection", "bazarr", "jellyfin", "prowlarr", "forgejo"},
         NEW w \in PaperlessWebhooks(u) \union UnmanicWebhooks(u) \union ChangedetectionWebhooks(u)
           \union BazarrWebhooks(u) \union JellyfinWebhooks(u) \union ProwlarrWebhooks(u) \union ForgejoWebhooks(u)
  PROVE  Said(c, w)
<1>1. ~Unconcerned(c) /\ Plain(c)  BY DEF Unconcerned, Plain, Firm, Alerting
<1>2. Opening(c, "off") = "over" /\ Opening(c, "nothing") = "aside"  BY <1>1 DEF Opening
<1>3. /\ Built(c, "over", Document(u)) /\ Built(c, "over", Transcoded(u))
      /\ Built(c, "over", PageChanged(u)) /\ Built(c, "over", ActionRun(u))
  BY <1>1, OnceFits
<1>4. /\ Built(c, "aside", ConsumptionStarted(u)) /\ Built(c, "aside", SendTest)
      /\ Built(c, "aside", NotifyOnly(u)) /\ Built(c, "aside", IssueResolved(u))
  BY AsideFits, NotifyOnlyFits
<1>5. \/ w \in {Off(Document(u)), Off(Transcoded(u)), Off(PageChanged(u)), Off(ActionRun(u))}
      \/ w \in {Aside(ConsumptionStarted(u)), Aside(SendTest), Aside(NotifyOnly(u)), Aside(IssueResolved(u))}
  BY DEF PaperlessWebhooks, UnmanicWebhooks, ChangedetectionWebhooks, BazarrWebhooks, JellyfinWebhooks,
         ProwlarrWebhooks, ForgejoWebhooks, Subtitle, ItemAdded, TaskStarted, TaskCompleted, AuthFailure,
         ProwlarrGrab, Health, HealthRestored, ApplicationUpdate
<1>6. QED  BY <1>2, <1>3, <1>4, <1>5, SaidEach

\* Every webhook of every service, whatever its URL asks for.
LEMMA WebhookFits ==
  ASSUME NEW c, c.service \in Providers, NEW u, c.shows \in BOOLEAN, c.shows => AllowsActivity(u),
         NEW w \in Webhooks(c.service, u)
  PROVE  Said(c, w)
<1>1. CASE c.service \in Alerting
  <2>1. w \in KomodoWebhooks(u) \union UptimeKumaWebhooks(u) \union GatusWebhooks(u) \union TrueNASWebhooks(u)
    BY <1>1, WebhooksOf DEF Alerting
  <2>2. w \in {Alerts(Alert(u)), On(Pending(u)), Off(Resolved(u)), Aside(OneShot(u)), Aside(SendTest)}
    BY <2>1 DEF KomodoWebhooks, UptimeKumaWebhooks, GatusWebhooks, TrueNASWebhooks, Down, Triggered, CreateAlert,
                Up, GatusResolved, Clear
  <2>3. QED  BY <1>1, <2>2, AlertingSaid
<1>2. CASE c.service \in UniversalKinds
  <2>1. Webhooks(c.service, u) = UniversalWebhooks(u, c.service)
    <3>1. c.service \notin {"komodo", "uptimekuma", "gatus", "truenas", "proxmox", "backrest", "overseerr", "paperless",
            "unmanic", "changedetection", "bazarr", "jellyfin", "forgejo", "prowlarr", "starr", "starr notifying"}
      BY <1>2 DEF UniversalKinds
    <3>2. QED  BY <1>2, <3>1, Zenon DEF Webhooks
  <2>2. QED  BY <1>2, <2>1, UniversalSaid
<1>3. CASE c.service \in {"proxmox", "backrest", "overseerr"}
  <2>1. /\ c.service = "proxmox" => w \in ProxmoxWebhooks(u)
        /\ c.service = "backrest" => w \in BackrestWebhooks(u)
        /\ c.service = "overseerr" => w \in OverseerrWebhooks(u)
    BY WebhooksOfOthers
  <2>2. QED  BY <1>3, <2>1, BackupSaid
<1>4. CASE c.service \in {"starr", "starr notifying"}
  BY <1>4, StarrSaid
<1>5. CASE c.service \in {"paperless", "unmanic", "changedetection", "bazarr", "jellyfin", "prowlarr", "forgejo"}
  <2>1. w \in PaperlessWebhooks(u) \union UnmanicWebhooks(u) \union ChangedetectionWebhooks(u)
          \union BazarrWebhooks(u) \union JellyfinWebhooks(u) \union ProwlarrWebhooks(u) \union ForgejoWebhooks(u)
    BY <1>5, WebhooksOfOthers
  <2>2. QED  BY <1>5, <2>1, OthersSaid
<1>6. QED  BY <1>1, <1>2, <1>3, <1>4, <1>5 DEF Providers

---------------------------------------------------------------------------
(* The invariant: every handler is at a stage that what it has left fits,  *)
(* and while nothing has gone wrong that the service need not survive, the *)
(* card is what the stages say.                                            *)

NoEnd == end["main"] = "none" /\ callback["main"] = "none"

Sound ==
  /\ ~raced /\ hurt \subseteq Survives[provider]
  /\ provider \in Alerting \union {"starr"} => AllActivity

\* What a handler at stage s can rely on.
Knows(s) ==
  /\ s # "any"
  /\ s \in {"clear", "kept", "up", "shown"} => NoEnd
  /\ s \in {"kept", "shown"} => row["main"]
  /\ s \in {"up", "shown"} => card["main"] = "ongoing"
  /\ s = "seen" => card["main"] # "ongoing" \/ row["main"]

\* The stages that a handler of a webhook can be at.
Voiced(says, s) ==
  /\ says = "off" <=> s \in {"over", "closing"}
  /\ says = "nothing" <=> s = "aside"
  /\ says \in {"alert", "on"} /\ AllActivity /\ provider # "starr notifying" => s \notin {"free", "seen"}
  /\ s = "seen" => provider = "starr" /\ says = "unsure"
  /\ provider = "starr" /\ says = "unsure" => s \in {"free", "seen"}
  /\ s = "closing" => provider \notin Firm

\* The stages of which a handler will write the row, or end the card.
Pledges ==
  IF provider \in Alerting THEN {}
  ELSE IF provider = "proxmox" THEN {"up"} ELSE {"clear", "up", "closing"}

\* The card that is up has a row, or a handler that will see to it, or an end.
Held(pledged) ==
  card["main"] = "ongoing" => row["main"] \/ pledged \/ (provider \notin Firm /\ end["main"] # "none")

\* A callback that has ended the card ends it for good, unless another
\* handler is to end it again.
Shut(closing) ==
  /\ callback["main"] = "row" => card["main"] # "ongoing" \/ closing
  /\ callback["main"] # "none" => end["main"] = "running"
  /\ provider = "starr notifying" => card["main"] # "ongoing"

\* What has been answered 200 stays up until its end is told.
StillUp ==
  /\ hurt \subseteq {"read"} /\ AllActivity /\ provider \notin {"backrest", "starr notifying"}
  /\ last \in {"alert", "on"} /\ \A h \in Handlers : handler[h].says \notin {"off", "unsure"}
  => card["main"] = "ongoing" /\ NoEnd

Stands(st) ==
  /\ \A g \in Handlers : Knows(st[g]) /\ Voiced(handler[g].says, st[g])
  /\ Held(\E g \in Handlers : st[g] \in Pledges) /\ Shut(\E g \in Handlers : st[g] = "closing") /\ StillUp

Staged(st) ==
  /\ \A h \in Handlers : Fits(Setting, st[h], handler[h].plan)
  /\ Sound => Stands(st)

KInv ==
  /\ TypeOK /\ Typed /\ OneVoice /\ provider \in Providers
  /\ \E st \in [Handlers -> Stages] : Staged(st)

\* The faults that each service survives.
LEMMA Survived ==
  ASSUME provider \in Providers, UNCHANGED provider, NEW kind, Fault(kind), Sound'
  PROVE  /\ kind \notin {"write", "lostEnd"} /\ (kind = "call" => provider = "proxmox")
         /\ kind = "crash" => provider \in Alerting
<1>1. kind \in Survives[provider]  BY DEF Fault, Sound
<1>2. Survives[provider] = CASE provider \in Alerting -> {"read", "crash"}
                             [] provider = "proxmox" -> {"read", "call"} [] OTHER -> {"read"}
  BY DEF Survives
<1>3. "proxmox" \notin Alerting  BY DEF Alerting
<1>4. CASE provider \in Alerting
  <2>1. Survives[provider] = {"read", "crash"}  BY <1>2, <1>3, <1>4
  <2>2. QED  BY <1>1, <1>4, <2>1
<1>5. CASE provider = "proxmox"
  <2>1. Survives[provider] = {"read", "call"}  BY <1>2, <1>3, <1>5
  <2>2. QED  BY <1>1, <1>5, <2>1
<1>6. CASE provider \notin Alerting /\ provider # "proxmox"
  <2>1. Survives[provider] = {"read"}  BY <1>2, <1>6
  <2>2. QED  BY <1>1, <2>1
<1>7. QED  BY <1>4, <1>5, <1>6

LEMMA QuietSaysNothing == Quiet => \A g \in Handlers : handler[g].says = "nothing"
<1>1. Quiet => \A g \in Handlers : handler[g] = Idle  BY DEF Quiet, Busy
<1>2. QED  BY <1>1 DEF Idle

\* What the properties ask of the card while no handler runs.
LEMMA KeepsCard == ASSUME KInv PROVE CardKept
<1>1. PICK st \in [Handlers -> Stages] : Staged(st)  BY DEF KInv
<1>2. TypeOK  BY DEF KInv
<1>3. NotStranded
  <2> SUFFICES ASSUME Quiet, Sound, card["main"] = "ongoing"
               PROVE  row["main"] \/ end["main"] # "none"
    BY DEF NotStranded, Sound
  <2>1. Stands(st)  BY <1>1 DEF Staged
  <2>2. \A g \in Handlers : handler[g].says = "nothing"  BY QuietSaysNothing
  <2>3. \A g \in Handlers : st[g] = "aside"  BY <2>1, <2>2 DEF Stands, Voiced
  <2>4. ~(\E g \in Handlers : st[g] \in Pledges)  BY <2>3 DEF Pledges
  <2>5. QED  BY <2>1, <2>4 DEF Stands, Held
<1>4. StaysShown
  <2> SUFFICES ASSUME Quiet, ~raced, last \in {"alert", "on"}, hurt \subseteq {"read"}, AllActivity,
                      provider \notin {"backrest", "starr notifying"}
               PROVE  card["main"] = "ongoing"
    BY DEF StaysShown
  <2>1. "read" \in Survives[provider]  BY DEF KInv, Survives
  <2>2. Sound  BY <2>1 DEF Sound
  <2>3. StillUp  BY <1>1, <2>2 DEF Staged, Stands
  <2>4. \A g \in Handlers : handler[g].says = "nothing"  BY QuietSaysNothing
  <2>5. QED  BY <2>3, <2>4 DEF StillUp
<1>5. QED  BY <1>2, <1>3, <1>4 DEF CardKept

LEMMA StartsKept == ASSUME Init PROVE KInv
<1>1. /\ handler = [h \in Handlers |-> Idle] /\ provider \in Providers
      /\ row = [k \in Keys |-> FALSE] /\ end = [k \in Keys |-> "none"]
      /\ callback = [k \in Keys |-> "none"] /\ card = [k \in Keys |-> "none"]
      /\ repeats = FALSE /\ note = "none" /\ last = "nothing" /\ hurt = {} /\ raced = FALSE
  BY DEF Init
<1>2. \A h \in Handlers : handler[h] = Idle /\ handler[h].says = "nothing" /\ handler[h].plan = <<>>
  BY <1>1 DEF Idle
<1>3. Typed
  <2>1. handler = [h \in Handlers |-> [says |-> handler[h].says, plan |-> handler[h].plan]]
    BY <1>1 DEF Idle
  <2>2. QED  BY <1>1, <2>1 DEF Typed
<1>4. TypeOK  BY <1>1, <1>2 DEF TypeOK
<1>5. OneVoice  BY <1>2 DEF OneVoice, Busy
<1> DEFINE st == [h \in Handlers |-> "aside"]
<1>6. "aside" \in Stages /\ st \in [Handlers -> Stages] /\ \A h \in Handlers : st[h] = "aside"  BY DEF Stages
<1> HIDE DEF st
<1>7. \A h \in Handlers : Fits(Setting, st[h], handler[h].plan)  BY <1>2, <1>6, FitsNothing
<1>8. Stands(st)
  <2>1. \A h \in Handlers : Knows(st[h]) /\ Voiced(handler[h].says, st[h])
    BY <1>2, <1>6 DEF Knows, Voiced
  <2>2. card["main"] = "none" /\ callback["main"] = "none"  BY <1>1, KeysNamed
  <2>3. QED  BY <1>1, <2>1, <2>2 DEF Stands, Held, Shut, StillUp
<1>9. QED  BY <1>1, <1>3, <1>4, <1>5, <1>6, <1>7, <1>8 DEF KInv, Staged

---------------------------------------------------------------------------
(* A handler's step to another stage.                                      *)

\* A handler goes on with q at stage t.
LEMMA GoesTo ==
  ASSUME Typed, OneVoice, provider \in Providers, TypeOK', hurt \subseteq hurt', raced => raced',
         NEW st \in [Handlers -> Stages], Staged(st),
         NEW h \in Handlers, NEW q, Takes(h, q), NEW t \in Stages, Fits(Setting, t, q),
         Sound' /\ Sound /\ Stands(st) =>
           /\ Knows(t)' /\ Voiced(handler[h].says, t)
           /\ \A g \in Handlers \ {h} : Knows(st[g])'
           /\ Held(t \in Pledges \/ \E g \in Handlers \ {h} : st[g] \in Pledges)'
           /\ Shut(t = "closing" \/ \E g \in Handlers \ {h} : st[g] = "closing")'
           /\ StillUp'
  PROVE  KInv'
<1>1. /\ handler' = [g \in Handlers |-> [says |-> handler'[g].says, plan |-> handler'[g].plan]]
      /\ handler'[h].plan = q /\ OneVoice' /\ Setting' = Setting /\ (AllActivity' <=> AllActivity)
      /\ \A g \in Handlers : handler'[g].says = handler[g].says
      /\ \A g \in Handlers : g # h => handler'[g] = handler[g]
  BY Moved
<1>2. provider' = provider  BY DEF Takes, config
<1>3. Typed'  BY <1>1 DEF Typed, TypeOK
<1> DEFINE ns == [st EXCEPT ![h] = t]
<1>4. ns \in [Handlers -> Stages] /\ ns[h] = t /\ \A g \in Handlers : g # h => ns[g] = st[g]  OBVIOUS
<1> HIDE DEF ns
<1>5. \A g \in Handlers : Fits(Setting', ns[g], handler'[g].plan)
  <2> TAKE g \in Handlers
  <2>1. CASE g = h  BY <1>1, <1>4, <2>1
  <2>2. CASE g # h
    <3>1. Fits(Setting, st[g], handler[g].plan)  BY DEF Staged
    <3>2. QED  BY <1>1, <1>4, <2>2, <3>1
  <2>3. QED  BY <2>1, <2>2
<1>6. ASSUME Sound' PROVE Stands(ns)'
  <2>1. Sound  BY <1>1, <1>2, <1>6 DEF Sound
  <2>2. Stands(st)  BY <2>1 DEF Staged
  <2>3. Pledges' = Pledges  BY <1>2 DEF Pledges
  <2>5. ASSUME NEW g \in Handlers PROVE (Knows(ns[g]) /\ Voiced(handler[g].says, ns[g]))'
    <3>0. handler'[g].says = handler[g].says  BY <1>1
    <3>1. Knows(ns[g])' /\ Voiced(handler[g].says, ns[g])
      <4>1. CASE g = h
        <5>1. Knows(t)' /\ Voiced(handler[h].says, t)  BY <1>6, <2>1, <2>2
        <5>2. QED  BY <1>4, <4>1, <5>1 DEF Knows, Voiced
      <4>2. CASE g # h
        <5>1. Knows(st[g])' /\ Voiced(handler[g].says, st[g])  BY <1>6, <2>1, <2>2, <4>2 DEF Stands
        <5>2. QED  BY <1>4, <4>2, <5>1 DEF Knows, Voiced
      <4>3. QED  BY <4>1, <4>2
    <3>2. QED  BY <1>1, <1>2, <3>0, <3>1 DEF Voiced
  <2>6. (\E g \in Handlers : ns[g] \in Pledges)'
        <=> (t \in Pledges \/ \E g \in Handlers \ {h} : st[g] \in Pledges)'
    BY <1>4, <2>3
  <2>7. (\E g \in Handlers : ns[g] = "closing") <=> (t = "closing" \/ \E g \in Handlers \ {h} : st[g] = "closing")
    BY <1>4
  <2>8. Held(\E g \in Handlers : ns[g] \in Pledges)'
    <3>1. Held(t \in Pledges \/ \E g \in Handlers \ {h} : st[g] \in Pledges)'  BY <1>6, <2>1, <2>2
    <3>2. QED  BY <2>6, <3>1 DEF Held
  <2>9. Shut(\E g \in Handlers : ns[g] = "closing")'
    <3>1. Shut(t = "closing" \/ \E g \in Handlers \ {h} : st[g] = "closing")'  BY <1>6, <2>1, <2>2
    <3>2. QED  BY <2>7, <3>1 DEF Shut
  <2>10. StillUp'  BY <1>6, <2>1, <2>2
  <2>11. QED  BY <2>5, <2>8, <2>9, <2>10 DEF Stands, Held, Shut
<1>7. Staged(ns)'  BY <1>5, <1>6 DEF Staged
<1>8. QED  BY <1>1, <1>2, <1>3, <1>4, <1>7 DEF KInv

MainSame ==
  /\ row'["main"] = row["main"] /\ end'["main"] = end["main"]
  /\ callback'["main"] = callback["main"] /\ card'["main"] = card["main"]

\* The same with nothing changed for "main" but the stage.
LEMMA StageTo ==
  ASSUME Typed, OneVoice, provider \in Providers, TypeOK', hurt \subseteq hurt', raced => raced',
         NEW st \in [Handlers -> Stages], Staged(st), MainSame, last' = last,
         NEW h \in Handlers, NEW q, Takes(h, q), NEW t \in Stages, Fits(Setting, t, q),
         Sound' /\ Sound /\ Stands(st) =>
           \/ t = st[h]
           \/ /\ Knows(t) /\ Voiced(handler[h].says, t)
              /\ st[h] \in Pledges /\ card["main"] = "ongoing" => t \in Pledges \/ row["main"]
              /\ st[h] = "closing" => card["main"] # "ongoing"
  PROVE  KInv'
<1>1. provider' = provider /\ (AllActivity' <=> AllActivity) /\ \A g \in Handlers : handler'[g].says = handler[g].says
  BY Moved DEF Takes, config
<1>2. Pledges' = Pledges  BY <1>1 DEF Pledges
<1>3. NoEnd' <=> NoEnd  BY DEF MainSame, NoEnd
<1>4. \A s : Knows(s)' <=> Knows(s)  BY <1>3 DEF MainSame, Knows
<1>5. StillUp => StillUp'
  <2>1. hurt' \subseteq {"read"} => hurt \subseteq {"read"}  OBVIOUS
  <2>2. QED  BY <1>1, <1>3, <2>1 DEF StillUp, MainSame
<1>6. ASSUME Sound', Sound, Stands(st)
      PROVE  /\ Knows(t)' /\ Voiced(handler[h].says, t)
             /\ \A g \in Handlers \ {h} : Knows(st[g])'
             /\ Held(t \in Pledges \/ \E g \in Handlers \ {h} : st[g] \in Pledges)'
             /\ Shut(t = "closing" \/ \E g \in Handlers \ {h} : st[g] = "closing")'
             /\ StillUp'
  <2>1. /\ \A g \in Handlers : Knows(st[g]) /\ Voiced(handler[g].says, st[g])
        /\ Held(\E g \in Handlers : st[g] \in Pledges) /\ Shut(\E g \in Handlers : st[g] = "closing") /\ StillUp
    BY <1>6 DEF Stands
  <2>2. \/ t = st[h]
        \/ /\ Knows(t) /\ Voiced(handler[h].says, t)
           /\ st[h] \in Pledges /\ card["main"] = "ongoing" => t \in Pledges \/ row["main"]
           /\ st[h] = "closing" => card["main"] # "ongoing"
    BY <1>6
  <2>3. Knows(t)' /\ Voiced(handler[h].says, t)  BY <1>4, <2>1, <2>2
  <2>4. \A g \in Handlers \ {h} : Knows(st[g])'  BY <1>4, <2>1
  <2>5. Held(t \in Pledges \/ \E g \in Handlers \ {h} : st[g] \in Pledges)'
    <3> SUFFICES ASSUME card["main"] = "ongoing"
                 PROVE  \/ row["main"] \/ t \in Pledges \/ \E g \in Handlers \ {h} : st[g] \in Pledges
                        \/ provider \notin Firm /\ end["main"] # "none"
      BY <1>1, <1>2 DEF Held, MainSame
    <3>1. row["main"] \/ (\E g \in Handlers : st[g] \in Pledges) \/ (provider \notin Firm /\ end["main"] # "none")
      BY <2>1 DEF Held
    <3>2. st[h] \in Pledges => t \in Pledges \/ row["main"]  BY <2>2
    <3>3. QED  BY <3>1, <3>2
  <2>6. Shut(t = "closing" \/ \E g \in Handlers \ {h} : st[g] = "closing")'
    <3>1. callback["main"] = "row" /\ card["main"] = "ongoing" =>
            t = "closing" \/ \E g \in Handlers \ {h} : st[g] = "closing"
      BY <2>1, <2>2 DEF Shut
    <3>2. QED  BY <1>1, <2>1, <3>1 DEF Shut, MainSame
  <2>7. QED  BY <1>5, <2>1, <2>3, <2>4, <2>5, <2>6
<1>7. QED  BY <1>6, GoesTo

\* A fault that the service need not survive: what is left still fits.
LEMMA FaultTo ==
  ASSUME Typed, OneVoice, provider \in Providers, TypeOK', hurt \subseteq hurt', raced => raced',
         NEW st \in [Handlers -> Stages], Staged(st),
         NEW h \in Handlers, NEW q, Takes(h, q), NEW t \in Stages, Fits(Setting, t, q), ~Sound'
  PROVE  KInv'
BY GoesTo

---------------------------------------------------------------------------
(* Each call keeps the invariant.                                          *)

LEMMA TypeGoes ==
  ASSUME TypeOK, Typed, OneVoice, NEW h \in Handlers, NEW q, Takes(h, q), last' = last,
         row' \in [Keys -> BOOLEAN], end' \in [Keys -> {"none", "phase1", "phase2", "running"}],
         callback' = callback, card' \in [Keys -> {"none", "ongoing", "ended"}],
         repeats' \in BOOLEAN, note' \in {"none", "alert", "resolved"}, raced' \in BOOLEAN,
         hurt' \subseteq {"read", "write", "call", "lostEnd", "crash"}
  PROVE  TypeOK'
<1>1. \A g \in Handlers : handler'[g].says = handler[g].says  BY Moved
<1>2. QED  BY <1>1 DEF TypeOK

\* What a handler can go on with when its call fails.
LEMMA GoesElse ==
  ASSUME NEW h, handler[h].plan # <<>>, Otherwise(h), UNCHANGED config
  PROVE  \E q \in Else(handler[h].plan) : Takes(h, q)
<1>1. CASE Call(h).or = GoOn
  BY <1>1 DEF Otherwise, Next1, Takes, Else, Call
<1>2. CASE Call(h).or # GoOn
  BY <1>2 DEF Otherwise, Takes, Else, Call
<1>3. QED  BY <1>1, <1>2

\* A call that fails leaves everything as it is.
LEMMA FailureKeeps ==
  ASSUME KInv, NEW h \in Handlers, handler[h].plan # <<>>, NEW kind, Fails(h, kind),
         Call(h).do \in CanFail,
         kind = "read" \/ kind = "write" \/ kind = "call",
         Call(h).do \in {"get", "endIfTracked"} <=> kind = "read",
         Call(h).do \in {"set", "delete"} <=> kind = "write",
         UNCHANGED <<config, row, end, callback, card, repeats, note, last>>,
         raced' \in BOOLEAN, raced => raced'
  PROVE  KInv'
<1> DEFINE p == handler[h].plan  c == Setting  x == Call(h)
<1>1. PICK st \in [Handlers -> Stages] : Staged(st)  BY DEF KInv
<1> DEFINE s == st[h]  t == AfterFault(c, x, s)
<1>2. TypeOK /\ Typed /\ OneVoice /\ provider \in Providers  BY DEF KInv
<1>3. PICK q \in Else(p) : Takes(h, q)  BY GoesElse DEF Fails
<1>4. s \in Stages /\ Fits(c, s, p) /\ x = Head(p) /\ p # <<>> /\ t \in Stages
  BY <1>1, AfterIsStage DEF Staged, Call
<1>5. Fault(kind) /\ hurt \subseteq hurt' /\ provider' = provider  BY DEF Fails, Fault, config
<1>6. TypeOK'  BY <1>2, <1>3, <1>5, TypeGoes DEF TypeOK, Fault
<1>7. x.do \in CanFail  OBVIOUS
<1>8. c.service = provider  BY DEF Setting
<1> HIDE DEF p, x, s, c, t
<1>9. /\ Fits(c, t, q)
      /\ x.do \in Acting => \E r \in Stages : Leads(c, x, s, r)
  BY <1>3, <1>4, <1>7, Unfold DEF t
<1>10. ASSUME Sound', Sound, Stands(st)
       PROVE  \/ t = st[h]
              \/ /\ Knows(t) /\ Voiced(handler[h].says, t)
                 /\ st[h] \in Pledges /\ card["main"] = "ongoing" => t \in Pledges \/ row["main"]
                 /\ st[h] = "closing" => card["main"] # "ongoing"
  <2>1. Knows(s) /\ Voiced(handler[h].says, s)  BY <1>10 DEF Stands, s
  <2>2. kind # "write" /\ (kind = "call" => provider = "proxmox")  BY <1>2, <1>5, <1>10, Survived
  <2>3. CASE x.do \in {"get", "endIfTracked", "retract"}  BY <2>3 DEF AfterFault, t, s
  <2>4. CASE x.do \in {"push", "send", "cancel", "create", "update"}
    <3>1. provider = "proxmox"  BY <2>2, <2>4 DEF x
    <3>2. s # "any"  BY <2>1 DEF Knows
    <3>3. CASE Incidental(x)  BY <1>8, <2>4, <3>1, <3>2, <3>3 DEF AfterFault, Incidental, t, s
    <3>4. CASE ~Incidental(x)
      <4>1. x.do \in {"create", "update"} /\ x.key = "main"  BY <2>4, <3>4 DEF Incidental
      <4>2. PICK r \in Stages : Acted(c, x, s, r)  BY <1>9, <3>2, <3>4, <4>1 DEF Acting, Leads
      <4>3. provider \in Firm /\ Pledges = {"up"}  BY <3>1 DEF Firm, Pledges, Alerting
      <4>4. s # "closing"  BY <2>1, <4>3 DEF Voiced
      <4>5. s \in {"clear", "kept", "shown"}
        BY <1>8, <3>1, <4>1, <4>2, <4>3, <4>4 DEF Acted, Created, Updated
      <4>6. t = "fresh"  BY <1>8, <3>1, <3>4, <4>1, <4>5 DEF AfterFault, t
      <4>7. Knows(t)  BY <4>6 DEF Knows
      <4>8. Voiced(handler[h].says, t)  BY <2>1, <3>1, <4>5, <4>6 DEF Voiced
      <4>9. QED  BY <4>3, <4>5, <4>7, <4>8 DEF s
    <3>5. QED  BY <3>3, <3>4
  <2>5. CASE x.do \in {"set", "delete"}  BY <2>2, <2>5 DEF x
  <2>6. QED  BY <1>7, <2>3, <2>4, <2>5 DEF CanFail
<1>11. MainSame  BY DEF MainSame
<1>12. Fits(Setting, t, q)  BY <1>9 DEF c
<1>13. QED  BY <1>1, <1>2, <1>3, <1>4, <1>5, <1>6, <1>10, <1>11, <1>12, StageTo

\* What a handler is about to do, and where that leads.
LEMMA AtCall ==
  ASSUME NEW st \in [Handlers -> Stages], Staged(st), NEW h \in Handlers, handler[h].plan # <<>>
  PROVE  /\ st[h] \in Stages /\ Legible(Call(h))
         /\ Call(h).do \in Acting =>
              \E t \in Stages : Leads(Setting, Call(h), st[h], t) /\ Fits(Setting, t, Tail(handler[h].plan))
         /\ Call(h).do = "get" =>
              /\ Fits(Setting, st[h], Call(h).absent)
              /\ \E t \in Stages : Finds(Setting, Call(h), st[h], t) /\ Fits(Setting, t, Call(h).found)
         /\ Call(h).do = "ifPending" => Fits(Setting, st[h], Call(h).pending) /\ Fits(Setting, st[h], Call(h).over)
         /\ Call(h).do = "endIfTracked" =>
              st[h] \in {"over", "any"} /\ Fits(Setting, st[h], Call(h).found) /\ Fits(Setting, st[h], Call(h).absent)
         /\ Call(h).do = "retract" => Fits(Setting, st[h], Call(h).gone)
         /\ Call(h).do = "answer" => MayAnswer(Call(h), st[h])
         /\ Call(h).do \in CanFail =>
              \A q \in Else(handler[h].plan) : Fits(Setting, AfterFault(Setting, Call(h), st[h]), q)
<1> DEFINE p == handler[h].plan  c == Setting  s == st[h]  x == Call(h)
<1>1. s \in Stages /\ Fits(c, s, p) /\ p # <<>> /\ x = Head(p)  BY DEF Staged, Call
<1> HIDE DEF p, c, s, x
<1>2. /\ s \in Stages /\ Legible(x)
      /\ x.do \in Acting => \E t \in Stages : Leads(c, x, s, t) /\ Fits(c, t, Tail(p))
      /\ x.do = "get" => Fits(c, s, x.absent) /\ \E t \in Stages : Finds(c, x, s, t) /\ Fits(c, t, x.found)
      /\ x.do = "ifPending" => Fits(c, s, x.pending) /\ Fits(c, s, x.over)
      /\ x.do = "endIfTracked" => s \in {"over", "any"} /\ Fits(c, s, x.found) /\ Fits(c, s, x.absent)
      /\ x.do = "retract" => Fits(c, s, x.gone)
      /\ x.do = "answer" => MayAnswer(x, s)
      /\ x.do \in CanFail => \A q \in Else(p) : Fits(c, AfterFault(c, x, s), q)
  BY <1>1, Unfold
<1>3. QED  BY <1>2, Zenon DEF p, c, s, x

\* A call that leaves "main" as it is.
LEMMA PassesBy ==
  ASSUME KInv, TypeOK', hurt \subseteq hurt', raced => raced', MainSame, last' = last,
         NEW h \in Handlers, Call(h).do \in Acting, Incidental(Call(h)), Takes(h, Tail(handler[h].plan))
  PROVE  KInv'
<1>1. PICK st \in [Handlers -> Stages] : Staged(st)  BY DEF KInv
<1>2. Typed /\ OneVoice /\ provider \in Providers  BY DEF KInv
<1>3. PICK t \in Stages : Leads(Setting, Call(h), st[h], t) /\ Fits(Setting, t, Tail(handler[h].plan))
  BY <1>1, AtCall DEF Takes
<1>4. t = st[h]  BY <1>3 DEF Leads
<1>5. QED  BY <1>1, <1>2, <1>3, <1>4, StageTo

\* The call of "main" that a stage allows.
LEMMA ActsOn ==
  ASSUME NEW st \in [Handlers -> Stages], Stands(st), NEW h \in Handlers, NEW t,
         Leads(Setting, Call(h), st[h], t), ~Incidental(Call(h))
  PROVE  /\ Acted(Setting, Call(h), st[h], t) /\ Setting.service = provider
         /\ Knows(st[h]) /\ Voiced(handler[h].says, st[h])
         /\ \A g \in Handlers : Knows(st[g]) /\ Voiced(handler[g].says, st[g])
         /\ Held(\E g \in Handlers : st[g] \in Pledges) /\ Shut(\E g \in Handlers : st[g] = "closing") /\ StillUp
<1>1. st[h] # "any"  BY DEF Stands, Knows
<1>2. Setting.service = provider  BY DEF Setting
<1>3. QED  BY <1>1, <1>2 DEF Stands, Leads

\* Stop: no end is under way after it, or a callback that runs was met.
LEMMA StopKeepsCard ==
  ASSUME KInv, NEW h \in Handlers, Stop(h)
  PROVE  KInv'
<1> DEFINE p == handler[h].plan  q == Tail(p)  x == Call(h)
<1>1. /\ Takes(h, q) /\ x.do = "stop"
      /\ end' = [end EXCEPT ![x.key] = "none"] /\ raced' = (raced \/ callback[x.key] # "none")
      /\ UNCHANGED <<provider, row, callback, card, repeats, note, last, hurt>>
  BY DEF Stop, Calls, Next1, Takes, config, server
<1>2. TypeOK /\ Typed /\ OneVoice /\ provider \in Providers  BY DEF KInv
<1>3. TypeOK'
  <2>1. raced' \in BOOLEAN  BY <1>1
  <2>2. end' \in [Keys -> {"none", "phase1", "phase2", "running"}]  BY <1>1, <1>2 DEF TypeOK
  <2>3. QED  BY <1>1, <1>2, <2>1, <2>2, TypeGoes DEF TypeOK
<1>4. CASE x.key # "main"
  <2>1. MainSame  BY <1>1, <1>2, <1>4, KeysNamed DEF MainSame, TypeOK
  <2>2. QED  BY <1>1, <1>3, <1>4, <2>1, PassesBy DEF Acting, Incidental
<1>5. CASE x.key = "main"
  <2>1. PICK st \in [Handlers -> Stages] : Staged(st)  BY DEF KInv
  <2>2. PICK t \in Stages : Leads(Setting, x, st[h], t) /\ Fits(Setting, t, q)
    BY <1>1, <2>1, AtCall DEF Takes, Acting
  <2>3. ~Incidental(x)  BY <1>1, <1>5 DEF Incidental
  <2>4. ASSUME Sound', Sound, Stands(st)
        PROVE  /\ Knows(t)' /\ Voiced(handler[h].says, t)
               /\ \A g \in Handlers \ {h} : Knows(st[g])'
               /\ Held(t \in Pledges \/ \E g \in Handlers \ {h} : st[g] \in Pledges)'
               /\ Shut(t = "closing" \/ \E g \in Handlers \ {h} : st[g] = "closing")'
               /\ StillUp'
    <3> DEFINE s == st[h]
    <3>1. /\ Acted(Setting, x, s, t) /\ Setting.service = provider
          /\ Knows(s) /\ Voiced(handler[h].says, s)
          /\ \A g \in Handlers : Knows(st[g]) /\ Voiced(handler[g].says, st[g])
          /\ Held(\E g \in Handlers : st[g] \in Pledges) /\ Shut(\E g \in Handlers : st[g] = "closing") /\ StillUp
      BY <2>2, <2>3, <2>4, ActsOn
    <3>2. /\ \/ provider = "starr notifying" /\ s \in {"free", "over"} /\ t = s
             \/ s = "fresh" /\ t = "clear"
             \/ s = "free" /\ t = "clear" /\ provider # "starr"
             \/ s = "seen" /\ t = "free"
             \/ s = "over" /\ t = "closing" /\ provider \notin Firm
      BY <1>1, <3>1 DEF Acted, Stopped
    <3> HIDE DEF s
    <3>3. NoEnd' /\ row' = row /\ card' = card /\ callback'["main"] = "none"
      BY <1>1, <1>2, <1>5, <2>4, KeysNamed DEF NoEnd, Sound, TypeOK
    <3>4. Knows(t)'  BY <3>2, <3>3 DEF Knows
    <3>5. Voiced(handler[h].says, t)  BY <3>1, <3>2 DEF Voiced
    <3>6. \A g \in Handlers \ {h} : Knows(st[g])'  BY <3>1, <3>3 DEF Knows
    <3>7. Held(t \in Pledges \/ \E g \in Handlers \ {h} : st[g] \in Pledges)'
      <4> SUFFICES ASSUME card["main"] = "ongoing", ~row["main"]
                   PROVE  t \in Pledges \/ \E g \in Handlers \ {h} : st[g] \in Pledges
        BY <1>1, <3>3 DEF Held, Pledges
      <4>1. provider # "starr notifying" /\ s # "seen"  BY <3>1 DEF Shut, Knows
      <4>2. s \notin Pledges  BY <3>2 DEF Pledges
      <4>3. (\E g \in Handlers : st[g] \in Pledges) \/ provider \notin Firm  BY <3>1 DEF Held
      <4>4. provider \notin Firm => t \in Pledges  BY <3>2, <4>1 DEF Pledges, Firm
      <4>5. QED  BY <4>2, <4>3, <4>4 DEF s
    <3>8. Shut(t = "closing" \/ \E g \in Handlers \ {h} : st[g] = "closing")'
      BY <1>1, <3>1, <3>3 DEF Shut
    <3>9. StillUp'
      <4>1. (AllActivity' <=> AllActivity) /\ \A g \in Handlers : handler'[g].says = handler[g].says
        BY <1>1, <1>2, Moved
      <4>2. QED  BY <1>1, <3>1, <3>3, <4>1 DEF StillUp
    <3>10. QED  BY <3>4, <3>5, <3>6, <3>7, <3>8, <3>9
  <2>5. QED  BY <1>1, <1>2, <1>3, <2>1, <2>2, <2>4, GoesTo
<1>6. QED  BY <1>4, <1>5

\* An end begins for a card that is over.
LEMMA ScheduleKeepsCard ==
  ASSUME KInv, NEW h \in Handlers, Schedule(h)
  PROVE  KInv'
<1> DEFINE p == handler[h].plan  q == Tail(p)  x == Call(h)
<1>1. /\ Takes(h, q) /\ x.do = "end"
      /\ end' = [end EXCEPT ![x.key] = "phase1"] /\ raced' = (raced \/ callback[x.key] # "none")
      /\ UNCHANGED <<provider, row, callback, card, repeats, note, last, hurt>>
  BY DEF Schedule, Calls, Next1, Takes, config, server
<1>2. TypeOK /\ Typed /\ OneVoice /\ provider \in Providers  BY DEF KInv
<1>3. TypeOK'
  <2>1. raced' \in BOOLEAN  BY <1>1
  <2>2. end' \in [Keys -> {"none", "phase1", "phase2", "running"}]  BY <1>1, <1>2 DEF TypeOK
  <2>3. QED  BY <1>1, <1>2, <2>1, <2>2, TypeGoes DEF TypeOK
<1>4. CASE x.key # "main"
  <2>1. MainSame  BY <1>1, <1>2, <1>4, KeysNamed DEF MainSame, TypeOK
  <2>2. QED  BY <1>1, <1>3, <1>4, <2>1, PassesBy DEF Acting, Incidental
<1>5. CASE x.key = "main"
  <2>1. PICK st \in [Handlers -> Stages] : Staged(st)  BY DEF KInv
  <2>2. PICK t \in Stages : Leads(Setting, x, st[h], t) /\ Fits(Setting, t, q)
    BY <1>1, <2>1, AtCall DEF Takes, Acting
  <2>3. ~Incidental(x)  BY <1>1, <1>5 DEF Incidental
  <2>4. ASSUME Sound', Sound, Stands(st)
        PROVE  /\ Knows(t)' /\ Voiced(handler[h].says, t)
               /\ \A g \in Handlers \ {h} : Knows(st[g])'
               /\ Held(t \in Pledges \/ \E g \in Handlers \ {h} : st[g] \in Pledges)'
               /\ Shut(t = "closing" \/ \E g \in Handlers \ {h} : st[g] = "closing")'
               /\ StillUp'
    <3> DEFINE s == st[h]
    <3>1. /\ Acted(Setting, x, s, t) /\ Setting.service = provider
          /\ Knows(s) /\ Voiced(handler[h].says, s)
          /\ \A g \in Handlers : Knows(st[g]) /\ Voiced(handler[g].says, st[g])
          /\ Held(\E g \in Handlers : st[g] \in Pledges) /\ Shut(\E g \in Handlers : st[g] = "closing") /\ StillUp
      BY <2>2, <2>3, <2>4, ActsOn
    <3>2. provider # "starr notifying" /\ s \in {"over", "closing"} /\ t = "over"
      BY <1>1, <3>1 DEF Acted
    <3> HIDE DEF s
    <3>3. row' = row /\ card' = card /\ callback'["main"] = "none" /\ end'["main"] = "phase1"
      BY <1>1, <1>2, <1>5, <2>4, KeysNamed DEF Sound, TypeOK
    <3>4. handler[h].says = "off"  BY <3>1, <3>2 DEF Voiced
    <3>5. \A g \in Handlers : handler'[g].says = handler[g].says /\ handler[g].says \in {"off", "nothing"}
      BY <1>1, <1>2, <3>4, Moved
    <3>6. \A g \in Handlers : st[g] \in {"over", "closing", "aside"}  BY <3>1, <3>5 DEF Voiced
    <3>7. \A g \in Handlers : Knows(st[g])'  BY <3>6 DEF Knows
    <3>8. Knows(t)' /\ Voiced(handler[h].says, t)  BY <3>1, <3>2, <3>4 DEF Knows, Voiced
    <3>9. Held(t \in Pledges \/ \E g \in Handlers \ {h} : st[g] \in Pledges)'
      <4> SUFFICES ASSUME card["main"] = "ongoing", provider \in Firm PROVE row["main"]
        BY <1>1, <3>3 DEF Held
      <4>1. Pledges \subseteq {"up"}  BY DEF Pledges, Firm
      <4>2. QED  BY <3>1, <3>6, <4>1 DEF Held
    <3>10. Shut(t = "closing" \/ \E g \in Handlers \ {h} : st[g] = "closing")'
      BY <1>1, <3>2, <3>3 DEF Shut
    <3>11. StillUp'  BY <3>4, <3>5 DEF StillUp
    <3>12. QED  BY <3>7, <3>8, <3>9, <3>10, <3>11
  <2>5. QED  BY <1>1, <1>2, <1>3, <2>1, <2>2, <2>4, GoesTo
<1>6. QED  BY <1>4, <1>5

\* The look-up of an end finds a row, and leaves an end in flight alone.
LEMMA EndTrackedKeepsCard ==
  ASSUME KInv, NEW h \in Handlers, EndTracked(h)
  PROVE  KInv'
<1> DEFINE p == handler[h].plan  x == Call(h)
<1>1. /\ p # <<>> /\ x.do = "endIfTracked" /\ UNCHANGED config
      /\ UNCHANGED <<provider, row, callback, card, repeats, note, last>>
  BY DEF EndTracked, Calls, config, server
<1>2. TypeOK /\ Typed /\ OneVoice /\ provider \in Providers  BY DEF KInv
<1>3. PICK st \in [Handlers -> Stages] : Staged(st)  BY DEF KInv
<1>4. st[h] \in {"over", "any"} /\ st[h] \in Stages /\ Fits(Setting, st[h], x.found) /\ Fits(Setting, st[h], x.absent)
  BY <1>1, <1>3, AtCall
<1>5. \/ /\ end' = [end EXCEPT ![x.key] = IF @ = "none" THEN "phase1" ELSE @]
         /\ raced' = (raced \/ (end[x.key] = "none" /\ callback[x.key] # "none"))
         /\ Goto(h, x.found) /\ UNCHANGED hurt
      \/ Goto(h, x.absent) /\ UNCHANGED <<end, raced, hurt>>
      \/ Fails(h, "read") /\ UNCHANGED <<end, raced>>
  BY DEF EndTracked
<1>6. CASE Fails(h, "read") /\ UNCHANGED <<end, raced>>
  BY <1>1, <1>2, <1>6, FailureKeeps DEF CanFail, TypeOK
<1>7. CASE Goto(h, x.absent) /\ UNCHANGED <<end, raced, hurt>>
  <2>1. Takes(h, x.absent) /\ MainSame  BY <1>1, <1>7 DEF Takes, MainSame
  <2>2. TypeOK'  BY <1>1, <1>2, <1>7, <2>1, TypeGoes DEF TypeOK
  <2>3. QED  BY <1>1, <1>2, <1>3, <1>4, <1>7, <2>1, <2>2, StageTo
<1>8. CASE /\ end' = [end EXCEPT ![x.key] = IF @ = "none" THEN "phase1" ELSE @]
           /\ raced' = (raced \/ (end[x.key] = "none" /\ callback[x.key] # "none"))
           /\ Goto(h, x.found) /\ UNCHANGED hurt
  <2>1. Takes(h, x.found)  BY <1>1, <1>8 DEF Takes
  <2>2. end' \in [Keys -> {"none", "phase1", "phase2", "running"}] /\ raced' \in BOOLEAN
    BY <1>2, <1>8 DEF TypeOK
  <2>3. TypeOK'  BY <1>1, <1>2, <1>8, <2>1, <2>2, TypeGoes DEF TypeOK
  <2> DEFINE t == st[h]
  <2>4. ASSUME Sound', Sound, Stands(st)
        PROVE  /\ Knows(t)' /\ Voiced(handler[h].says, t)
               /\ \A g \in Handlers \ {h} : Knows(st[g])'
               /\ Held(t \in Pledges \/ \E g \in Handlers \ {h} : st[g] \in Pledges)'
               /\ Shut(t = "closing" \/ \E g \in Handlers \ {h} : st[g] = "closing")'
               /\ StillUp'
    <3>1. /\ \A g \in Handlers : Knows(st[g]) /\ Voiced(handler[g].says, st[g])
          /\ Held(\E g \in Handlers : st[g] \in Pledges) /\ Shut(\E g \in Handlers : st[g] = "closing")
      BY <2>4 DEF Stands
    <3>2. t = "over" /\ handler[h].says = "off"  BY <1>4, <3>1 DEF Knows, Voiced
    <3>3. \A g \in Handlers : handler'[g].says = handler[g].says /\ handler[g].says \in {"off", "nothing"}
      BY <1>2, <2>1, <3>2, Moved
    <3>4. \A g \in Handlers : st[g] \in {"over", "closing", "aside"}  BY <3>1, <3>3 DEF Voiced
    <3>5. \A g \in Handlers : Knows(st[g])'  BY <3>4 DEF Knows
    <3>6. end'["main"] = end["main"] \/ (end["main"] = "none" /\ end'["main"] = "phase1" /\ callback["main"] = "none")
      <4>1. ~raced'  BY <2>4 DEF Sound
      <4>2. CASE x.key = "main"  BY <1>2, <1>8, <4>1, <4>2, KeysNamed DEF TypeOK
      <4>3. CASE x.key # "main"  BY <1>2, <1>8, <4>3, KeysNamed DEF TypeOK
      <4>4. QED  BY <4>2, <4>3
    <3>7. Held(t \in Pledges \/ \E g \in Handlers \ {h} : st[g] \in Pledges)'
      <4> SUFFICES ASSUME card["main"] = "ongoing"
                   PROVE  \/ row["main"] \/ t \in Pledges \/ \E g \in Handlers \ {h} : st[g] \in Pledges
                          \/ provider \notin Firm /\ end'["main"] # "none"
        BY <1>1 DEF Held, Pledges
      <4>1. row["main"] \/ (\E g \in Handlers : st[g] \in Pledges) \/ (provider \notin Firm /\ end["main"] # "none")
        BY <3>1 DEF Held
      <4>2. QED  BY <3>6, <4>1
    <3>8. Shut(t = "closing" \/ \E g \in Handlers \ {h} : st[g] = "closing")'
      <4>1. (\E g \in Handlers : st[g] = "closing") => \E g \in Handlers \ {h} : st[g] = "closing"  BY <3>2
      <4>2. QED  BY <1>1, <3>1, <3>6, <4>1 DEF Shut
    <3>9. StillUp'  BY <3>2, <3>3 DEF StillUp
    <3>10. QED  BY <3>1, <3>5, <3>7, <3>8, <3>9
  <2>5. Fits(Setting, t, x.found) /\ t \in Stages /\ (raced => raced') /\ hurt \subseteq hurt'
    BY <1>4, <1>8
  <2> HIDE DEF t
  <2>6. QED  BY <1>2, <1>3, <2>1, <2>3, <2>4, <2>5, GoesTo
<1>9. QED  BY <1>5, <1>6, <1>7, <1>8, Zenon

LEMMA AskPendingKeepsCard ==
  ASSUME KInv, NEW h \in Handlers, AskPending(h)
  PROVE  KInv'
<1> DEFINE q == IF end[Call(h).key] # "none" THEN Call(h).pending ELSE Call(h).over
<1>1. /\ Takes(h, q) /\ Call(h).do = "ifPending"
      /\ UNCHANGED <<provider, row, end, callback, card, repeats, note, last, hurt, raced>>
  BY DEF AskPending, Calls, Takes, config, server, ends, ghosts
<1>2. TypeOK /\ Typed /\ OneVoice /\ provider \in Providers  BY DEF KInv
<1>3. PICK st \in [Handlers -> Stages] : Staged(st)  BY DEF KInv
<1>4. st[h] \in Stages /\ Fits(Setting, st[h], q)  BY <1>1, <1>3, AtCall DEF Takes
<1> HIDE DEF q
<1>5. TypeOK' /\ MainSame  BY <1>1, <1>2, TypeGoes DEF TypeOK, MainSame
<1>6. QED  BY <1>1, <1>2, <1>3, <1>4, <1>5, StageTo

\* A handler that finds the row knows that it is there.
LEMMA ReadKeepsCard ==
  ASSUME KInv, NEW h \in Handlers, Read(h)
  PROVE  KInv'
<1> DEFINE p == handler[h].plan  x == Call(h)
<1>1. /\ p # <<>> /\ x.do = "get" /\ UNCHANGED config
      /\ UNCHANGED <<provider, row, end, callback, card, repeats, note, last, raced>>
  BY DEF Read, Calls, config, server, ends
<1>2. TypeOK /\ Typed /\ OneVoice /\ provider \in Providers  BY DEF KInv
<1>3. CASE Fails(h, "read")
  BY <1>1, <1>2, <1>3, FailureKeeps DEF CanFail, TypeOK
<1>4. CASE Goto(h, IF row[x.key] THEN x.found ELSE x.absent) /\ UNCHANGED hurt
  <2> DEFINE q == IF row[x.key] THEN x.found ELSE x.absent
  <2>1. PICK st \in [Handlers -> Stages] : Staged(st)  BY DEF KInv
  <2> DEFINE s == st[h]
  <2>2. s \in Stages /\ Fits(Setting, s, x.absent) /\ \E t \in Stages : Finds(Setting, x, s, t) /\ Fits(Setting, t, x.found)
    BY <1>1, <2>1, AtCall
  <2>3. PICK t \in Stages : Fits(Setting, t, q) /\ (t = s \/ (row[x.key] /\ Finds(Setting, x, s, t)))
    <3>1. CASE row[x.key]  BY <2>2, <3>1
    <3>2. CASE ~row[x.key]  BY <2>2, <3>2
    <3>3. QED  BY <3>1, <3>2
  <2>4. Takes(h, q)  BY <1>1, <1>4 DEF Takes
  <2> HIDE DEF q, x
  <2>5. TypeOK' /\ MainSame  BY <1>1, <1>2, <1>4, <2>4, TypeGoes DEF TypeOK, MainSame
  <2>6. ASSUME Sound', Sound, Stands(st), t # s
        PROVE  /\ Knows(t) /\ Voiced(handler[h].says, t) /\ row["main"] /\ s # "closing"
    <3>1. Knows(s) /\ Voiced(handler[h].says, s)  BY <2>6 DEF Stands
    <3>2. /\ row["main"]
          /\ (s = "clear" /\ t = "kept") \/ (s = "free" /\ t = "seen" /\ provider = "starr")
      BY <2>3, <2>6 DEF Finds, Setting
    <3>3. Knows(t)  BY <3>1, <3>2 DEF Knows
    <3>4. provider = "starr" => AllActivity  BY <2>6 DEF Sound
    <3>5. handler[h].says \in {"alert", "on", "off", "unsure", "nothing"}  BY <1>2 DEF TypeOK
    <3>6. Voiced(handler[h].says, t)  BY <3>1, <3>2, <3>4, <3>5 DEF Voiced
    <3>7. QED  BY <3>2, <3>3, <3>6
  <2>7. raced => raced'  BY <1>1
  <2>8. QED  BY <1>1, <1>2, <1>4, <2>1, <2>3, <2>4, <2>5, <2>6, <2>7, StageTo
<1>5. QED  BY <1>3, <1>4 DEF Read

\* A row is written once the card's end is stopped; none is deleted but
\* after a fault.
LEMMA WriteKeepsCard ==
  ASSUME KInv, NEW h \in Handlers, Write(h)
  PROVE  KInv'
<1> DEFINE p == handler[h].plan  q == Tail(p)  x == Call(h)
<1>1. PICK op \in {"set", "delete"} :
        /\ Calls(h, op)
        /\ \/ row' = [row EXCEPT ![x.key] = op = "set"] /\ Next1(h) /\ UNCHANGED hurt
           \/ Fails(h, "write") /\ UNCHANGED row
  BY DEF Write
<1>2. /\ p # <<>> /\ x.do = op /\ UNCHANGED config
      /\ UNCHANGED <<provider, end, callback, card, repeats, note, last, raced>>
  BY <1>1 DEF Write, Calls, config, server, ends
<1>3. TypeOK /\ Typed /\ OneVoice /\ provider \in Providers  BY DEF KInv
<1>4. CASE Fails(h, "write") /\ UNCHANGED row
  BY <1>1, <1>2, <1>3, <1>4, FailureKeeps DEF CanFail, TypeOK
<1>5. CASE row' = [row EXCEPT ![x.key] = op = "set"] /\ Next1(h) /\ UNCHANGED hurt
  <2>1. Takes(h, q)  BY <1>2, <1>5 DEF Takes, Next1
  <2>2. row' \in [Keys -> BOOLEAN]  BY <1>3, <1>5 DEF TypeOK
  <2>3. TypeOK'  BY <1>2, <1>3, <1>5, <2>1, <2>2, TypeGoes DEF TypeOK
  <2>4. CASE x.key # "main"
    <3>1. MainSame  BY <1>2, <1>3, <1>5, <2>4, KeysNamed DEF MainSame, TypeOK
    <3>2. QED  BY <1>1, <1>2, <1>5, <2>1, <2>3, <2>4, <3>1, PassesBy DEF Acting, Incidental
  <2>5. CASE x.key = "main"
    <3>1. PICK st \in [Handlers -> Stages] : Staged(st)  BY DEF KInv
    <3>2. PICK t \in Stages : Leads(Setting, x, st[h], t) /\ Fits(Setting, t, q)
      BY <1>1, <1>2, <3>1, AtCall DEF Acting
    <3>3. ~Incidental(x)  BY <1>1, <1>2, <2>5 DEF Incidental
    <3>4. ASSUME Sound', Sound, Stands(st)
          PROVE  /\ Knows(t)' /\ Voiced(handler[h].says, t)
                 /\ \A g \in Handlers \ {h} : Knows(st[g])'
                 /\ Held(t \in Pledges \/ \E g \in Handlers \ {h} : st[g] \in Pledges)'
                 /\ Shut(t = "closing" \/ \E g \in Handlers \ {h} : st[g] = "closing")'
                 /\ StillUp'
      <4> DEFINE s == st[h]
      <4>1. /\ Acted(Setting, x, s, t) /\ Setting.service = provider
            /\ Knows(s) /\ Voiced(handler[h].says, s)
            /\ \A g \in Handlers : Knows(st[g]) /\ Voiced(handler[g].says, st[g])
            /\ Held(\E g \in Handlers : st[g] \in Pledges) /\ Shut(\E g \in Handlers : st[g] = "closing") /\ StillUp
        BY <3>2, <3>3, <3>4, ActsOn
      <4>2. provider # "starr notifying" /\ op = "set" /\ Written1(s, t)  BY <1>1, <1>2, <4>1 DEF Acted
      <4>3. (NoEnd' <=> NoEnd) /\ row'["main"] = TRUE /\ card'["main"] = card["main"]
            /\ callback'["main"] = callback["main"] /\ end'["main"] = end["main"]
        BY <1>2, <1>3, <1>5, <2>5, <4>2, KeysNamed DEF NoEnd, TypeOK
      <4>4. Knows(t)'  BY <4>1, <4>2, <4>3 DEF Knows, Written1
      <4>5. Voiced(handler[h].says, t)  BY <4>1, <4>2 DEF Voiced, Written1
      <4>6. \A g \in Handlers \ {h} : Knows(st[g])'  BY <4>1, <4>3 DEF Knows
      <4>7. Held(t \in Pledges \/ \E g \in Handlers \ {h} : st[g] \in Pledges)'  BY <4>3 DEF Held
      <4>8. Shut(t = "closing" \/ \E g \in Handlers \ {h} : st[g] = "closing")'
        <5>1. s = "closing" => t = "closing"  BY <4>2 DEF Written1
        <5>2. QED  BY <1>2, <4>1, <4>3, <5>1 DEF Shut
      <4>9. StillUp'
        <5>1. (AllActivity' <=> AllActivity) /\ \A g \in Handlers : handler'[g].says = handler[g].says
          BY <1>3, <2>1, Moved
        <5>2. QED  BY <1>2, <1>5, <4>1, <4>3, <5>1 DEF StillUp
      <4>10. QED  BY <4>4, <4>5, <4>6, <4>7, <4>8, <4>9
    <3>5. (raced => raced') /\ hurt \subseteq hurt'  BY <1>2, <1>5
    <3>6. QED  BY <1>3, <2>1, <2>3, <3>1, <3>2, <3>4, <3>5, GoesTo
  <2>6. QED  BY <2>4, <2>5
<1>6. QED  BY <1>1, <1>4, <1>5

\* The card is put up by a handler that has stopped its end.
LEMMA CreateKeepsCard ==
  ASSUME KInv, NEW h \in Handlers, CreateActivity(h)
  PROVE  KInv'
<1> DEFINE p == handler[h].plan  q == Tail(p)  x == Call(h)
<1>1. /\ p # <<>> /\ x.do = "create" /\ UNCHANGED config
      /\ raced' = (raced \/ (provider = "backrest" /\ end[x.key] # "none"))
      /\ UNCHANGED <<provider, row, end, callback, repeats, note, last>>
  BY DEF CreateActivity, Calls, config, ends
<1>2. TypeOK /\ Typed /\ OneVoice /\ provider \in Providers  BY DEF KInv
<1>3. raced' \in BOOLEAN /\ (raced => raced')  BY <1>1, <1>2 DEF TypeOK
<1>4. CASE Fails(h, "call") /\ UNCHANGED card
  BY <1>1, <1>3, <1>4, FailureKeeps DEF CanFail
<1>5. CASE card' = [card EXCEPT ![x.key] = "ongoing"] /\ Next1(h) /\ UNCHANGED hurt
  <2>1. Takes(h, q)  BY <1>1, <1>5 DEF Takes, Next1
  <2>2. card' \in [Keys -> {"none", "ongoing", "ended"}]  BY <1>2, <1>5 DEF TypeOK
  <2>3. TypeOK'  BY <1>1, <1>2, <1>3, <1>5, <2>1, <2>2, TypeGoes DEF TypeOK
  <2>4. CASE x.key # "main"
    <3>1. MainSame  BY <1>1, <1>2, <1>5, <2>4, KeysNamed DEF MainSame, TypeOK
    <3>2. QED  BY <1>1, <1>3, <1>5, <2>1, <2>3, <2>4, <3>1, PassesBy DEF Acting, Incidental
  <2>5. CASE x.key = "main"
    <3>1. PICK st \in [Handlers -> Stages] : Staged(st)  BY DEF KInv
    <3>2. PICK t \in Stages : Leads(Setting, x, st[h], t) /\ Fits(Setting, t, q)
      BY <1>1, <3>1, AtCall DEF Acting
    <3>3. ~Incidental(x)  BY <1>1, <2>5 DEF Incidental
    <3>4. ASSUME Sound', Sound, Stands(st)
          PROVE  /\ Knows(t)' /\ Voiced(handler[h].says, t)
                 /\ \A g \in Handlers \ {h} : Knows(st[g])'
                 /\ Held(t \in Pledges \/ \E g \in Handlers \ {h} : st[g] \in Pledges)'
                 /\ Shut(t = "closing" \/ \E g \in Handlers \ {h} : st[g] = "closing")'
                 /\ StillUp'
      <4> DEFINE s == st[h]
      <4>1. /\ Acted(Setting, x, s, t) /\ Setting.service = provider
            /\ Knows(s) /\ Voiced(handler[h].says, s)
            /\ \A g \in Handlers : Knows(st[g]) /\ Voiced(handler[g].says, st[g])
            /\ Held(\E g \in Handlers : st[g] \in Pledges) /\ Shut(\E g \in Handlers : st[g] = "closing") /\ StillUp
        BY <3>2, <3>3, <3>4, ActsOn
      <4>2. /\ provider # "starr notifying"
            /\ \/ s = "clear" /\ t = "up" /\ provider \notin Alerting \union {"starr"}
               \/ s = "kept" /\ t = "shown"
               \/ s \in {"over", "closing"} /\ t = "closing" /\ provider \notin Firm
               \/ s \in {"free", "fresh"} /\ t = "up" /\ provider = "backrest"
        BY <1>1, <4>1 DEF Acted, Created
      <4>3. /\ card'["main"] = "ongoing" /\ row'["main"] = row["main"] /\ end'["main"] = end["main"]
            /\ callback'["main"] = callback["main"]
        BY <1>1, <1>2, <1>5, <2>5, KeysNamed DEF TypeOK
      <4>4. t # "closing" => NoEnd
        <5>1. CASE provider = "backrest"
          <6>1. end["main"] = "none"  BY <1>1, <2>5, <3>4, <5>1 DEF Sound
          <6>2. QED  BY <4>1, <6>1 DEF Shut, NoEnd
        <5>2. CASE s \in {"clear", "kept"}  BY <4>1, <5>2 DEF Knows
        <5>3. QED  BY <4>2, <5>1, <5>2
      <4>5. NoEnd' <=> NoEnd  BY <4>3 DEF NoEnd
      <4> HIDE DEF s
      <4>6. Knows(t)'  BY <4>1, <4>2, <4>3, <4>4, <4>5 DEF Knows
      <4>7. Voiced(handler[h].says, t)  BY <4>1, <4>2 DEF Voiced
      <4>8. \A g \in Handlers \ {h} : Knows(st[g])'
        <5> TAKE g \in Handlers \ {h}
        <5>1. Knows(st[g]) /\ Voiced(handler[g].says, st[g])  BY <4>1
        <5>2. st[g] # "seen"
          <6> SUFFICES ASSUME st[g] = "seen" PROVE FALSE  OBVIOUS
          <6>1. provider = "starr" /\ handler[g].says = "unsure"  BY <5>1 DEF Voiced
          <6>2. handler[g].says \in {handler[h].says, "nothing"}  BY <1>2, <2>1, Moved
          <6>3. s \in {"free", "seen"}  BY <4>1, <6>1, <6>2 DEF Voiced
          <6>4. QED  BY <4>2, <6>1, <6>3
        <5>3. QED  BY <4>3, <4>5, <5>1, <5>2 DEF Knows
      <4>9. t \in Pledges \/ row["main"]
        <5>1. t = "up" => t \in Pledges  BY <4>1, <4>2 DEF Pledges, Voiced, Alerting
        <5>2. t = "closing" => t \in Pledges  BY <4>2 DEF Pledges, Firm
        <5>3. t = "shown" => row["main"]  BY <4>1, <4>2 DEF Knows
        <5>4. QED  BY <4>2, <5>1, <5>2, <5>3
      <4>10. Held(t \in Pledges \/ \E g \in Handlers \ {h} : st[g] \in Pledges)'
        <5>1. Pledges' = Pledges  BY <1>1 DEF Pledges
        <5>2. QED  BY <4>3, <4>9, <5>1 DEF Held
      <4>11. Shut(t = "closing" \/ \E g \in Handlers \ {h} : st[g] = "closing")'
        <5>1. t # "closing" => callback["main"] = "none"  BY <4>4 DEF NoEnd
        <5>2. QED  BY <1>1, <4>1, <4>2, <4>3, <5>1 DEF Shut
      <4>12. StillUp'
        <5>1. (AllActivity' <=> AllActivity) /\ \A g \in Handlers : handler'[g].says = handler[g].says
          BY <1>2, <2>1, Moved
        <5>2. t = "closing" => handler[h].says = "off"  BY <4>1, <4>2 DEF Voiced
        <5>3. QED  BY <4>3, <4>4, <4>5, <5>1, <5>2 DEF StillUp
      <4>13. QED  BY <4>6, <4>7, <4>8, <4>10, <4>11, <4>12
    <3>5. hurt \subseteq hurt'  BY <1>5
    <3>6. QED  BY <1>2, <1>3, <2>1, <2>3, <3>1, <3>2, <3>4, <3>5, GoesTo
  <2>6. QED  BY <2>4, <2>5
<1>6. QED  BY <1>4, <1>5 DEF CreateActivity

\* An activity that is not there, or none that has an end under way.
LEMMA UpdateKeepsCard ==
  ASSUME KInv, NEW h \in Handlers, UpdateActivity(h)
  PROVE  KInv'
<1> DEFINE p == handler[h].plan  q == Tail(p)  x == Call(h)
<1>1. /\ p # <<>> /\ x.do = "update" /\ UNCHANGED config
      /\ raced' = (raced \/ (provider = "starr" /\ card[x.key] = "ended"))
      /\ UNCHANGED <<provider, row, end, callback, repeats, note, last>>
  BY DEF UpdateActivity, Calls, config, ends
<1>2. TypeOK /\ Typed /\ OneVoice /\ provider \in Providers  BY DEF KInv
<1>3. raced' \in BOOLEAN /\ (raced => raced')  BY <1>1, <1>2 DEF TypeOK
<1>4. CASE Fails(h, "call") /\ UNCHANGED card
  BY <1>1, <1>3, <1>4, FailureKeeps DEF CanFail
<1>5. PICK st \in [Handlers -> Stages] : Staged(st)  BY DEF KInv
<1>6. PICK t \in Stages : Leads(Setting, x, st[h], t) /\ Fits(Setting, t, q)
  BY <1>1, <1>5, AtCall DEF Acting
<1>7. CASE card[x.key] = "none" /\ Otherwise(h) /\ UNCHANGED <<card, hurt>>
  <2> DEFINE s == st[h]  r == AfterFault(Setting, x, s)
  <2>1. PICK n \in Else(p) : Takes(h, n)  BY <1>1, <1>7, GoesElse
  <2>2. Fits(Setting, r, n) /\ r \in Stages  BY <1>1, <1>5, <2>1, AtCall, AfterIsStage DEF CanFail
  <2>3. TypeOK'  BY <1>1, <1>2, <1>3, <1>7, <2>1, TypeGoes DEF TypeOK
  <2>4. MainSame  BY <1>1, <1>7 DEF MainSame
  <2>5. ASSUME Sound', Sound, Stands(st)
        PROVE  \/ r = st[h]
               \/ /\ Knows(r) /\ Voiced(handler[h].says, r)
                  /\ st[h] \in Pledges /\ card["main"] = "ongoing" => r \in Pledges \/ row["main"]
                  /\ st[h] = "closing" => card["main"] # "ongoing"
    <3>1. CASE x.key # "main"  BY <1>1, <3>1 DEF AfterFault
    <3>2. CASE x.key = "main"
      <4>1. ~Incidental(x)  BY <1>1, <3>2 DEF Incidental
      <4>2. Acted(Setting, x, s, t) /\ Setting.service = provider /\ Knows(s) /\ Voiced(handler[h].says, s)
        BY <1>6, <2>5, <4>1, ActsOn
      <4>3. s \in {"kept", "up", "shown", "closing", "free"}  BY <1>1, <4>2 DEF Acted, Updated
      <4>4. s \in {"kept", "closing", "free"}  BY <1>7, <3>2, <4>2, <4>3 DEF Knows
      <4>5. \/ s = "kept" /\ r = "fresh"
            \/ s = "closing" /\ r = "over"
            \/ s = "free" /\ r = s
        BY <1>1, <3>2, <4>4 DEF AfterFault
      <4> HIDE DEF s, r
      <4>6. Knows(r) /\ (r # s => Voiced(handler[h].says, r))  BY <4>2, <4>5 DEF Knows, Voiced
      <4>7. QED  BY <1>7, <3>2, <4>5, <4>6 DEF s
    <3>3. QED  BY <3>1, <3>2
  <2>6. hurt \subseteq hurt'  BY <1>7
  <2> HIDE DEF r
  <2>7. QED  BY <1>1, <1>2, <1>3, <1>5, <2>1, <2>2, <2>3, <2>4, <2>5, <2>6, StageTo
<1>8. CASE card[x.key] # "none" /\ card' = [card EXCEPT ![x.key] = x.state] /\ Next1(h) /\ UNCHANGED hurt
  <2>1. Takes(h, q)  BY <1>1, <1>8 DEF Takes, Next1
  <2>2. x.state \in {"ongoing", "ended"}  BY <1>1, <1>5, AtCall DEF Legible
  <2>3. card' \in [Keys -> {"none", "ongoing", "ended"}]  BY <1>2, <1>8, <2>2 DEF TypeOK
  <2>4. TypeOK'  BY <1>1, <1>2, <1>3, <1>8, <2>1, <2>3, TypeGoes DEF TypeOK
  <2>5. CASE x.key # "main"
    <3>1. MainSame  BY <1>1, <1>2, <1>8, <2>5, KeysNamed DEF MainSame, TypeOK
    <3>2. QED  BY <1>1, <1>3, <1>8, <2>1, <2>4, <2>5, <3>1, PassesBy DEF Acting, Incidental
  <2>6. CASE x.key = "main"
    <3>1. ~Incidental(x)  BY <1>1, <2>6 DEF Incidental
    <3>2. ASSUME Sound', Sound, Stands(st)
          PROVE  /\ Knows(t)' /\ Voiced(handler[h].says, t)
                 /\ \A g \in Handlers \ {h} : Knows(st[g])'
                 /\ Held(t \in Pledges \/ \E g \in Handlers \ {h} : st[g] \in Pledges)'
                 /\ Shut(t = "closing" \/ \E g \in Handlers \ {h} : st[g] = "closing")'
                 /\ StillUp'
      <4> DEFINE s == st[h]
      <4>1. /\ Acted(Setting, x, s, t) /\ Setting.service = provider
            /\ Knows(s) /\ Voiced(handler[h].says, s)
            /\ \A g \in Handlers : Knows(st[g]) /\ Voiced(handler[g].says, st[g])
            /\ Held(\E g \in Handlers : st[g] \in Pledges) /\ Shut(\E g \in Handlers : st[g] = "closing") /\ StillUp
        BY <1>6, <3>1, <3>2, ActsOn
      <4>2. /\ provider # "starr notifying"
            /\ \/ x.state = "ongoing" /\ Updated(Setting, s, t)
               \/ x.state = "ended" /\ s = "closing" /\ t = "over"
        BY <1>1, <4>1 DEF Acted
      <4>3. /\ card'["main"] = x.state /\ row'["main"] = row["main"] /\ end'["main"] = end["main"]
            /\ callback'["main"] = callback["main"] /\ (NoEnd' <=> NoEnd)
        BY <1>1, <1>2, <1>8, <2>6, KeysNamed DEF TypeOK, NoEnd
      <4>4. /\ Pledges' = Pledges /\ (AllActivity' <=> AllActivity)
            /\ \A g \in Handlers : handler'[g].says = handler[g].says /\ handler[g].says \in {handler[h].says, "nothing"}
        BY <1>1, <1>2, <2>1, Moved DEF Pledges
      <4> HIDE DEF s
      <4>5. CASE x.state = "ended"
        <5>1. s = "closing" /\ t = "over" /\ handler[h].says = "off"  BY <4>1, <4>2, <4>5 DEF Voiced
        <5>2. \A g \in Handlers : st[g] \in {"over", "closing", "aside"}  BY <4>1, <4>4, <5>1 DEF Voiced
        <5>3. \A g \in Handlers : Knows(st[g])'  BY <5>2 DEF Knows
        <5>4. Knows(t)' /\ Voiced(handler[h].says, t)  BY <4>1, <5>1 DEF Knows, Voiced
        <5>5. StillUp'  BY <4>4, <5>1 DEF StillUp
        <5>6. QED  BY <1>1, <4>1, <4>3, <4>5, <5>3, <5>4, <5>5 DEF Held, Shut
      <4>6. CASE x.state = "ongoing" /\ s = "free"
        <5>1. t = s /\ provider = "starr"  BY <4>1, <4>2, <4>6 DEF Updated
        <5>2. card["main"] = "ongoing"
          <6>1. ~raced'  BY <3>2 DEF Sound
          <6>2. card["main"] # "ended" /\ card["main"] # "none"  BY <1>1, <1>8, <2>6, <5>1, <6>1
          <6>3. QED  BY <1>2, <6>2, KeysNamed DEF TypeOK
        <5>3. \A g \in Handlers : Knows(st[g])'  BY <4>1, <4>3, <4>6, <5>2 DEF Knows
        <5>4. Knows(t)' /\ Voiced(handler[h].says, t)  BY <4>1, <5>1, <5>3 DEF s, Knows
        <5>5. StillUp'  BY <1>1, <1>8, <4>1, <4>3, <4>4, <4>6, <5>2 DEF StillUp
        <5>6. Held(t \in Pledges \/ \E g \in Handlers \ {h} : st[g] \in Pledges)'
          <6>1. (\E g \in Handlers : st[g] \in Pledges) => t \in Pledges \/ \E g \in Handlers \ {h} : st[g] \in Pledges
            BY <5>1 DEF s
          <6>2. row["main"] \/ (\E g \in Handlers : st[g] \in Pledges) \/ (provider \notin Firm /\ end["main"] # "none")
            BY <4>1, <5>2 DEF Held
          <6>3. QED  BY <1>1, <4>3, <4>4, <6>1, <6>2 DEF Held
        <5>7. Shut(t = "closing" \/ \E g \in Handlers \ {h} : st[g] = "closing")'
          <6>1. (\E g \in Handlers : st[g] = "closing") => \E g \in Handlers \ {h} : st[g] = "closing"
            BY <4>6 DEF s
          <6>2. QED  BY <1>1, <4>1, <4>2, <4>3, <5>2, <6>1 DEF Shut
        <5>8. QED  BY <5>3, <5>4, <5>5, <5>6, <5>7
      <4>7. CASE x.state = "ongoing" /\ s # "free"
        <5>1. \/ s = "kept" /\ t = "shown"
              \/ s \in {"up", "shown", "closing"} /\ t = s
          BY <4>2, <4>7 DEF Updated
        <5>2. t # "closing" => NoEnd  BY <4>1, <5>1 DEF Knows
        <5>3. Knows(t)'  BY <4>1, <4>3, <4>7, <5>1, <5>2 DEF Knows
        <5>4. Voiced(handler[h].says, t)  BY <4>1, <5>1 DEF Voiced
        <5>5. \A g \in Handlers \ {h} : Knows(st[g])'
          <6> TAKE g \in Handlers \ {h}
          <6>1. Knows(st[g]) /\ Voiced(handler[g].says, st[g])  BY <4>1
          <6>2. st[g] # "seen"
            <7> SUFFICES ASSUME st[g] = "seen" PROVE FALSE  OBVIOUS
            <7>1. provider = "starr" /\ handler[g].says = "unsure"  BY <6>1 DEF Voiced
            <7>2. s \in {"free", "seen"}  BY <4>1, <4>4, <7>1 DEF Voiced
            <7>3. QED  BY <5>1, <7>2
          <6>3. QED  BY <4>3, <4>7, <6>1, <6>2 DEF Knows
        <5>6. Held(t \in Pledges \/ \E g \in Handlers \ {h} : st[g] \in Pledges)'
          <6>1. t = "shown" => row["main"]  BY <4>1, <5>1 DEF Knows
          <6>2. t = "closing" => t \in Pledges  BY <4>1, <5>1 DEF Voiced, Pledges, Firm
          <6>3. t = "up" => row["main"] \/ (\E g \in Handlers : st[g] \in Pledges)
                              \/ (provider \notin Firm /\ end["main"] # "none")
            BY <4>1, <5>1 DEF Knows, Held
          <6>4. t = "up" /\ (\E g \in Handlers : st[g] \in Pledges) => t \in Pledges \/ \E g \in Handlers \ {h} : st[g] \in Pledges
            BY <5>1 DEF s
          <6>5. QED  BY <1>1, <4>3, <4>4, <5>1, <6>1, <6>2, <6>3, <6>4 DEF Held
        <5>7. Shut(t = "closing" \/ \E g \in Handlers \ {h} : st[g] = "closing")'
          <6>1. t # "closing" => callback["main"] = "none"  BY <5>2 DEF NoEnd
          <6>2. QED  BY <1>1, <4>1, <4>2, <4>3, <6>1 DEF Shut
        <5>8. StillUp'
          <6>1. t = "closing" => handler[h].says = "off"  BY <4>1, <5>1 DEF Voiced
          <6>2. QED  BY <4>3, <4>4, <4>7, <5>2, <6>1 DEF StillUp
        <5>9. QED  BY <5>3, <5>4, <5>5, <5>6, <5>7, <5>8
      <4>8. QED  BY <2>2, <4>5, <4>6, <4>7
    <3>3. hurt \subseteq hurt'  BY <1>8
    <3>4. QED  BY <1>2, <1>3, <1>5, <1>6, <2>1, <2>4, <3>2, <3>3, GoesTo
  <2>7. QED  BY <2>5, <2>6
<1>9. QED  BY <1>4, <1>7, <1>8 DEF UpdateActivity

\* Notifications and the repeats have no part in it.
LEMMA TellingKeepsCard ==
  ASSUME KInv, NEW h \in Handlers, Notify(h) \/ Send1(h) \/ CancelRepeats(h)
  PROVE  KInv'
<1> DEFINE q == Tail(handler[h].plan)  x == Call(h)
<1>1. /\ handler[h].plan # <<>> /\ x.do \in {"push", "send", "cancel"} /\ UNCHANGED config
      /\ UNCHANGED <<provider, row, end, callback, card, last, raced>>
  BY DEF Notify, Send1, CancelRepeats, Calls, config, ends
<1>2. TypeOK /\ Typed /\ OneVoice /\ provider \in Providers  BY DEF KInv
<1>3. \/ Fails(h, "call") /\ UNCHANGED <<note, repeats>>
      \/ /\ Next1(h) /\ UNCHANGED hurt
         /\ note' \in {"none", "alert", "resolved"} /\ repeats' \in BOOLEAN
  <2>1. PICK st \in [Handlers -> Stages] : Staged(st)  BY DEF KInv
  <2>2. x.do \in {"push", "send"} => x.note \in {"notice", "alert", "resolved"}
    BY <1>1, <2>1, AtCall DEF Legible
  <2>3. note \in {"none", "alert", "resolved"} /\ repeats \in BOOLEAN  BY <1>2 DEF TypeOK
  <2>4. CASE Notify(h)  BY <2>2, <2>3, <2>4 DEF Notify, Calls
  <2>5. CASE Send1(h)
    <3>1. \/ Fails(h, "call") /\ UNCHANGED <<note, repeats>>
          \/ /\ Next1(h) /\ UNCHANGED hurt /\ x.do = "send"
             /\ note' = IF x.note = "notice" THEN note ELSE x.note
             /\ repeats' \in {repeats, repeats \/ (x.acked /\ x.note = "alert")}
      BY <2>5, Zenon DEF Send1, Calls
    <3>2. {repeats, repeats \/ (x.acked /\ x.note = "alert")} \subseteq BOOLEAN  BY <2>3
    <3>3. QED  BY <2>2, <2>3, <3>1, <3>2
  <2>6. CASE CancelRepeats(h)  BY <2>3, <2>6 DEF CancelRepeats
  <2>7. QED  BY <2>4, <2>5, <2>6
<1>4. CASE Fails(h, "call") /\ UNCHANGED <<note, repeats>>
  BY <1>1, <1>2, <1>4, FailureKeeps DEF CanFail, TypeOK
<1>5. CASE Next1(h) /\ UNCHANGED hurt /\ note' \in {"none", "alert", "resolved"} /\ repeats' \in BOOLEAN
  <2>1. Takes(h, q)  BY <1>1, <1>5 DEF Takes, Next1
  <2>2. TypeOK'  BY <1>1, <1>2, <1>5, <2>1, TypeGoes DEF TypeOK
  <2>3. x.do \in Acting /\ Incidental(x) /\ MainSame /\ hurt \subseteq hurt' /\ (raced => raced')
    BY <1>1, <1>5 DEF Acting, Incidental, MainSame
  <2>4. QED  BY <1>1, <2>1, <2>2, <2>3, PassesBy
<1>6. QED  BY <1>3, <1>4, <1>5

LEMMA TakeBackKeepsCard ==
  ASSUME KInv, NEW h \in Handlers, TakeBack(h)
  PROVE  KInv'
<1> DEFINE p == handler[h].plan  x == Call(h)
<1>1. /\ p # <<>> /\ x.do = "retract" /\ UNCHANGED config
      /\ UNCHANGED <<provider, row, end, callback, card, repeats, last, raced>>
  BY DEF TakeBack, Calls, config, ends
<1>2. TypeOK /\ Typed /\ OneVoice /\ provider \in Providers  BY DEF KInv
<1>3. PICK st \in [Handlers -> Stages] : Staged(st)  BY DEF KInv
<1>4. st[h] \in Stages /\ Fits(Setting, st[h], x.gone)
      /\ \A q \in Else(p) : Fits(Setting, AfterFault(Setting, x, st[h]), q)
  BY <1>1, <1>3, AtCall DEF CanFail
<1>5. AfterFault(Setting, x, st[h]) = st[h]  BY <1>1 DEF AfterFault
<1>6. MainSame  BY <1>1 DEF MainSame
<1>7. CASE Fails(h, "call") /\ UNCHANGED note
  BY <1>1, <1>2, <1>7, FailureKeeps DEF CanFail, TypeOK
<1>8. ASSUME NEW q, Takes(h, q), Fits(Setting, st[h], q), note' \in {"none", note}, UNCHANGED hurt
      PROVE  KInv'
  <2>1. TypeOK'  BY <1>1, <1>2, <1>8, TypeGoes DEF TypeOK
  <2>2. QED  BY <1>1, <1>2, <1>3, <1>4, <1>6, <1>8, <2>1, StageTo
<1>9. CASE Otherwise(h) /\ UNCHANGED <<hurt, note>>
  <2>1. PICK q \in Else(p) : Takes(h, q)  BY <1>1, <1>9, GoesElse
  <2>2. QED  BY <1>4, <1>5, <1>8, <1>9, <2>1
<1>10. CASE note' = "none" /\ Goto(h, x.gone) /\ UNCHANGED hurt
  <2>1. Takes(h, x.gone)  BY <1>1, <1>10 DEF Takes
  <2>2. QED  BY <1>4, <1>8, <1>10, <2>1
<1>11. QED  BY <1>7, <1>9, <1>10 DEF TakeBack

---------------------------------------------------------------------------
(* The first and the last step of a handler.                               *)

\* A handler begins or ends: it is at stage t with webhook w.
LEMMA Becomes ==
  ASSUME KInv, NEW st \in [Handlers -> Stages], Staged(st), NEW h \in Handlers, NEW w,
         w = [says |-> w.says, plan |-> w.plan], handler' = [handler EXCEPT ![h] = w],
         w.says \in {"alert", "on", "off", "unsure", "nothing"},
         \A g \in Busy : g = h \/ w = Idle \/ handler[g].says = w.says,
         UNCHANGED <<provider, urls, row, end, callback, card, repeats, note, hurt, raced>>,
         last' \in {"nothing", "alert", "on", "off", "unsure"},
         NEW t \in Stages, Fits(Setting, t, w.plan),
         Sound /\ Stands(st) =>
           /\ Knows(t) /\ Voiced(w.says, t) /\ st[h] \notin Pledges \union {"closing"}
           /\ hurt \subseteq {"read"} /\ AllActivity /\ provider \notin {"backrest", "starr notifying"}
              /\ last' \in {"alert", "on"} /\ (\A g \in Handlers : handler'[g].says \notin {"off", "unsure"})
              => card["main"] = "ongoing" /\ NoEnd
  PROVE  KInv'
<1>1. TypeOK /\ Typed /\ OneVoice /\ provider \in Providers  BY DEF KInv
<1>2. /\ handler'[h] = w /\ \A g \in Handlers : g # h => handler'[g] = handler[g]
      /\ handler' = [g \in Handlers |-> [says |-> handler'[g].says, plan |-> handler'[g].plan]]
  <2>1. handler = [g \in Handlers |-> [says |-> handler[g].says, plan |-> handler[g].plan]]
    BY <1>1 DEF Typed
  <2>2. handler'[h] = w /\ \A g \in Handlers : g # h => handler'[g] = handler[g]  BY <2>1
  <2>3. handler' = [g \in Handlers |-> handler'[g]]  BY <2>1
  <2>4. \A g \in Handlers : handler'[g] = [says |-> handler'[g].says, plan |-> handler'[g].plan]
    <3>1. \A g \in Handlers : handler[g] = [says |-> handler[g].says, plan |-> handler[g].plan]  BY <2>1
    <3>2. QED  BY <2>2, <3>1
  <2>5. QED  BY <2>2, <2>3, <2>4
<1>3. Setting' = Setting /\ (AllActivity' <=> AllActivity)  BY DEF Setting, AllActivity, Notifies
<1>4. TypeOK'
  <2>1. \A g \in Handlers : handler'[g].says \in {"alert", "on", "off", "unsure", "nothing"}
    BY <1>1, <1>2 DEF TypeOK
  <2>2. QED  BY <1>1, <2>1 DEF TypeOK
<1>5. Typed'  BY <1>1, <1>2 DEF Typed
<1>6. OneVoice'
  <2>1. \A g \in Busy' : (g = h /\ w # Idle) \/ (g \in Busy /\ g # h /\ handler'[g] = handler[g])  BY <1>2 DEF Busy
  <2>2. CASE w = Idle
    <3>1. \A g \in Busy' : g \in Busy /\ handler'[g].says = handler[g].says  BY <2>1, <2>2
    <3>2. QED  BY <1>1, <3>1 DEF OneVoice
  <2>3. CASE w # Idle
    <3>1. \A g \in Busy' : handler'[g].says = w.says  BY <1>2, <2>1, <2>3
    <3>2. QED  BY <3>1 DEF OneVoice
  <2>4. QED  BY <2>2, <2>3
<1> DEFINE ns == [st EXCEPT ![h] = t]
<1>7. ns \in [Handlers -> Stages] /\ ns[h] = t /\ \A g \in Handlers : g # h => ns[g] = st[g]  OBVIOUS
<1> HIDE DEF ns
<1>8. ASSUME NEW g \in Handlers PROVE Fits(Setting', ns[g], handler'[g].plan)
  <2>1. CASE g = h  BY <1>2, <1>3, <1>7, <2>1
  <2>2. CASE g # h
    <3>1. Fits(Setting, st[g], handler[g].plan)  BY DEF Staged
    <3>2. QED  BY <1>2, <1>3, <1>7, <2>2, <3>1
  <2>3. QED  BY <2>1, <2>2
<1>9. ASSUME Sound' PROVE Stands(ns)'
  <2>1. Sound  BY <1>3, <1>9 DEF Sound
  <2>2. Stands(st)  BY <2>1 DEF Staged
  <2>3. /\ \A g \in Handlers : Knows(st[g]) /\ Voiced(handler[g].says, st[g])
        /\ Held(\E g \in Handlers : st[g] \in Pledges) /\ Shut(\E g \in Handlers : st[g] = "closing")
    BY <2>2 DEF Stands
  <2>4. Pledges' = Pledges /\ (NoEnd' <=> NoEnd)  BY DEF Pledges, NoEnd
  <2>5. ASSUME NEW g \in Handlers PROVE (Knows(ns[g]) /\ Voiced(handler[g].says, ns[g]))'
    <3>1. Knows(ns[g]) /\ Voiced(handler'[g].says, ns[g])
      <4>1. CASE g = h
        <5>1. Knows(t) /\ Voiced(w.says, t)  BY <2>1, <2>2
        <5>2. QED  BY <1>2, <1>7, <4>1, <5>1
      <4>2. CASE g # h
        <5>1. Knows(st[g]) /\ Voiced(handler[g].says, st[g])  BY <2>3
        <5>2. QED  BY <1>2, <1>7, <4>2, <5>1
      <4>3. QED  BY <4>1, <4>2
    <3>2. QED  BY <1>3, <2>4, <3>1 DEF Knows, Voiced
  <2>6. st[h] \notin Pledges \union {"closing"}  BY <2>1, <2>2
  <2>7. (\E g \in Handlers : st[g] \in Pledges) => \E g \in Handlers : ns[g] \in Pledges'  BY <1>7, <2>4, <2>6
  <2>8. (\E g \in Handlers : st[g] = "closing") => \E g \in Handlers : ns[g] = "closing"  BY <1>7, <2>6
  <2>9. Held(\E g \in Handlers : ns[g] \in Pledges)'  BY <2>3, <2>7 DEF Held
  <2>10. Shut(\E g \in Handlers : ns[g] = "closing")'  BY <2>3, <2>8 DEF Shut
  <2>11. StillUp'  BY <1>3, <2>1, <2>2, <2>4 DEF StillUp
  <2>12. QED  BY <2>5, <2>9, <2>10, <2>11 DEF Stands, Held, Shut
<1>10. Staged(ns)'  BY <1>8, <1>9 DEF Staged
<1>11. QED  BY <1>1, <1>4, <1>5, <1>6, <1>7, <1>10 DEF KInv

\* A handler answers 200 when it has left the card alone, shown it, or begun
\* its end.
LEMMA RespondKeepsCard ==
  ASSUME KInv, NEW h \in Handlers, Respond(h)
  PROVE  KInv'
<1>1. /\ handler[h].plan # <<>> /\ Call(h).do = "answer" /\ handler' = [handler EXCEPT ![h] = Idle]
      /\ last' = IF handler[h].says = "nothing" THEN last
                 ELSE IF Call(h).ok THEN handler[h].says ELSE "unsure"
      /\ UNCHANGED <<provider, urls, row, end, callback, card, repeats, note, hurt, raced>>
  BY DEF Respond, Calls, config, ends, server
<1>2. TypeOK /\ Typed /\ OneVoice /\ provider \in Providers  BY DEF KInv
<1>3. PICK st \in [Handlers -> Stages] : Staged(st)  BY DEF KInv
<1>4. MayAnswer(Call(h), st[h])  BY <1>1, <1>3, AtCall
<1>5. Idle = [says |-> Idle.says, plan |-> Idle.plan] /\ Idle.says = "nothing" /\ Idle.plan = <<>>  BY DEF Idle
<1>6. last' \in {"nothing", "alert", "on", "off", "unsure"}  BY <1>1, <1>2 DEF TypeOK
<1>7. "aside" \in Stages /\ Fits(Setting, "aside", Idle.plan)  BY <1>5, FitsNothing DEF Stages
<1>8. \A g \in Handlers : g # h => handler'[g] = handler[g]  BY <1>1, <1>2 DEF Typed
<1>9. ASSUME Sound, Stands(st)
      PROVE  /\ Knows("aside") /\ Voiced(Idle.says, "aside") /\ st[h] \notin Pledges \union {"closing"}
             /\ hurt \subseteq {"read"} /\ AllActivity /\ provider \notin {"backrest", "starr notifying"}
                /\ last' \in {"alert", "on"} /\ (\A g \in Handlers : handler'[g].says \notin {"off", "unsure"})
                => card["main"] = "ongoing" /\ NoEnd
  <2>1. Knows(st[h]) /\ Voiced(handler[h].says, st[h]) /\ StillUp  BY <1>9 DEF Stands
  <2>2. \/ st[h] \in {"aside", "free", "over", "shown"}
        \/ ~Call(h).ok /\ st[h] \in {"fresh", "kept"}
    BY <1>4, <2>1 DEF MayAnswer, Knows
  <2>3. st[h] \notin Pledges \union {"closing"}  BY <2>2 DEF Pledges
  <2>4. Knows("aside") /\ Voiced(Idle.says, "aside")  BY <1>5 DEF Knows, Voiced
  <2>5. ASSUME hurt \subseteq {"read"}, AllActivity, provider \notin {"backrest", "starr notifying"},
               last' \in {"alert", "on"}, \A g \in Handlers : handler'[g].says \notin {"off", "unsure"}
        PROVE  card["main"] = "ongoing" /\ NoEnd
    <3>1. CASE handler[h].says = "nothing"  BY <1>1, <1>8, <2>1, <2>5, <3>1 DEF StillUp
    <3>2. CASE handler[h].says # "nothing"
      <4>1. Call(h).ok /\ handler[h].says \in {"alert", "on"}  BY <1>1, <2>5, <3>2
      <4>2. st[h] = "shown"  BY <2>1, <2>2, <2>5, <4>1 DEF Voiced
      <4>3. QED  BY <2>1, <4>2 DEF Knows
    <3>3. QED  BY <3>1, <3>2
  <2>6. QED  BY <2>3, <2>4, <2>5
<1>10. QED  BY <1>1, <1>3, <1>5, <1>6, <1>7, <1>9, Becomes

LEMMA Delivered ==
  ASSUME provider \in Providers, NEW u \in urls, NEW w \in Webhooks(provider, u)
  PROVE  Said(Setting, w)
<1> DEFINE c == Setting
<1>1. c.service = provider  BY DEF Setting
<1>2. c.shows \in BOOLEAN /\ (c.shows => AllowsActivity(u))
  <2>1. c.shows = AllActivity  BY DEF Setting
  <2>2. AllActivity \in BOOLEAN  BY DEF AllActivity
  <2>3. AllActivity => AllowsActivity(u)  BY DEF AllActivity
  <2>4. QED  BY <2>1, <2>2, <2>3
<1> HIDE DEF c
<1>3. c.service \in Providers /\ w \in Webhooks(c.service, u)  BY <1>1
<1>4. Said(c, w)  BY <1>2, <1>3, WebhookFits
<1>5. QED  BY <1>4 DEF c

LEMMA DeliverKeepsCard ==
  ASSUME KInv, NEW h \in Handlers, Deliver(h)
  PROVE  KInv'
<1>1. PICK u \in urls : \E webhook \in Webhooks(provider, u) :
        /\ \A g \in Busy : handler[g].says = webhook.says
        /\ handler' = [handler EXCEPT ![h] = webhook]
  BY DEF Deliver
<1>2. PICK w \in Webhooks(provider, u) :
        /\ \A g \in Busy : handler[g].says = w.says
        /\ handler' = [handler EXCEPT ![h] = w]
  BY <1>1
<1>3. /\ handler[h] = Idle
      /\ UNCHANGED <<provider, urls, row, end, callback, card, repeats, note, hurt, raced, last>>
  BY DEF Deliver, config, ends, server, ghosts
<1>4. TypeOK /\ Typed /\ OneVoice /\ provider \in Providers  BY DEF KInv
<1>5. PICK st \in [Handlers -> Stages] : Staged(st)  BY DEF KInv
<1>6. Said(Setting, w)  BY <1>4, Delivered
<1> DEFINE t == Opening(Setting, w.says)
<1>7. t \in Stages  BY DEF Opening, Stages
<1>8. handler[h].says = "nothing"  BY <1>3 DEF Idle
<1>9. handler'[h] = w /\ \A g \in Handlers : g # h => handler'[g] = handler[g]  BY <1>2, <1>4 DEF Typed
<1>10. ASSUME Sound, Stands(st)
       PROVE  /\ Knows(t) /\ Voiced(w.says, t) /\ st[h] \notin Pledges \union {"closing"}
              /\ hurt \subseteq {"read"} /\ AllActivity /\ provider \notin {"backrest", "starr notifying"}
                 /\ last' \in {"alert", "on"} /\ (\A g \in Handlers : handler'[g].says \notin {"off", "unsure"})
                 => card["main"] = "ongoing" /\ NoEnd
  <2>1. Voiced("nothing", st[h]) /\ StillUp  BY <1>8, <1>10 DEF Stands
  <2>2. st[h] = "aside"  BY <2>1 DEF Voiced
  <2>3. Setting.service = provider /\ (Setting.shows <=> AllActivity)
    <3>1. AllActivity \in BOOLEAN  BY DEF AllActivity
    <3>2. QED  BY <3>1 DEF Setting
  <2>4. ~Unconcerned(Setting)  BY <1>10, <2>3 DEF Unconcerned, Sound
  <2>5. t = IF w.says = "off" THEN "over"
            ELSE IF w.says = "nothing" THEN "aside"
            ELSE IF w.says = "unsure" \/ ~AllActivity \/ provider = "starr notifying" THEN "free"
            ELSE "fresh"
    BY <2>3, <2>4 DEF Opening
  <2>6. w.says \in {"alert", "on", "off", "unsure", "nothing"}  BY <1>6 DEF Said
  <2>7. provider = "starr" => AllActivity  BY <1>10 DEF Sound
  <2> HIDE DEF t
  <2>8. Knows(t) /\ Voiced(w.says, t)  BY <2>5, <2>6, <2>7 DEF Knows, Voiced
  <2>9. st[h] \notin Pledges \union {"closing"}  BY <2>2 DEF Pledges
  <2>10. QED  BY <1>3, <1>8, <1>9, <2>1, <2>8, <2>9 DEF StillUp
<1>11. Fits(Setting, t, w.plan) /\ w.says \in {"alert", "on", "off", "unsure", "nothing"}
       /\ w = [says |-> w.says, plan |-> w.plan]
  BY <1>6 DEF Said
<1>12. last' \in {"nothing", "alert", "on", "off", "unsure"}  BY <1>3, <1>4 DEF TypeOK
<1> HIDE DEF t
<1>13. QED  BY <1>2, <1>3, <1>5, <1>7, <1>10, <1>11, <1>12, Becomes

---------------------------------------------------------------------------
(* What goes on without the handlers.                                      *)

\* A step of the Ender, of any activity.
LEMMA EndGoesOn ==
  ASSUME KInv, TypeOK', UNCHANGED <<provider, urls, handler, last>>,
         hurt \subseteq hurt', raced => raced',
         Sound' =>
           \/ MainSame
           \/ /\ ~NoEnd /\ ~NoEnd'
              /\ card'["main"] = "ongoing" => card["main"] = "ongoing"
              /\ row'["main"] = row["main"] /\ end'["main"] # "none"
              /\ callback'["main"] = "row" => card'["main"] # "ongoing"
              /\ callback'["main"] # "none" => end'["main"] = "running"
           \/ /\ callback["main"] = "row" /\ callback'["main"] = "none" /\ card'["main"] = card["main"]
  PROVE  KInv'
<1>1. TypeOK /\ Typed /\ OneVoice /\ provider \in Providers  BY DEF KInv
<1>2. PICK st \in [Handlers -> Stages] : Staged(st)  BY DEF KInv
<1>3. Setting' = Setting /\ (AllActivity' <=> AllActivity)  BY DEF Setting, AllActivity, Notifies
<1>4. OneVoice'  BY <1>1 DEF OneVoice, Busy
<1>5. Typed'  BY <1>1 DEF Typed, TypeOK
<1>6. \A g \in Handlers : Fits(Setting', st[g], handler'[g].plan)  BY <1>2, <1>3 DEF Staged
<1>7. Pledges' = Pledges  BY DEF Pledges
<1>8. hurt' \subseteq {"read"} => hurt \subseteq {"read"}  OBVIOUS
<1>9. ASSUME Sound' PROVE Stands(st)'
  <2>1. Sound  BY <1>3, <1>9 DEF Sound
  <2>2. /\ \A g \in Handlers : Knows(st[g]) /\ Voiced(handler[g].says, st[g])
        /\ Held(\E g \in Handlers : st[g] \in Pledges) /\ Shut(\E g \in Handlers : st[g] = "closing") /\ StillUp
    BY <1>2, <2>1 DEF Staged, Stands
  <2>3. \A g \in Handlers : Voiced(handler[g].says, st[g])'  BY <1>3, <2>2 DEF Voiced
  <2>4. CASE MainSame
    <3>1. NoEnd' <=> NoEnd  BY <2>4 DEF MainSame, NoEnd
    <3>2. \A g \in Handlers : Knows(st[g])'  BY <2>2, <2>4, <3>1 DEF Knows, MainSame
    <3>3. Held(\E g \in Handlers : st[g] \in Pledges)'  BY <1>7, <2>2, <2>4 DEF Held, MainSame
    <3>4. Shut(\E g \in Handlers : st[g] = "closing")'  BY <2>2, <2>4 DEF Shut, MainSame
    <3>5. StillUp'  BY <1>3, <1>8, <2>2, <2>4, <3>1 DEF StillUp, MainSame
    <3>6. QED  BY <2>3, <3>2, <3>3, <3>4, <3>5 DEF Stands, Held, Shut
  <2>5. ASSUME ~NoEnd PROVE \A g \in Handlers : st[g] \notin {"any", "clear", "kept", "up", "shown"}
    BY <2>2, <2>5 DEF Knows
  <2>6. ASSUME ~NoEnd PROVE StillUp'  BY <1>3, <1>8, <2>2, <2>6 DEF StillUp
  <2>7. CASE /\ ~NoEnd /\ ~NoEnd'
             /\ card'["main"] = "ongoing" => card["main"] = "ongoing"
             /\ row'["main"] = row["main"] /\ end'["main"] # "none"
             /\ callback'["main"] = "row" => card'["main"] # "ongoing"
             /\ callback'["main"] # "none" => end'["main"] = "running"
    <3>1. \A g \in Handlers : Knows(st[g])'  BY <2>2, <2>5, <2>7 DEF Knows
    <3>2. Held(\E g \in Handlers : st[g] \in Pledges)'  BY <1>7, <2>2, <2>7 DEF Held
    <3>3. Shut(\E g \in Handlers : st[g] = "closing")'  BY <2>2, <2>7 DEF Shut
    <3>4. QED  BY <2>3, <2>6, <2>7, <3>1, <3>2, <3>3 DEF Stands, Held, Shut
  <2>8. CASE callback["main"] = "row" /\ callback'["main"] = "none" /\ card'["main"] = card["main"]
    <3>1. ~NoEnd  BY <2>8 DEF NoEnd
    <3>2. card["main"] = "ongoing" => \E g \in Handlers : st[g] = "closing"  BY <2>2, <2>8 DEF Shut
    <3>3. ASSUME NEW g \in Handlers, st[g] = "seen" PROVE card["main"] # "ongoing"
      <4> SUFFICES ASSUME NEW f \in Handlers, st[f] = "closing" PROVE FALSE  BY <3>2
      <4>1. handler[f].says = "off" /\ handler[g].says = "unsure"  BY <2>2, <3>3 DEF Voiced
      <4>2. f \in Busy /\ g \in Busy  BY <4>1 DEF Busy, Idle
      <4>3. QED  BY <1>1, <4>1, <4>2 DEF OneVoice
    <3>4. \A g \in Handlers : Knows(st[g])'  BY <2>5, <2>8, <3>1, <3>3 DEF Knows
    <3>5. Held(\E g \in Handlers : st[g] \in Pledges)'
      <4>1. \A g \in Handlers : st[g] = "closing" => st[g] \in Pledges  BY <2>2 DEF Voiced, Pledges, Firm
      <4>2. QED  BY <1>7, <2>8, <3>2, <4>1 DEF Held
    <3>6. Shut(\E g \in Handlers : st[g] = "closing")'  BY <2>2, <2>8 DEF Shut
    <3>7. QED  BY <2>3, <2>6, <3>1, <3>4, <3>5, <3>6 DEF Stands, Held, Shut
  <2>9. QED  BY <1>9, <2>4, <2>7, <2>8
<1>10. Staged(st)'  BY <1>6, <1>9 DEF Staged
<1>11. QED  BY <1>1, <1>2, <1>4, <1>5, <1>10 DEF KInv

\* The two phases of an end, and its running callback.
LEMMA EnderKeepsCard ==
  ASSUME KInv, NEW k \in Keys, EnderStep(k)
  PROVE  KInv'
<1>1. TypeOK /\ provider \in Providers /\ "main" \in Keys  BY KeysNamed DEF KInv
<1>2. Sound => (callback["main"] # "none" => end["main"] = "running")  BY DEF KInv, Staged, Stands, Shut
<1>3. UNCHANGED <<provider, urls, handler, last, repeats, note, raced>>
  BY DEF EnderStep, Phase1, FirePhase2, SendEnded, DeleteRow, config, server, ghosts
<1>4. hurt \subseteq hurt' /\ hurt' \subseteq {"read", "write", "call", "lostEnd", "crash"}
  BY <1>1 DEF EnderStep, Phase1, FirePhase2, SendEnded, DeleteRow, ghosts, Fault, TypeOK
<1>5. Sound' => Sound
  <2>1. AllActivity' <=> AllActivity  BY <1>3 DEF AllActivity
  <2>2. QED  BY <1>3, <1>4, <2>1 DEF Sound
<1>6. CASE Phase1(k)
  <2>1. /\ end[k] = "phase1" /\ end' = [end EXCEPT ![k] = "phase2"]
        /\ UNCHANGED <<row, callback, card>>
    BY <1>6 DEF Phase1, config, server, ghosts
  <2>2. TypeOK'  BY <1>1, <1>3, <1>4, <2>1 DEF TypeOK
  <2>3. CASE k = "main"
    <3>1. ~NoEnd /\ ~NoEnd'  BY <1>1, <2>1, <2>3 DEF NoEnd, TypeOK
    <3>2. Sound => callback["main"] = "none"  BY <1>2, <2>1, <2>3
    <3>3. end'["main"] # "none"  BY <1>1, <2>1, <2>3 DEF TypeOK
    <3>4. QED  BY <1>3, <1>4, <1>5, <2>1, <2>2, <3>1, <3>2, <3>3, EndGoesOn
  <2>4. CASE k # "main"
    <3>1. MainSame  BY <1>1, <2>1, <2>4 DEF MainSame, TypeOK
    <3>2. QED  BY <1>3, <1>4, <2>2, <3>1, EndGoesOn
  <2>5. QED  BY <2>3, <2>4
<1>7. CASE FirePhase2(k)
  <2>1. /\ end[k] = "phase2" /\ end' = [end EXCEPT ![k] = "running"]
        /\ callback' = [callback EXCEPT ![k] = "ended"] /\ UNCHANGED <<row, card>>
    BY <1>7 DEF FirePhase2, config, server, ghosts
  <2>2. TypeOK'  BY <1>1, <1>3, <1>4, <2>1 DEF TypeOK
  <2>3. CASE k = "main"
    <3>1. ~NoEnd /\ ~NoEnd'  BY <1>1, <2>1, <2>3 DEF NoEnd, TypeOK
    <3>2. end'["main"] = "running" /\ callback'["main"] = "ended"  BY <1>1, <2>1, <2>3 DEF TypeOK
    <3>3. QED  BY <1>3, <1>4, <2>1, <2>2, <3>1, <3>2, EndGoesOn
  <2>4. CASE k # "main"
    <3>1. MainSame  BY <1>1, <2>1, <2>4 DEF MainSame, TypeOK
    <3>2. QED  BY <1>3, <1>4, <2>2, <3>1, EndGoesOn
  <2>5. QED  BY <2>3, <2>4
<1>8. CASE SendEnded(k)
  <2>1. /\ callback[k] = "ended" /\ callback' = [callback EXCEPT ![k] = "row"] /\ UNCHANGED <<row, end>>
        /\ \/ card' = [card EXCEPT ![k] = IF @ = "none" THEN @ ELSE "ended"]
           \/ Fault("lostEnd") /\ UNCHANGED card
    BY <1>8 DEF SendEnded, config
  <2>2. TypeOK'  BY <1>1, <1>3, <1>4, <2>1 DEF TypeOK
  <2>3. Sound' => card' = [card EXCEPT ![k] = IF @ = "none" THEN @ ELSE "ended"]
    BY <1>1, <1>3, <2>1, Survived
  <2>4. CASE k = "main"
    <3>1. ~NoEnd /\ ~NoEnd' /\ callback'["main"] = "row"  BY <1>1, <2>1, <2>4 DEF NoEnd, TypeOK
    <3>2. Sound' => card'["main"] # "ongoing"  BY <1>1, <2>3, <2>4 DEF TypeOK
    <3>3. Sound' => end'["main"] = "running"  BY <1>2, <1>5, <2>1, <2>4
    <3>4. QED  BY <1>3, <1>4, <2>1, <2>2, <3>1, <3>2, <3>3, EndGoesOn
  <2>5. CASE k # "main"
    <3>1. Sound' => MainSame  BY <1>1, <2>1, <2>3, <2>5 DEF MainSame, TypeOK
    <3>2. QED  BY <1>3, <1>4, <2>2, <3>1, EndGoesOn
  <2>6. QED  BY <2>4, <2>5
<1>9. CASE DeleteRow(k)
  <2>1. /\ callback[k] = "row" /\ callback' = [callback EXCEPT ![k] = "none"] /\ UNCHANGED card
        /\ end' = [end EXCEPT ![k] = IF @ = "running" THEN "none" ELSE @]
        /\ row' = [row EXCEPT ![k] = FALSE] \/ UNCHANGED row
    BY <1>9 DEF DeleteRow, config, server
  <2>2. row' \in [Keys -> BOOLEAN]  BY <1>1, <2>1 DEF TypeOK
  <2>3. end' \in [Keys -> {"none", "phase1", "phase2", "running"}]  BY <1>1, <2>1 DEF TypeOK
  <2>4. TypeOK'  BY <1>1, <1>3, <1>4, <2>1, <2>2, <2>3 DEF TypeOK
  <2>5. CASE k = "main"
    <3>1. callback["main"] = "row" /\ callback'["main"] = "none" /\ card'["main"] = card["main"]
      BY <1>1, <2>1, <2>5 DEF TypeOK
    <3>2. QED  BY <1>3, <1>4, <2>4, <3>1, EndGoesOn
  <2>6. CASE k # "main"
    <3>1. MainSame  BY <1>1, <2>1, <2>6 DEF MainSame, TypeOK
    <3>2. QED  BY <1>3, <1>4, <2>4, <3>1, EndGoesOn
  <2>7. QED  BY <2>5, <2>6
<1>10. QED  BY <1>6, <1>7, <1>8, <1>9 DEF EnderStep

\* A crash forgets the ends: what the alerting services need not remember.
LEMMA CrashKeepsCard ==
  ASSUME KInv, Crash
  PROVE  KInv'
<1>1. TypeOK /\ Typed /\ OneVoice /\ provider \in Providers  BY DEF KInv
<1>2. /\ handler' = [h \in Handlers |-> Idle]
      /\ end' = [k \in Keys |-> "none"] /\ callback' = [k \in Keys |-> "none"]
      /\ last' = (IF Busy = {} THEN last ELSE "unsure") /\ Fault("crash")
      /\ UNCHANGED <<provider, urls, row, card, repeats, note, raced>>
  BY DEF Crash, config, server
<1>3. PICK st \in [Handlers -> Stages] : Staged(st)  BY DEF KInv
<1>4. \A h \in Handlers : handler'[h] = Idle /\ handler'[h].says = "nothing" /\ handler'[h].plan = <<>>
  BY <1>2 DEF Idle
<1>5. Typed'
  <2>1. handler' = [h \in Handlers |-> [says |-> handler'[h].says, plan |-> handler'[h].plan]]
    BY <1>2 DEF Idle
  <2>2. QED  BY <1>1, <1>2, <2>1 DEF Typed
<1>6. TypeOK'  BY <1>1, <1>2, <1>4 DEF TypeOK, Fault
<1>7. OneVoice'  BY <1>4 DEF OneVoice, Busy
<1>8. Setting' = Setting /\ (AllActivity' <=> AllActivity)  BY <1>2 DEF Setting, AllActivity, Notifies
<1> DEFINE ns == [h \in Handlers |-> "aside"]
<1>9. "aside" \in Stages /\ ns \in [Handlers -> Stages] /\ \A h \in Handlers : ns[h] = "aside"  BY DEF Stages
<1> HIDE DEF ns
<1>10. \A h \in Handlers : Fits(Setting', ns[h], handler'[h].plan)  BY <1>4, <1>9, FitsNothing
<1>11. ASSUME Sound' PROVE Stands(ns)'
  <2>1. provider \in Alerting /\ "crash" \in hurt'  BY <1>1, <1>2, <1>11, Survived DEF Fault
  <2>2. Sound  BY <1>2, <1>8, <1>11 DEF Sound, Fault
  <2>3. Held(\E g \in Handlers : st[g] \in Pledges)  BY <1>3, <2>2 DEF Staged, Stands
  <2>4. card["main"] = "ongoing" => row["main"]  BY <2>1, <2>3 DEF Held, Pledges, Firm
  <2>5. provider # "starr notifying" /\ provider' = provider  BY <1>2, <2>1 DEF Alerting
  <2>6. ASSUME NEW g \in Handlers PROVE (Knows(ns[g]) /\ Voiced(handler[g].says, ns[g]))'
    BY <1>4, <1>9 DEF Knows, Voiced
  <2>7. callback'["main"] = "none"  BY <1>2, KeysNamed
  <2>8. ~(hurt' \subseteq {"read"})  BY <2>1
  <2>9. QED  BY <1>2, <2>4, <2>5, <2>6, <2>7, <2>8 DEF Stands, Held, Shut, StillUp
<1>12. Staged(ns)'  BY <1>10, <1>11 DEF Staged
<1>13. QED  BY <1>1, <1>2, <1>5, <1>6, <1>7, <1>9, <1>12 DEF KInv

LEMMA StepsKept ==
  ASSUME KInv, [Next]_vars
  PROVE  KInv'
<1>1. ASSUME NEW h \in Handlers, Work(h) PROVE KInv'
  BY <1>1, StopKeepsCard, ScheduleKeepsCard, EndTrackedKeepsCard, AskPendingKeepsCard, ReadKeepsCard,
     WriteKeepsCard, CreateKeepsCard, UpdateKeepsCard, TellingKeepsCard, TakeBackKeepsCard, RespondKeepsCard
     DEF Work
<1>2. ASSUME NEW h \in Handlers, Deliver(h) PROVE KInv'  BY <1>2, DeliverKeepsCard
<1>3. ASSUME NEW k \in Keys, EnderStep(k) PROVE KInv'  BY <1>3, EnderKeepsCard
<1>4. CASE UNCHANGED vars
  <2>1. UNCHANGED <<provider, urls, handler, row, end, callback, card, repeats, note, last, hurt, raced>>
    BY <1>4 DEF vars, config, ends, server, ghosts
  <2>2. TypeOK'  BY <2>1 DEF KInv, TypeOK
  <2>3. MainSame  BY <2>1 DEF MainSame
  <2>4. QED  BY <2>1, <2>2, <2>3, EndGoesOn
<1>5. QED  BY <1>1, <1>2, <1>3, <1>4, CrashKeepsCard DEF Next

\* The activity is there while it should be, and can be taken down, whatever
\* the URLs of the service ask for, for every number of handlers, deliveries
\* and faults that the service survives (Relay's CardKept).
THEOREM CardStays == Spec => []CardKept
<1>1. Init => KInv  BY StartsKept
<1>2. KInv /\ [Next]_vars => KInv'  BY StepsKept
<1>3. KInv => CardKept  BY KeepsCard
<1>4. QED  BY <1>1, <1>2, <1>3, PTL DEF Spec
=============================================================================
