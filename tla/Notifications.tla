---------------------------- MODULE Notifications ----------------------------
(***************************************************************************)
(* Delivery of notifications to one recipient by the worker processes:     *)
(*   src/src/domain/notifications: router.ts (immediate events), digest.ts *)
(*   (summaries), deliver.ts, preferences.ts, severity.ts.                 *)
(*                                                                         *)
(* An event is handled once a message is linked to it.  A message is       *)
(* claimed ("sending") in one transaction, sent outside of any, and its    *)
(* outcome recorded in another.                                            *)
(***************************************************************************)
EXTENDS Naturals, FiniteSets, FiniteSetsExt

CONSTANTS
  MailWorkers,     \* worker processes
  NoMailWorker,
  ClassOf,     \* the classes of the events, in the order they are captured
  ListLimit,       \* events listed by one tick (50)
  QuietTimes,  \* when the recipient's quiet hours are
  MaxTime,     \* bound on the clock
  MaxCrashes   \* bound on crashes

ASSUME NotificationsAssumption ==
  /\ NoMailWorker \notin MailWorkers
  /\ IsFiniteSet(DOMAIN ClassOf)
  /\ DOMAIN ClassOf = 1..Cardinality(DOMAIN ClassOf)
  /\ \A e \in DOMAIN ClassOf : ClassOf[e] \in {"critical", "deferrable", "digest"}
  /\ ListLimit \in Nat \ {0} /\ MaxTime \in Nat \ QuietTimes /\ MaxCrashes \in Nat

VARIABLES
  clock,
  captured,  \* how many events are captured
  emailOn,   \* the recipient wants e-mail
  cursor,    \* next_digest_at
  prefsLock, \* the worker whose transaction has updated the cursor
  outbox,    \* status of each message, by idempotency key
  links,     \* messages each event is linked to
  post,      \* per worker: its tick
  mails,     \* ghost: messages that reached the provider, by key
  crashes

events == <<captured, outbox, links, mails>>
settings == <<emailOn, cursor>>
notificationVars ==
  <<clock, captured, emailOn, cursor, prefsLock, outbox, links, post, mails, crashes>>

Events == DOMAIN ClassOf
Immediate == {e \in Events : ClassOf[e] # "digest"}
\* The idempotency keys email:<event> and digest:<user>:<now>.
MessageKeys == ({"email"} \X Immediate) \cup ({"digest"} \X (0..MaxTime))
Outcomes == {"sent", "failed", "ambiguous", "suppressed"}
NoPost == [step |-> "idle", todo |-> {}, now |-> 0, key |-> <<"digest", 0>>, wanted |-> FALSE]

NotificationsTypeOK ==
  /\ clock \in 0..MaxTime /\ captured \in 0..Cardinality(Events) /\ crashes \in 0..MaxCrashes
  /\ emailOn \in BOOLEAN /\ cursor \in 0..(MaxTime + 1) /\ prefsLock \in MailWorkers \cup {NoMailWorker}
  /\ outbox \in [MessageKeys -> Outcomes \cup {"none", "sending"}]
  /\ links \in [Events -> SUBSET MessageKeys]
  /\ post \in [MailWorkers -> [step : {"idle", "route", "digest", "gather", "send"} \cup Outcomes,
                           todo : SUBSET Events, now : 0..MaxTime, key : MessageKeys, wanted : BOOLEAN]]
  /\ mails \in [MessageKeys -> Nat]

NotificationsInit ==
  /\ clock = 0 /\ captured = 0 /\ crashes = 0
  /\ emailOn = TRUE /\ cursor = 1 /\ prefsLock = NoMailWorker
  /\ outbox = [k \in MessageKeys |-> "none"]
  /\ links = [e \in Events |-> {}]
  /\ post = [w \in MailWorkers |-> NoPost]
  /\ mails = [k \in MessageKeys |-> 0]

-----------------------------------------------------------------------------
\* Time passes.
Pass ==
  /\ clock < MaxTime /\ clock' = clock + 1
  /\ UNCHANGED <<settings, prefsLock, events, post, crashes>>

\* enqueueNotification: an event is captured with the change it is about.
Enqueue ==
  /\ captured < Cardinality(Events) /\ captured' = captured + 1
  /\ UNCHANGED <<clock, settings, prefsLock, outbox, links, mails, post, crashes>>

\* updatePreferences: the digest cursor is computed anew from the present; the
\* upsert waits for the lock of the row.
UpdatePreferences ==
  /\ prefsLock = NoMailWorker
  /\ emailOn' \in BOOLEAN /\ cursor' = clock + 1
  /\ UNCHANGED <<clock, prefsLock, events, post, crashes>>

\* Captured events of a kind that no message is linked to.
Pending(kind) == {e \in kind : e <= captured /\ links[e] = {}}

\* Seeded bug: events already placed in a message are listed again.
ListPendingHandled(kind) ==
  LET pending == {e \in kind : e <= captured}
  IN {e \in pending : Cardinality({f \in pending : f < e}) < ListLimit}

\* list_pending_immediate_notifications: the oldest ones.
ListPending(kind) ==
  LET pending == Pending(kind)
  IN {e \in pending : Cardinality({f \in pending : f < e}) < ListLimit}

\* insertMessageWithLinks, when the key is free.
InsertMessage(k, status, members) ==
  /\ outbox' = [outbox EXCEPT ![k] = status]
  /\ links' = [e \in Events |-> IF e \in members THEN links[e] \cup {k} ELSE links[e]]

-----------------------------------------------------------------------------
(* routeDueNotifications *)

Tick(w) ==
  /\ post[w].step = "idle"
  /\ ListPending(Immediate) # {}
  /\ post' = [post EXCEPT ![w] = [NoPost EXCEPT !.step = "route", !.now = clock,
                                              !.todo = ListPending(Immediate)]]
  /\ UNCHANGED <<clock, settings, prefsLock, events, crashes>>

\* Seeded bug: the claim overwrites the message of the same key.
ClaimAgain(w) ==
  /\ post[w].step = "route" /\ post[w].todo # {}
  /\ LET e == Min(post[w].todo)
         k == <<"email", e>>
     IN /\ InsertMessage(k, "sending", {e})
        /\ post' = [post EXCEPT ![w].todo = @ \ {e}, ![w].step = "send", ![w].key = k]
  /\ UNCHANGED <<clock, settings, prefsLock, captured, mails, crashes>>

\* Phase 1, for the oldest event left: suppress, defer, or claim; the unique
\* key lets one worker do it.  The channel may be shut at any time.
Claim(w) ==
  /\ post[w].step = "route" /\ post[w].todo # {}
  /\ LET e == Min(post[w].todo)
         k == <<"email", e>>
         next == [post EXCEPT ![w].todo = @ \ {e}]
         deferred == emailOn /\ ClassOf[e] # "critical" /\ post[w].now \in QuietTimes
     IN \/ /\ deferred \/ outbox[k] # "none"
           /\ post' = next /\ UNCHANGED <<outbox, links>>
        \/ /\ ~deferred /\ outbox[k] = "none"
           /\ InsertMessage(k, "suppressed", {e}) /\ post' = next
        \/ /\ ~deferred /\ emailOn /\ outbox[k] = "none"
           /\ InsertMessage(k, "sending", {e})
           /\ post' = [next EXCEPT ![w].step = "send", ![w].key = k]
  /\ UNCHANGED <<clock, settings, prefsLock, captured, mails, crashes>>

RouteDone(w) ==
  /\ post[w].step = "route" /\ post[w].todo = {}
  /\ post' = [post EXCEPT ![w] = NoPost]
  /\ UNCHANGED <<clock, settings, prefsLock, events, crashes>>

\* Phase 2: the channel is gated again, and the provider accepts, refuses or
\* leaves it open; a message it cannot be heard to accept may have been.  The
\* outcome is kept until it is recorded.
Send(w) ==
  /\ post[w].step = "send"
  /\ LET k == post[w].key
     IN \E outcome \in Outcomes, reached \in BOOLEAN :
          /\ outcome = "sent" => reached
          /\ reached => outcome \in {"sent", "ambiguous"}
          /\ mails' = [mails EXCEPT ![k] = @ + IF reached THEN 1 ELSE 0]
          /\ post' = [post EXCEPT ![w].step = outcome]
  /\ UNCHANGED <<clock, settings, prefsLock, captured, outbox, links, crashes>>

\* Phase 3: finalizeMessage, by id.
Record(w) ==
  /\ post[w].step \in Outcomes
  /\ outbox' = [outbox EXCEPT ![post[w].key] = post[w].step]
  /\ post' = [post EXCEPT ![w].step = "route"]
  /\ UNCHANGED <<clock, settings, prefsLock, captured, links, mails, crashes>>

\* An error in phase 2 or 3 is logged and the tick goes on: the message stays
\* "sending", and no tick lists its events again.
Abandon(w) ==
  /\ post[w].step \in Outcomes \cup {"send"}
  /\ post' = [post EXCEPT ![w].step = "route"]
  /\ UNCHANGED <<clock, settings, prefsLock, events, crashes>>

-----------------------------------------------------------------------------
(* flushDueDigests *)

\* list_due_digest_users, and the preferences as they are read first.
DigestTick(w) ==
  /\ post[w].step = "idle" /\ cursor <= clock
  /\ post' = [post EXCEPT ![w] = [NoPost EXCEPT !.step = "digest", !.now = clock,
                                              !.wanted = emailOn]]
  /\ UNCHANGED <<clock, settings, prefsLock, events, crashes>>

\* The conditional UPDATE of the cursor is the claim of the window: it waits
\* for the lock of the row and tests the cursor then.
Advance(w) ==
  /\ post[w].step = "digest" /\ prefsLock = NoMailWorker
  /\ IF cursor <= post[w].now
     THEN prefsLock' = w /\ post' = [post EXCEPT ![w].step = "gather"]
     ELSE UNCHANGED prefsLock /\ post' = [post EXCEPT ![w] = NoPost]
  /\ UNCHANGED <<clock, settings, events, crashes>>

\* The rest of the transaction: the message of the window with its events.
Gather(w) ==
  /\ post[w].step = "gather"
  /\ prefsLock' = NoMailWorker /\ cursor' = post[w].now + 1
  /\ LET k == <<"digest", post[w].now>>
         batch == Pending(Events \ Immediate)
     IN \/ /\ batch = {} \/ outbox[k] # "none"
           /\ post' = [post EXCEPT ![w] = NoPost] /\ UNCHANGED <<outbox, links>>
        \/ /\ batch # {} /\ outbox[k] = "none"
           /\ InsertMessage(k, "suppressed", batch) /\ post' = [post EXCEPT ![w] = NoPost]
        \/ /\ batch # {} /\ outbox[k] = "none" /\ post[w].wanted
           /\ InsertMessage(k, "sending", batch)
           /\ post' = [post EXCEPT ![w] = [NoPost EXCEPT !.step = "send", !.key = k]]
  /\ UNCHANGED <<clock, emailOn, captured, mails, crashes>>

-----------------------------------------------------------------------------
\* A worker process dies, with its open transaction, and is started again.
MailCrash(w) ==
  /\ crashes < MaxCrashes /\ post[w].step # "idle"
  /\ crashes' = crashes + 1
  /\ post' = [post EXCEPT ![w] = NoPost]
  /\ prefsLock' = IF prefsLock = w THEN NoMailWorker ELSE prefsLock
  /\ UNCHANGED <<clock, settings, events>>

Route(w) == Tick(w) \/ Claim(w) \/ RouteDone(w) \/ Send(w) \/ Record(w)
Digest(w) == Advance(w) \/ Gather(w)

NotificationsNext ==
  \/ Pass \/ Enqueue \/ UpdatePreferences
  \/ \E w \in MailWorkers : Route(w) \/ Digest(w) \/ DigestTick(w) \/ Abandon(w) \/ MailCrash(w)

NotificationsSpec == NotificationsInit /\ [][NotificationsNext]_notificationVars

\* Every worker keeps ticking and its calls end (the provider's in 15 s).  Time
\* passes; only with an event captured does that matter.  Nothing makes an
\* event happen, and a tick may fail or crash.
NotificationsFairness ==
  /\ WF_notificationVars(captured > 0 /\ Pass)
  /\ \A w \in MailWorkers : WF_notificationVars(Route(w)) /\ WF_notificationVars(Digest(w))

-----------------------------------------------------------------------------
\* However many workers tick, however slowly, crash or are started again, the
\* recipient gets an event at most once, at once or in one digest; and the
\* record of a message never denies what the provider got, and never says
\* "sent" of what it did not get (channel-contract.ts: "`failed` = a definite
\* terminal failure", "nothing left the system" when withheld).
OutboxIsTrue ==
  /\ \A e \in Events : \A k \in links[e] :
       mails[k] <= 1 /\ \A l \in links[e] \ {k} : mails[k] + mails[l] <= 1
  /\ \A k \in MessageKeys : /\ outbox[k] = "sent" => mails[k] = 1
                         /\ outbox[k] \in {"none", "failed", "suppressed"} => mails[k] = 0

\* A captured immediate event is placed in a message, quiet hours or not,
\* whatever is listed before it.
EventsSettle ==
  \A e \in Immediate : captured >= e ~> links[e] # {}
=============================================================================
