------------------------------- MODULE Channels -------------------------------
(***************************************************************************)
(* Notifications and the channels that carry them: the sweep that notices   *)
(* what waits for the user (application/notifications.py), the outbox and   *)
(* its delivery by workers (application/channels.py, channel_loops.py), and *)
(* the buttons of a chat message.                                           *)
(*                                                                          *)
(* A delivery is a notification on a channel.  A worker claims rows under a *)
(* lock of 90 seconds, sends outside any transaction, and records the       *)
(* outcome without looking at the lock again.                               *)
(***************************************************************************)
EXTENDS Naturals, FiniteSets

CONSTANTS
  Notes,          \* what notifications are about: approval requests, reminders
  Chans,          \* notification channels of the user
  Workers,        \* processes that deliver
  Presses,        \* presses of buttons that are handled at a time
  Nowhere,        \* no message on the wire
  MaxAttempts,    \* MAX_ATTEMPTS
  BreakerFailures \* BREAKER_FAILURES

VARIABLES
  subject,  \* what each notification is about
  note,     \* the notification row: none, unread or read
  channel,  \* notification_channels
  outbox,   \* notification_deliveries
  token,    \* the buttons made for a notification on a channel
  claimed,  \* the rows a worker has claimed and not finished
  wire,     \* the message a worker is sending on a channel
  press,    \* the button presses that the channels' loops are handling
  copies,   \* how often a message reached the service; 2 stands for more
  cause     \* why a message may have been sent again, or a press lost

chVars == <<subject, note, channel, outbox, token, claimed, wire, press,
            copies, cause>>

Deliveries == Notes \X Chans
NoRow   == [status |-> "none", attempts |-> 0, locked |-> FALSE]
\* A press: where it is, on what, the service it comes through, and whether its update
\* has been recorded as seen
NoPress == [at |-> "none", note |-> CHOOSE n \in Notes : TRUE,
            chan |-> CHOOSE c \in Chans : TRUE, who |-> "owner", via |-> "telegram",
            seen |-> FALSE]
\* An approval request, asked or closed (approved, rejected or cancelled: a button
\* that is pressed decides the same either way), or a reminder that is due,
\* notified_at set, or done
Approval == {"asked", "closed"}
Subjects == {"none", "due", "reminded", "done"} \cup Approval
ChannelStatus == {"none", "pending_pairing", "active", "paused", "error", "deleted"}
\* Why a message may have been sent again: its lock ran out ("again"), the
\* service took it and answered with an error ("again"), its notification was
\* deleted ("renewed"); a press was cut off by a crash ("cut")
Causes == {"again", "renewed", "cut"}

ChannelsTypeOK ==
  /\ subject \in [Notes -> Subjects]
  /\ note \in [Notes -> {"none", "unread", "read"}]
  /\ channel \in [Chans -> [kind : {"chat", "hook"}, status : ChannelStatus,
                            failures : 0..BreakerFailures]]
  /\ outbox \in [Deliveries ->
       [status : {"none", "pending", "sending", "sent", "dead", "skipped"},
        attempts : 0..MaxAttempts, locked : BOOLEAN]]
  /\ token \in [Deliveries -> {"none", "live", "used"}]
  /\ claimed \in [Workers -> SUBSET Deliveries]
  /\ wire \in [Workers -> [Chans -> {Nowhere} \cup
       [note : Notes, attempts : 0..MaxAttempts, arrived : BOOLEAN]]]
  /\ press \in [Presses -> [at : {"none", "sent", "given", "seen", "taken"},
                            note : Notes, chan : Chans, who : {"owner", "stranger"},
                            via : {"telegram", "discord", "whatsapp"}, seen : BOOLEAN]]
  /\ copies \in [Deliveries -> 0..2]
  /\ cause \in [Deliveries -> SUBSET Causes]

ChannelsInit ==
  /\ subject = [n \in Notes |-> "none"]
  /\ note = [n \in Notes |-> "none"]
  /\ channel = [c \in Chans |-> [kind |-> "hook", status |-> "none", failures |-> 0]]
  /\ outbox = [d \in Deliveries |-> NoRow]
  /\ token = [d \in Deliveries |-> "none"]
  /\ claimed = [w \in Workers |-> {}]
  /\ wire = [w \in Workers |-> [c \in Chans |-> Nowhere]]
  /\ press = [p \in Presses |-> NoPress]
  /\ copies = [d \in Deliveries |-> 0]
  /\ cause = [d \in Deliveries |-> {}]

Tell(ds, why) ==
  cause' = [d \in Deliveries |-> IF d \in ds THEN cause[d] \cup {why} ELSE cause[d]]

-----------------------------------------------------------------------------
(* Channels *)

\* Chat channels wait for a code, the others are active at once
CreateChannel(c, kind) ==
  /\ channel[c].status = "none"
  /\ channel' = [channel EXCEPT ![c] =
       [kind |-> kind, failures |-> 0,
        status |-> IF kind = "chat" THEN "pending_pairing" ELSE "active"]]
  /\ UNCHANGED <<subject, note, outbox, token, claimed, wire, press,
                 copies, cause>>

\* The code typed in the app, or sent from the chat that becomes the identity
PairChannel(c) ==
  /\ channel[c].status = "pending_pairing"
  /\ channel' = [channel EXCEPT ![c].status = "active", ![c].failures = 0]
  /\ UNCHANGED <<subject, note, outbox, token, claimed, wire, press,
                 copies, cause>>

PauseChannel(c, on) ==
  /\ \/ on /\ channel[c].status \in {"active", "error"}
     \/ ~on /\ channel[c].status \in {"paused", "error"}
  /\ channel' = [channel EXCEPT
       ![c].status = IF on THEN "paused" ELSE "active",
       ![c].failures = IF on THEN @ ELSE 0]
  /\ UNCHANGED <<subject, note, outbox, token, claimed, wire, press,
                 copies, cause>>

\* Rows of the given deliveries go with the row they refer to
Cascade(ds) ==
  /\ outbox' = [d \in Deliveries |-> IF d \in ds THEN NoRow ELSE outbox[d]]
  /\ token' = [d \in Deliveries |-> IF d \in ds THEN "none" ELSE token[d]]

DeleteChannel(c) ==
  /\ channel[c].status \notin {"none", "deleted"}
  /\ channel' = [channel EXCEPT ![c].status = "deleted", ![c].failures = 0]
  /\ Cascade(Notes \X {c})
  /\ UNCHANGED <<subject, note, claimed, wire, press, copies, cause>>

-----------------------------------------------------------------------------
(* Notifications *)

\* A run asks for an approval, or a reminder falls due
Arises(n, what) ==
  /\ subject[n] = "none"
  /\ subject' = [subject EXCEPT ![n] = what]
  /\ UNCHANGED <<note, channel, outbox, token, claimed, wire, press,
                 copies, cause>>

\* Decided in the app, or the run was cancelled; the reminder was done (bound:
\* and stays so)
Settle(n) ==
  /\ \/ /\ subject[n] = "asked"
        /\ subject' = [subject EXCEPT ![n] = "closed"]
     \/ /\ subject[n] \in {"due", "reminded"}
        /\ subject' = [subject EXCEPT ![n] = "done"]
  /\ UNCHANGED <<note, channel, outbox, token, claimed, wire, press, copies, cause>>

\* enqueue_deliveries: a pending row on each channel that is active now
Enqueued(n) == [d \in Deliveries |->
                  IF d[1] = n /\ channel[d[2]].status = "active"
                    THEN [NoRow EXCEPT !.status = "pending"] ELSE outbox[d]]

\* run_maintenance: a notification per subject, with its deliveries in the same
\* transaction; _notify leaves one that exists alone
Notify(n) ==
  /\ note[n] = "none"
  /\ subject[n] \in {"asked", "due"}
  /\ note' = [note EXCEPT ![n] = "unread"]
  /\ subject' = [subject EXCEPT ![n] = IF @ = "due" THEN "reminded" ELSE @]
  /\ outbox' = Enqueued(n)
  /\ UNCHANGED <<channel, token, claimed, wire, press, copies, cause>>

MarkRead(n) ==
  /\ note[n] = "unread"
  /\ note' = [note EXCEPT ![n] = "read"]
  /\ UNCHANGED <<subject, channel, outbox, token, claimed, wire, press, copies, cause>>

\* With the row goes the key that kept a second one from being made.  Bound:
\* once per notification.
Purge(n) ==
  /\ \A c \in Chans : "renewed" \notin cause[<<n, c>>]
  /\ note' = [note EXCEPT ![n] = "none"]
  /\ Cascade({n} \X Chans)
  /\ Tell({n} \X Chans, "renewed")
  /\ UNCHANGED <<subject, channel, claimed, wire, press, copies>>

DeleteNote(n) == note[n] # "none" /\ Purge(n)
\* enforce_retention: read long ago
Retention(n)  == note[n] = "read" /\ Purge(n)

-----------------------------------------------------------------------------
(* Delivery *)

\* Mutant of Due: a lock is not waited for
MutantDue == {d \in Deliveries : outbox[d].status \in {"pending", "sending"}}
\* claim_due: pending rows, and rows whose lock has run out.  Bound: MaxAttempts
\* claims of a row (the code does not bound the claims of a row whose lock runs out).
Due == {d \in Deliveries :
          /\ outbox[d].attempts < MaxAttempts
          /\ \/ outbox[d].status = "pending"
             \/ outbox[d].status = "sending" /\ ~outbox[d].locked}

ClaimDue(w) ==
  /\ claimed[w] = {}
  /\ \E ds \in SUBSET Due \ {{}} :
       /\ claimed' = [claimed EXCEPT ![w] = ds]
       /\ outbox' = [d \in Deliveries |->
            IF d \in ds THEN [status |-> "sending", locked |-> TRUE,
                              attempts |-> outbox[d].attempts + 1]
            ELSE outbox[d]]
  /\ UNCHANGED <<subject, note, channel, token, wire, press, copies, cause>>

\* deliver_due: one message at a time on each channel
Turn(w, d) == d \in claimed[w] /\ wire[w][d[2]] = Nowhere
Done(w, d) == claimed' = [claimed EXCEPT ![w] = @ \ {d}]

\* deliver_one, first transaction, when nothing is sent: the row is gone or no
\* longer being sent, the channel is not active, or these are its quiet hours
NotSent(w, d) ==
  /\ Turn(w, d)
  /\ \/ outbox[d].status # "sending" /\ UNCHANGED outbox
     \/ /\ outbox[d].status = "sending"
        /\ channel[d[2]].status # "active"
        /\ outbox' = [outbox EXCEPT ![d].status = "skipped"]
     \/ /\ outbox[d].status = "sending"
        /\ channel[d[2]].status = "active"
        /\ outbox' = [outbox EXCEPT ![d] =
             [status |-> "pending", locked |-> FALSE, attempts |-> @.attempts - 1]]
  /\ Done(w, d)
  /\ UNCHANGED <<subject, note, channel, token, wire, press, copies, cause>>

\* ... and when something is: new buttons for an approval on a chat channel
BeginSend(w, d) ==
  /\ Turn(w, d)
  /\ outbox[d].status = "sending"
  /\ channel[d[2]].status = "active"
  /\ token' = [token EXCEPT ![d] =
       IF channel[d[2]].kind = "chat" /\ subject[d[1]] \in Approval THEN "live" ELSE @]
  /\ wire' = [wire EXCEPT ![w][d[2]] =
       [note |-> d[1], attempts |-> outbox[d].attempts, arrived |-> FALSE]]
  /\ UNCHANGED <<subject, note, channel, outbox, claimed, press, copies, cause>>

\* The service takes the message
Arrive(w, c) ==
  /\ wire[w][c] # Nowhere
  /\ ~wire[w][c].arrived
  /\ wire' = [wire EXCEPT ![w][c].arrived = TRUE]
  /\ copies' = [copies EXCEPT ![<<wire[w][c].note, c>>] =
                                 IF @ = 2 THEN 2 ELSE @ + 1]
  /\ UNCHANGED <<subject, note, channel, outbox, token, claimed, press, cause>>

\* What send raises: nothing, a transient ChannelError (the answer may be lost
\* on the way back) or a permanent one
Results(w, c) == IF wire[w][c].arrived THEN {"ok", "transient"}
                 ELSE {"transient", "permanent"}

\* What becomes of the row
Recorded(result, attempts) ==
  CASE result = "ok" -> "sent"
    [] result = "transient" /\ attempts < MaxAttempts -> "pending"
    [] OTHER -> "dead"

\* deliver_one, second transaction
EndSend(w, c, result) ==
  LET d == <<wire[w][c].note, c>>
      status == Recorded(result, wire[w][c].attempts)
      failures == CASE status = "sent" -> 0
                    [] status = "dead" -> channel[c].failures + 1
                    [] OTHER -> channel[c].failures IN
  /\ wire[w][c] # Nowhere
  /\ result \in Results(w, c)
  /\ IF outbox[d].status = "none"
       THEN UNCHANGED <<outbox, channel>>
       ELSE /\ outbox' = [outbox EXCEPT ![d].status = status, ![d].locked = FALSE]
            /\ channel' = [channel EXCEPT
                 ![c].failures = IF failures > BreakerFailures THEN @ ELSE failures,
                 ![c].status = IF status = "dead" /\ failures >= BreakerFailures
                               THEN "error" ELSE @]
  /\ IF wire[w][c].arrived /\ result # "ok" THEN Tell({d}, "again")
     ELSE UNCHANGED cause
  /\ wire' = [wire EXCEPT ![w][c] = Nowhere]
  /\ Done(w, d)
  /\ UNCHANGED <<subject, note, token, press, copies>>

\* The 90 seconds are over
LockLapses(d) ==
  /\ outbox[d].status = "sending"
  /\ outbox[d].locked
  /\ outbox' = [outbox EXCEPT ![d].locked = FALSE]
  /\ Tell({d}, "again")
  /\ UNCHANGED <<subject, note, channel, token, claimed, wire, press, copies>>

\* The worker's process ends
WorkerDies(w) ==
  /\ claimed[w] # {}
  /\ claimed' = [claimed EXCEPT ![w] = {}]
  /\ wire' = [wire EXCEPT ![w] = [c \in Chans |-> Nowhere]]
  /\ UNCHANGED <<subject, note, channel, outbox, token, press, copies, cause>>

-----------------------------------------------------------------------------
(* Buttons *)

\* Somebody presses a button of a message.  Telegram and Discord keep the update to
\* themselves; WhatsApp posts it, and it waits in channel_inbound_events.  Bounds: a
\* stranger does it through Telegram, and nobody while a message is on its way.
Press(p, n, c, who, via) ==
  /\ press[p].at = "none"
  /\ copies[<<n, c>>] > 0
  /\ token[<<n, c>>] = "live"
  /\ who = "owner" \/ via = "telegram"
  /\ \A w \in Workers : wire[w][c] = Nowhere
  /\ press' = [press EXCEPT ![p] =
       [at |-> "sent", note |-> n, chan |-> c, who |-> who, via |-> via, seen |-> FALSE]]
  /\ UNCHANGED <<subject, note, channel, outbox, token, claimed, wire,
                 copies, cause>>

\* Each worker's supervisor keeps a poller or a gateway for each live channel
Listens(c) == channel[c].status \in {"active", "pending_pairing"}
Button(p)  == <<press[p].note, press[p].chan>>

Handed(p, to) ==
  /\ press' = [press EXCEPT ![p] = to]
  /\ UNCHANGED <<subject, note, channel, outbox, token, claimed, wire, copies, cause>>

\* getUpdates from the stored offset on, which moves past an update when it was handled
Polled(p) ==
  press[p].at = "sent" /\ press[p].via = "telegram" /\ Listens(press[p].chan)

\* The gateway counts an event before it hands it on, and resumes behind it
Dispatched(p) ==
  /\ press[p].at = "sent" /\ press[p].via = "discord"
  /\ Listens(press[p].chan)
  /\ Handed(p, [press[p] EXCEPT !.at = "given"])

\* No gateway was open, or its session could not be resumed: the event is gone
Missed(p) ==
  /\ press[p].at = "sent" /\ press[p].via = "discord"
  /\ Handed(p, NoPress)

\* whatsapp_inbox_once marks the row processed, or rejected, before it handles it
Inboxed(p) ==
  /\ press[p].at = "sent" /\ press[p].via = "whatsapp"
  /\ Handed(p, IF Listens(press[p].chan) THEN [press[p] EXCEPT !.at = "given"]
               ELSE NoPress)

\* record_inbound: whoever inserts the update's row handles it, and drops one that was
\* recorded before
RecordInbound(p) ==
  /\ press[p].at = "given" \/ Polled(p)
  /\ Handed(p, IF press[p].seen THEN NoPress
               ELSE [press[p] EXCEPT !.at = "seen", !.seen = TRUE])

\* Mutant of Valid: the identity is not looked at
MutantValid(p) ==
  /\ channel[press[p].chan].status = "active"
  /\ token[Button(p)] = "live"
\* Only the paired identity of an active channel can use its buttons, once
Valid(p) ==
  /\ channel[press[p].chan].status = "active"
  /\ press[p].who = "owner"
  /\ token[Button(p)] = "live"

\* handle_action, first transaction: the button and its sibling are used up, or it is
\* not valid for who pressed it, or not any more (it expires)
TakeToken(p) ==
  /\ press[p].at = "seen"
  /\ \/ /\ Valid(p)
        /\ token' = [token EXCEPT ![Button(p)] = "used"]
        /\ press' = [press EXCEPT ![p].at = "taken"]
     \/ /\ press' = [press EXCEPT ![p] = NoPress]
        /\ UNCHANGED token
  /\ UNCHANGED <<subject, note, channel, outbox, claimed, wire, copies, cause>>

\* handle_action, second transaction: runs.decide with what the button says,
\* refused when it is decided
DecideByButton(p) ==
  LET n == press[p].note IN
  /\ press[p].at = "taken"
  /\ subject' = [subject EXCEPT ![n] = IF @ = "asked" THEN "closed" ELSE @]
  /\ press' = [press EXCEPT ![p] = NoPress]
  /\ UNCHANGED <<note, channel, outbox, token, claimed, wire, copies, cause>>

\* The loop is cut off between its transactions: only Telegram, whose offset has not
\* moved, gives the update again, and then it counts as seen
LoopCut(p) ==
  /\ press[p].at \in {"given", "seen", "taken"}
  /\ press' = [press EXCEPT ![p] = IF @.via = "telegram" THEN [@ EXCEPT !.at = "sent"]
                                   ELSE NoPress]
  /\ IF press[p].at = "taken" THEN Tell({Button(p)}, "cut")
     ELSE UNCHANGED cause
  /\ UNCHANGED <<subject, note, channel, outbox, token, claimed, wire, copies>>

-----------------------------------------------------------------------------
\* The requests about channels
UserOnChannel(c) ==
  \/ CreateChannel(c, "chat") \/ CreateChannel(c, "hook") \/ PairChannel(c)
  \/ PauseChannel(c, TRUE) \/ PauseChannel(c, FALSE) \/ DeleteChannel(c)

\* ... and about what the notifications are of
UserOnNote(n) == Settle(n) \/ MarkRead(n) \/ DeleteNote(n)

\* The worker's sweep, and what it finds
Maintenance(n) ==
  Arises(n, "asked") \/ Arises(n, "due") \/ Notify(n) \/ Retention(n)

\* delivery_loop
DeliveryLoop(w) ==
  \/ ClaimDue(w) \/ WorkerDies(w)
  \/ \E d \in Deliveries : NotSent(w, d) \/ BeginSend(w, d)
  \/ \E c \in Chans : \/ Arrive(w, c)
                      \/ \E result \in {"ok", "transient", "permanent"} :
                           EndSend(w, c, result)

\* The loops of the chat channels: every worker has one for each, so that several
\* presses are handled at once
ChatLoop(p) ==
  \/ Dispatched(p) \/ Missed(p) \/ Inboxed(p) \/ RecordInbound(p)
  \/ TakeToken(p) \/ DecideByButton(p) \/ LoopCut(p)
  \/ \E n \in Notes, c \in Chans, who \in {"owner", "stranger"},
        via \in {"telegram", "discord", "whatsapp"} : Press(p, n, c, who, via)

ChannelsNext ==
  \/ \E c \in Chans : UserOnChannel(c)
  \/ \E p \in Presses : ChatLoop(p)
  \/ \E n \in Notes : UserOnNote(n) \/ Maintenance(n)
  \/ \E d \in Deliveries : LockLapses(d)
  \/ \E w \in Workers : DeliveryLoop(w)

ChannelsSpec == ChannelsInit /\ [][ChannelsNext]_chVars

-----------------------------------------------------------------------------
(* Properties *)

\* A message reaches the service a second time only for one of the reasons the
\* outbox cannot exclude: its lock ran out while it was being sent, the service
\* took it and the answer was an error, or its notification was deleted while
\* what it was about was still open (the sweep then makes it again).
DuplicateHasCause ==
  \A d \in Deliveries :
    copies[d] > 1 => cause[d] \cap {"again", "renewed"} # {}

\* A button that no longer works has decided something, is deciding it now, or
\* was cut off by a crash of the loop: a stranger who presses it changes nothing.
UsedButtonDecided ==
  \A d \in Deliveries :
    token[d] = "used" => \/ subject[d[1]] # "asked"
                         \/ "cut" \in cause[d]
                         \/ \E p \in Presses :
                              /\ press[p].at = "taken" /\ Button(p) = d
                              /\ press[p].who = "owner"
=============================================================================
