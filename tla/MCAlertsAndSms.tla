---------------------------- MODULE MCAlertsAndSms ----------------------------
(***************************************************************************)
(* Small instances, for TLC, of the edit pauses alone, with the editors    *)
(* racing; of the alerts over an order that one of them pauses; and of the *)
(* text messages, to duplicate profiles that share a phone, with the       *)
(* sending window closed at first.  A behaviour runs one of them.          *)
(***************************************************************************)
EXTENDS UndispatchedAlerts, RetentionSms

VARIABLE part       \* what runs

\* Both profiles have the phone of the model.
OnePhone == [c \in Customers |-> CHOOSE p \in Phones : TRUE]

ASSUME RetentionAssumption

\* A machine with several initial states rests in one while another one runs.
AllInit ==
    /\ part \in {"pauses", "alerts", "sms"}
    /\ Init
    /\ SmsInit
    /\ part # "sms" => \A c \in Customers : customer[c].anchor = Never /\ ~customer[c].consent

PausesRun == part = "pauses" /\ PauseNext /\ UNCHANGED <<part, alertVars, smsVars>>
AlertsRun == part = "alerts" /\ Next /\ UNCHANGED <<part, smsVars>>
SmsRuns == part = "sms" /\ SmsNext /\ UNCHANGED <<part, vars>>

AllNext == PausesRun \/ AlertsRun \/ SmsRuns

AllSpec == AllInit /\ [][AllNext]_<<part, vars, smsVars>>

-----------------------------------------------------------------------------
Symmetric ==
    Permutations(Editors) \cup Permutations(Sessions) \cup Permutations(Calls)

\* The alerts do not read what OrderEditPause only records.
View ==
    <<part, order, pause, call, clock, alertVars, smsVars,
      IF part = "pauses" THEN <<received, stopped>> ELSE <<>> >>

\* The last tick of the pauses alone.
PausesEnd == 4

\* Two editors whose requests race for one session and come one at a time once it
\* can have expired, or one editor of an order that is never dispatched whose
\* requests come one at a time: with two sessions, or with one session and a last
\* tick, for it to expire and be renewed.
PausesBounded ==
    LET used == {k \in Calls : call[k].pc # "idle"}
        opened == {s \in Sessions : pause[s] # NoRow}
        sessions == opened \cup stopped \cup {call[k].session : k \in used}
        editors == {call[k].actor : k \in used} \cup {pause[s].actor : s \in opened}
    IN  \/ /\ Cardinality(sessions) <= 1
           /\ clock < IF Cardinality(used) <= 1 THEN PausesEnd ELSE PausesEnd - 1
        \/ /\ Cardinality(used) <= 1
           /\ Cardinality(editors) <= 1
           /\ \A o \in Orders : order[o].firstAssigned = 0 /\ order[o].unrecorded = 0
           /\ clock <= IF Cardinality(sessions) <= 1 THEN PausesEnd ELSE PausesEnd - 1

\* An order is followed until its first claim can be stale, with no request in
\* flight while both checks are under way or the order has been due for a tick; one
\* without pauses, and never dispatched, until the provider has forgotten the key of
\* its e-mail.
AlertsBounded ==
    \A o \in Orders :
        LET assigned == order[o].firstAssigned # 0 \/ order[o].unrecorded # 0
            used == {k \in Calls : call[k] # Idle}
            opened == {s \in Sessions : pause[s] # NoRow}
            sessions == opened \cup {call[k].session : k \in used}
            editors == {call[k].actor : k \in used} \cup {pause[s].actor : s \in opened}
            checks == {w \in Workers : worker[w].pc # "idle"}
        IN  /\ order[o].createdAt <= 1
            /\ used = {} \/ Cardinality(checks) <= 1
            /\ Cardinality(used) <= 1 /\ Cardinality(sessions) <= 1 /\ Cardinality(editors) <= 1
            /\ \/ clock <= 3
               \/ clock <= 5 /\ used = {}
               \/ used = {} /\ opened = {} /\ ~assigned

\* Overlapping runs, over both profiles until another order is delivered or over
\* one, or one run over one profile whose consent may lapse, while the provider is
\* silent; or that one run with its delivery reports, until the second day.
SmsBounded ==
    LET runs == {j \in Jobs : job[j].pc # "idle"}
        enrolled == {c \in Customers : customer[c].anchor # Never}
        consenting == {c \in Customers : customer[c].consent}
        silent == /\ \A b \in Callbacks : callback[b].pc = "idle"
                  /\ \A i \in DOMAIN sent : sent[i].status = "queued"
        single == Cardinality(runs) <= 1
        one == /\ single
               /\ Cardinality(enrolled) <= 1
               /\ Customers \ enrolled \subseteq consenting
    IN  \/ /\ silent
           /\ one \/ consenting = Customers
           /\ \/ single
              \/ Cardinality(enrolled) <= 1
              \/ \A c \in Customers : customer[c].anchor <= 0
        \/ one /\ smsClock <= 1

Bounded ==
    CASE part = "pauses" -> PausesBounded
      [] part = "alerts" -> AlertsBounded
      [] part = "sms" -> SmsBounded
=============================================================================
