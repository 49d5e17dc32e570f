------------------------------- MODULE Calendar -------------------------------
(* The calendar tools: one tool call against a calendar that its owner changes   *)
(* in other applications too. Times reach the tools as text with or without an   *)
(* offset; events keep instants, and a view, a schedule and an event must read a *)
(* bare time in the same time zone (mcp_calendar).                               *)
EXTENDS Integers, FiniteSets

CONSTANTS Events,    \* ids Graph may give
          Zones,     \* "bare" for a time without an offset, "korea", "utc"
          Subjects,
          MaxClock,  \* bound: times of day are 0 .. MaxClock
          Korea,     \* how far the clocks of Korea are ahead of UTC
          Top,       \* how many events a list asks for
          Nothing

VARIABLES calendar,     \* id -> the event, or Nothing
          asked,        \* id -> the bare times a tool last gave it (history), or Nothing
          calendarCall  \* the call

calendarVars == <<calendar, asked, calendarCall>>

\* Times as the caller writes them; instants count from midnight in UTC.
Times == [at : 0 .. MaxClock, zone : Zones]
Instants == -Korea .. MaxClock
EventFields == [subject : Subjects, start : Instants, end : Instants, guests : BOOLEAN]
ClockTimes == [start : 0 .. MaxClock, end : 0 .. MaxClock]

CalendarAssumption ==
  /\ MaxClock \in Nat /\ Korea \in Nat /\ Top \in Nat \ {0} /\ IsFiniteSet(Events)
  /\ Nothing \notin Events \cup Subjects \cup Times \cup ClockTimes \cup EventFields \cup 0 .. MaxClock

Booked == {e \in Events : calendar[e] # Nothing}

CalendarIdle(answer) == [pc |-> "idle", answer |-> answer, shown |-> {}]

\* What was asked for: each tool takes what it needs.
Views == [pc : {"send"}, answer : {"none"}, op : {"calendar_view", "get_schedule"},
          event : {Nothing}, subject : {Nothing}, start : Times, end : Times]
Creates == [pc : {"send"}, answer : {"none"}, op : {"create_event"},
            event : {Nothing}, subject : Subjects, start : Times, end : Times]
Updates == [pc : {"send"}, answer : {"none"}, op : {"update_event"}, event : Events,
            subject : Subjects \cup {Nothing}, start : Times \cup {Nothing}, end : Times \cup {Nothing}]
Others == [pc : {"send"}, answer : {"none"}, op : {"list_events", "get_event", "delete_event"},
           event : Events \cup {Nothing}, subject : {Nothing}, start : {Nothing}, end : {Nothing}]
Answers == {"none", "success", "unsure", "refused", "no_token"}

CalendarTypeOK ==
  /\ calendar \in [Events -> EventFields \cup {Nothing}]
  /\ \A e \in Booked : calendar[e].start < calendar[e].end
  /\ asked \in [Events -> ClockTimes \cup {Nothing}]
  /\ calendarCall \in [pc : {"idle"}, answer : Answers, shown : SUBSET Events]
                       \cup Views \cup Creates \cup Updates \cup Others

CalendarInit ==
  /\ calendar = [e \in Events |-> Nothing] /\ asked = [e \in Events |-> Nothing]
  /\ calendarCall = CalendarIdle("none")

-----------------------------------------------------------------------------
\* Mutant: a bare bound is left as it is, and Graph reads it in UTC.
InstantAsSent(time) == IF time.zone = "korea" THEN time.at - Korea ELSE time.at
\* _with_offset: the bound of a view without an offset gets the one of Korea.
InstantOf(time) == IF time.zone = "utc" THEN time.at ELSE time.at - Korea

\* Mutant: the time is sent as one of UTC.
StoredInUTC(time) == {time.at}
\* _convert_to_datetime_timezone: the text is sent as it is, as a time of Korea.
\* What Graph makes of an offset inside it is not fixed.
StoredAs(time) ==
  IF time.zone = "bare" THEN {time.at - Korea} ELSE {time.at - Korea, InstantOf(time)}

\* A tool is called; what it does not take is Nothing.
BeginCalendar(op, event, subject, start, end) ==
  /\ calendarCall.pc = "idle"
  /\ calendarCall' = [pc |-> "send", answer |-> "none", op |-> op, event |-> event,
                      subject |-> subject, start |-> start, end |-> end]
  /\ UNCHANGED <<calendar, asked>>

\* Graph refuses, no answer comes, or there is no token; then nothing was done.
CalendarFails ==
  /\ calendarCall.pc = "send"
  /\ \E answer \in {"refused", "unsure", "no_token"} : calendarCall' = CalendarIdle(answer)
  /\ UNCHANGED <<calendar, asked>>

-----------------------------------------------------------------------------
Sending(op) == calendarCall.pc = "send" /\ calendarCall.op = op
\* A change is made whether or not its answer arrives.
Answered == \E answer \in {"success", "unsure"} : calendarCall' = CalendarIdle(answer)

\* The bare times an event now has, when both come from tools.
BareTimes(start, end, old) ==
  LET Bare(time, was) == IF time = Nothing THEN was
                         ELSE IF time.zone = "bare" THEN time.at ELSE Nothing
      s == Bare(start, IF old = Nothing THEN Nothing ELSE old.start)
      t == Bare(end, IF old = Nothing THEN Nothing ELSE old.end)
  IN IF Nothing \in {s, t} THEN Nothing ELSE [start |-> s, end |-> t]

\* Graph refuses an event that ends before it starts.
CreateEvent ==
  /\ Sending("create_event") /\ Answered
  /\ \E e \in Events \ Booked, s \in StoredAs(calendarCall.start), t \in StoredAs(calendarCall.end) :
       /\ s < t
       /\ calendar' = [calendar EXCEPT ![e] = [subject |-> calendarCall.subject,
                                               start |-> s, end |-> t, guests |-> FALSE]]
       /\ asked' = [asked EXCEPT ![e] = BareTimes(calendarCall.start, calendarCall.end, Nothing)]

\* Mutant: guests that were not given are sent as none.
UpdatedWhole(old, subject, starts, ends) ==
  {[subject |-> IF subject = Nothing THEN old.subject ELSE subject,
    start |-> s, end |-> t, guests |-> FALSE] : s \in starts, t \in ends}
\* EventUpdateParams.to_graph_api_body: the fields that were given, and no other.
BodyOf(old, subject, s, t) ==
  [old EXCEPT !.subject = IF subject = Nothing THEN @ ELSE subject, !.start = s, !.end = t]
Updated(old, subject, starts, ends) ==
  {BodyOf(old, subject, s, t) : s \in starts, t \in ends}

UpdateEvent ==
  /\ Sending("update_event") /\ Answered
  /\ LET e == calendarCall.event
         Sent(time, was) == IF time = Nothing THEN {was} ELSE StoredAs(time)
     IN /\ e \in Booked
        /\ \E new \in Updated(calendar[e], calendarCall.subject,
                              Sent(calendarCall.start, calendar[e].start),
                              Sent(calendarCall.end, calendar[e].end)) :
             /\ new.start < new.end /\ calendar' = [calendar EXCEPT ![e] = new]
        /\ asked' = [asked EXCEPT ![e] = BareTimes(calendarCall.start, calendarCall.end, @)]

DeleteEvent ==
  /\ Sending("delete_event") /\ Answered
  /\ calendarCall.event \in Booked
  /\ calendar' = [calendar EXCEPT ![calendarCall.event] = Nothing]
  /\ asked' = [asked EXCEPT ![calendarCall.event] = Nothing]

\* An answer that shows events.
Shows(events) ==
  /\ calendarCall' = [CalendarIdle("success") EXCEPT !.shown = events]
  /\ UNCHANGED <<calendar, asked>>

\* The first page alone: Top of the events, those with the lowest ranks.
FirstOnes(events, rank) ==
  {page \in SUBSET events :
     /\ Cardinality(page) = IF Cardinality(events) < Top THEN Cardinality(events) ELSE Top
     /\ \A e \in page, f \in events \ page : rank[f] >= rank[e]}

During(lo, hi) == {e \in Booked : calendar[e].start < hi /\ calendar[e].end > lo}

\* list_calendar_view, ordered by start.
CalendarView ==
  /\ Sending("calendar_view")
  /\ \E page \in FirstOnes(During(InstantOf(calendarCall.start), InstantOf(calendarCall.end)),
                           [e \in Booked |-> calendar[e].start]) : Shows(page)

\* list_events: the latest ones.
ListEvents ==
  /\ Sending("list_events")
  /\ \E page \in FirstOnes(Booked, [e \in Booked |-> -calendar[e].start]) : Shows(page)

GetEvent ==
  /\ Sending("get_event") /\ calendarCall.event \in Booked
  /\ Shows({calendarCall.event})

\* get_schedule sends its times like those of an event; all of the range is answered.
GetSchedule ==
  /\ Sending("get_schedule")
  /\ \E lo \in StoredAs(calendarCall.start), hi \in StoredAs(calendarCall.end) : Shows(During(lo, hi))

\* The owner, in other applications, books an event or changes one.
OwnerBooks ==
  /\ \E e \in Events, s, t \in Instants, subject \in Subjects :
       /\ s < t /\ asked' = [asked EXCEPT ![e] = Nothing]
       /\ calendar' = [calendar EXCEPT ![e] = [subject |-> subject, start |-> s, end |-> t,
                                               guests |-> FALSE]]
  /\ UNCHANGED calendarCall
OwnerInvites ==
  /\ \E e \in Booked : /\ ~calendar[e].guests /\ calendar' = [calendar EXCEPT ![e].guests = TRUE]
  /\ UNCHANGED <<asked, calendarCall>>
OwnerCancels ==
  /\ \E e \in Booked : /\ calendar' = [calendar EXCEPT ![e] = Nothing]
                       /\ asked' = [asked EXCEPT ![e] = Nothing]
  /\ UNCHANGED calendarCall

CalendarCalled ==
  \/ BeginCalendar("list_events", Nothing, Nothing, Nothing, Nothing)
  \/ \E e \in Events : \/ BeginCalendar("get_event", e, Nothing, Nothing, Nothing)
                      \/ BeginCalendar("delete_event", e, Nothing, Nothing, Nothing)
  \/ \E start, end \in Times :
       \/ BeginCalendar("calendar_view", Nothing, Nothing, start, end)
       \/ BeginCalendar("get_schedule", Nothing, Nothing, start, end)
       \/ \E s \in Subjects : BeginCalendar("create_event", Nothing, s, start, end)
  \/ \E e \in Events, s \in Subjects \cup {Nothing}, start, end \in Times \cup {Nothing} :
       BeginCalendar("update_event", e, s, start, end)

CalendarNext ==
  \/ CalendarCalled
  \/ CalendarFails
  \/ CreateEvent \/ UpdateEvent \/ DeleteEvent
  \/ CalendarView \/ ListEvents \/ GetEvent \/ GetSchedule
  \/ OwnerBooks \/ OwnerInvites \/ OwnerCancels

CalendarSpec == CalendarInit /\ [][CalendarNext]_calendarVars

-----------------------------------------------------------------------------
\* Times without an offset mean the same clock everywhere: a view or a schedule of
\* bare times shows exactly the events whose bare times, as tools gave them, meet
\* them, whatever calls and changes came between; a full page of a view may lack
\* some.
BareTimesAgree ==
  calendarCall.pc = "send" /\ calendarCall.op \in {"calendar_view", "get_schedule"}
  /\ {calendarCall.start.zone, calendarCall.end.zone} = {"bare"}
  /\ calendarCall'.answer = "success" =>
    \A e \in Events : asked[e] # Nothing =>
      LET meets == asked[e].start < calendarCall.end.at /\ asked[e].end > calendarCall.start.at
      IN /\ e \in calendarCall'.shown => meets
         /\ meets => \/ e \in calendarCall'.shown
                     \/ calendarCall.op = "calendar_view"
                          /\ Cardinality(calendarCall'.shown) = Top

\* A tool changes one event, and of it only what it was given: an update keeps the
\* guests, and whatever its caller did not name, as the owner last left them.
KeepsTheRest ==
  calendarCall.pc = "send" /\ calendarCall' # calendarCall =>
    \A e \in Booked : calendar'[e] # calendar[e] =>
      /\ e = calendarCall.event /\ calendarCall.op \in {"update_event", "delete_event"}
      /\ calendarCall.op = "update_event" =>
           /\ calendar'[e].guests = calendar[e].guests
           /\ calendarCall.subject = Nothing => calendar'[e].subject = calendar[e].subject
           /\ calendarCall.start = Nothing => calendar'[e].start = calendar[e].start
           /\ calendarCall.end = Nothing => calendar'[e].end = calendar[e].end

\* A view shows all of its range (spec/param_spec/calendar.yaml: it "lets the real
\* schedule be grasped exactly"). False: the tool takes no number of events, asks
\* for a fixed page and tells of no further one.
ViewIsWhole ==
  calendarCall.pc = "send" /\ calendarCall.op = "calendar_view" /\ calendarCall'.answer = "success" =>
    calendarCall'.shown = During(InstantOf(calendarCall.start), InstantOf(calendarCall.end))

=============================================================================
