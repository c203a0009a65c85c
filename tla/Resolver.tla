------------------------------ MODULE Resolver ------------------------------
(***************************************************************************)
(* Resolver of include/afx/net/dns.hpp and src/net/dns.cpp: getaddrinfo on *)
(* a thread of its own, which gets its jobs and returns its answers        *)
(* through mailboxes, against a timer on the requester's wheel.            *)
(*                                                                         *)
(* dns is the state of the requester, the worker and what is between them: *)
(*   clock, seen   the clock; the requester's now_, read once an iteration *)
(*   stage         of the requester's loop: "user", "mail" or "timers"     *)
(*   req           per request: whether it was made, its deadline (0:      *)
(*                 none), its timer, State::done, and what cb was called   *)
(*                 with: "addrs", "empty" (success, no address), "failed"  *)
(*                 or "expired"                                            *)
(*   jobs, work    the worker's mailbox; the job it runs and its result    *)
(*   mail          the answers in the requester's mailbox                  *)
(*   up            the resolver is there                                   *)
(*   lost          history: requests a task of which was refused by a full *)
(*                 mailbox, or shed with the deadline of the Context that  *)
(*                 resolve() was called in                                 *)
(***************************************************************************)
EXTENDS Integers, Sequences

CONSTANTS DnsRequests,   \* requests, numbered from 1
          DnsTimeouts,   \* timeouts asked for; 0 is none
          DnsTime        \* bound: the clock

ASSUME DnsAssumption == DnsRequests \in Nat /\ DnsTimeouts \subseteq Nat

VARIABLE dns

dnsVars == <<dns>>

DnsIds == 1 .. DnsRequests

Idle == [id |-> 0, res |-> "none"]

DnsInit ==
  dns = [clock |-> 1, seen |-> 1, stage |-> "user",
         req |-> [i \in DnsIds |-> [made |-> FALSE, due |-> 0, timer |-> FALSE, done |-> FALSE, got |-> << >>]],
         jobs |-> << >>, work |-> Idle, mail |-> << >>, up |-> TRUE, lost |-> {}]

\* a task that is refused or shed is not noticed by anyone
Dropped(d, i) == [d EXCEPT !.lost = @ \cup {i}]

\* resolve(): arm the timer, post the job
Resolve(i, timeout, room) ==
  /\ dns.stage = "user" /\ dns.up /\ ~dns.req[i].made
  /\ \A k \in 1 .. i - 1 : dns.req[k].made
  /\ LET due == IF timeout = 0 THEN 0 ELSE dns.seen + timeout
         d == [dns EXCEPT !.req[i] = [@ EXCEPT !.made = TRUE, !.due = due, !.timer = timeout > 0]]
     IN dns' = IF room THEN [d EXCEPT !.jobs = Append(@, i)] ELSE Dropped(d, i)

\* the callback runs with res
Answer(d, i, res) == [d EXCEPT !.req[i].done = TRUE, !.req[i].got = Append(@, res)]

\* the worker's loop sheds the job; the requester's may shed the reply, whose Context is the job's
JobShed ==
  /\ dns.work = Idle /\ dns.jobs # << >>
  /\ dns' = Dropped([dns EXCEPT !.jobs = Tail(@)], Head(dns.jobs))

\* run_job(): a job whose deadline is over gets no lookup, and an empty list
RunJob(res) ==
  /\ dns.work = Idle /\ dns.jobs # << >>
  /\ LET i == Head(dns.jobs)
         late == dns.req[i].due # 0 /\ dns.clock >= dns.req[i].due
     IN /\ late <=> res = "empty"
        /\ dns' = [dns EXCEPT !.jobs = Tail(@), !.work = [id |-> i, res |-> res]]

RunJobReplies(room) ==
  /\ dns.work # Idle
  /\ LET d == [dns EXCEPT !.work = Idle]
     IN dns' = IF room THEN [d EXCEPT !.mail = Append(@, dns.work)] ELSE Dropped(d, dns.work.id)

DnsPollBegin ==
  /\ dns.stage = "user"
  /\ dns' = [dns EXCEPT !.stage = "mail", !.seen = dns.clock]

\* what the code would be without the exchange on done
DnsAnsweredUnchecked ==
  /\ dns.stage = "mail" /\ dns.mail # << >>
  /\ LET m == Head(dns.mail)
     IN dns' = Answer([dns EXCEPT !.mail = Tail(@), !.req[m.id].timer = FALSE], m.id, m.res)

\* the mailbox comes before the timers: the answer disarms the timer, unless that was first
DnsAnswered ==
  /\ dns.stage = "mail" /\ dns.mail # << >>
  /\ LET m == Head(dns.mail)
         d == [dns EXCEPT !.mail = Tail(@)]
     IN dns' = IF d.req[m.id].done THEN d ELSE Answer([d EXCEPT !.req[m.id].timer = FALSE], m.id, m.res)

ReplyShed ==
  /\ dns.stage = "mail" /\ dns.mail # << >>
  /\ dns' = Dropped([dns EXCEPT !.mail = Tail(@)], Head(dns.mail).id)

DnsMailDone ==
  /\ dns.stage = "mail" /\ dns.mail = << >>
  /\ dns' = [dns EXCEPT !.stage = "timers"]

Due(i) == dns.req[i].timer /\ dns.seen >= dns.req[i].due

DnsExpires(i) ==
  /\ dns.stage = "timers" /\ Due(i)
  /\ LET d == [dns EXCEPT !.req[i].timer = FALSE]
     IN dns' = IF d.req[i].done THEN d ELSE Answer(d, i, "expired")

DnsTimersDone ==
  /\ dns.stage = "timers" /\ \A i \in DnsIds : ~Due(i)
  /\ dns' = [dns EXCEPT !.stage = "user"]

DnsTick ==
  /\ dns.clock < DnsTime
  /\ dns' = [dns EXCEPT !.clock = @ + 1]

\* ~Resolver(): the job that runs is finished, the ones that wait are dropped
DnsDestroy ==
  /\ dns.up /\ dns.work = Idle
  /\ dns' = [dns EXCEPT !.up = FALSE, !.jobs = << >>,
                        !.lost = @ \cup {dns.jobs[k] : k \in DOMAIN dns.jobs}]

DnsNext ==
  \/ \E i \in DnsIds, room \in BOOLEAN : \E t \in DnsTimeouts : Resolve(i, t, room)
  \/ \E res \in {"addrs", "failed", "empty"} : RunJob(res)
  \/ \E room \in BOOLEAN : RunJobReplies(room)
  \/ JobShed \/ DnsPollBegin \/ DnsAnswered \/ ReplyShed \/ DnsMailDone \/ DnsTimersDone \/ DnsTick \/ DnsDestroy
  \/ \E i \in DnsIds : DnsExpires(i)

DnsSpec == DnsInit /\ [][DnsNext]_dnsVars

-----------------------------------------------------------------------------
(* Properties *)

Underway(i) ==
  \/ dns.req[i].timer \/ dns.work.id = i
  \/ \E k \in DOMAIN dns.jobs : dns.jobs[k] = i
  \/ \E k \in DOMAIN dns.mail : dns.mail[k].id = i

\* A request is answered at most once, whichever of the reply and the deadline is first,
\* and then its timer is off; until then something that will answer it is under way, but
\* for a request without a deadline one of whose tasks was refused or shed.  Expired does
\* not come before the deadline.  Nor does the one answer that resolve() does not promise,
\* success with an empty list: run_job has it for a job that it takes up too late, and
\* posts it where it says that it leaves the report to the timer (State::done, run_job,
\* drain_mailbox).
DnsOnce ==
  \A i \in DnsIds :
    LET r == dns.req[i] IN
    /\ Len(r.got) <= 1 /\ (r.done <=> r.got # << >>)
    /\ r.done => ~r.timer
    /\ r.made /\ ~r.done => Underway(i) \/ (r.due = 0 /\ i \in dns.lost)
    /\ \A k \in DOMAIN r.got : r.got[k] \in {"expired", "empty"} => r.due # 0 /\ dns.clock >= r.due
=============================================================================
