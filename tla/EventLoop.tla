----------------------------- MODULE EventLoop ------------------------------
(***************************************************************************)
(* util/eventloop.{hh,cc}: the rules of an EventLoop and wait_next_event().*)
(*                                                                         *)
(* sys is what the rules' callbacks read and change; another loop, or the  *)
(* kernel, may change it between any two steps.  What poll() reported is   *)
(* kept in the loop and may be stale when a rule's turn comes.  A signal   *)
(* handler (EINTR) is never installed in the repository.                   *)
(***************************************************************************)
EXTENDS Integers, Sequences, SequencesExt

CONSTANTS
  Rules,             \* the rules, in the order of add_rule()
  Direction(_),      \* Direction(r): "in" or "out"
  AtEof(_, _),       \* AtEof(r, s): fd.eof()
  Closed(_, _),      \* Closed(r, s): fd.closed()
  Interest(_, _),    \* Interest(r, s): interest()
  Cancel(_, _),      \* Cancel(r, s): the state after cancel()
  Callback(_, _),    \* Callback(r, s): the results [sys, served] callback() may
                     \* have; served: service_count() has changed
  Revents(_, _)      \* Revents(r, s): of {"in", "out", "hup", "err"}, what
                     \* poll() finds true of the rule's fd

VARIABLES sys, loop

\* The first loop of wait_next_event(), for one rule: it is cancelled and
\* erased at end of file or when its fd is closed; otherwise it is polled, for
\* errors only if it is not interested.
SetUpRule(acc, r) ==
  IF (Direction(r) = "in" /\ AtEof(r, acc.sys)) \/ Closed(r, acc.sys)
  THEN [acc EXCEPT !.sys = Cancel(r, @)]
  ELSE [acc EXCEPT !.rules = Append(@, r),
                   !.asked = IF Interest(r, acc.sys) THEN @ \cup {r} ELSE @]

\* Of what poll() may report of r, what it was asked for or reports anyway.
Reported(r, asked, s) ==
  Revents(r, s) \cap ({"hup", "err"} \cup (IF r \in asked THEN {Direction(r)} ELSE {}))

\* An EventLoop with all its rules.
LoopNew == [at |-> "new", rules |-> Rules, asked |-> {}, due |-> <<>>, triggered |-> FALSE]

\* wait_next_event(), called in state s, up to poll(): Exit if no rule is
\* interested.
SetUp(s) ==
  LET acc == FoldLeft(SetUpRule, [sys |-> s, rules |-> <<>>, asked |-> {}], loop.rules)
  IN  /\ sys' = acc.sys
      /\ loop' = [loop EXCEPT !.rules = acc.rules, !.asked = acc.asked, !.triggered = FALSE,
                              !.at = IF acc.asked = {} THEN "exit" ELSE "poll"]

SomethingReady == \E i \in DOMAIN loop.rules : Reported(loop.rules[i], loop.asked, sys) # {}

\* poll() returns what it found; due are the rules that call for something: an
\* error, or anything at all if they asked.  The others' turn does nothing.
Poll ==
  LET found == [i \in DOMAIN loop.rules |->
                  [rule |-> loop.rules[i], got |-> Reported(loop.rules[i], loop.asked, sys)]]
      due   == SelectSeq(found, LAMBDA f : "err" \in f.got \/ (f.rule \in loop.asked /\ f.got # {}))
  IN  /\ loop.at = "poll" /\ SomethingReady
      /\ loop' = [loop EXCEPT !.at = IF due = <<>> THEN "success" ELSE "results", !.due = due]
      /\ UNCHANGED sys

\* poll() returns 0.
Timeout ==
  /\ loop.at = "poll" /\ ~SomethingReady
  /\ loop' = [loop EXCEPT !.at = "timeout"]
  /\ UNCHANGED sys

\* Mutant: a hangup cancels a rule although it can still be served.
OnlyHangupAlways(f) == "hup" \in f.got

\* The rule asked, and the hangup is all there is.
OnlyHangup(f) == "hup" \in f.got /\ Direction(f.rule) \notin f.got

\* The second loop of wait_next_event(), for the next rule that is due.  An
\* error, and a callback that changes nothing and wants to be called again, are
\* exceptions.  The last rule returns Success.
Serve ==
  LET f     == Head(loop.due)
      after == [loop EXCEPT !.due = Tail(@), !.triggered = TRUE,
                            !.at = IF Tail(loop.due) = <<>> THEN "success" ELSE "results"]
      failed == [loop EXCEPT !.at = "failed"]
  IN  /\ loop.at = "results"
      /\ IF "err" \in f.got
         THEN loop' = failed /\ UNCHANGED sys
         ELSE IF OnlyHangup(f)
         THEN sys' = Cancel(f.rule, sys) /\ loop' = [after EXCEPT !.rules = Remove(@, f.rule)]
         ELSE \E result \in Callback(f.rule, sys) :
                /\ sys' = result.sys
                /\ loop' = IF ~result.served /\ Interest(f.rule, result.sys)
                           THEN failed ELSE after
=============================================================================
