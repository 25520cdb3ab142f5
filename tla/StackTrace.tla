----------------------------- MODULE StackTrace -----------------------------
(***************************************************************************)
(* stacktrace(): the lines of a stack trace, outermost frame first, and    *)
(* the replacements that make it readable, those the program added by      *)
(* add_stack_cleanup and then loguru's own.  A text is a sequence over a   *)
(* small alphabet, since whether the rewriting ends is about its letters.  *)
(* Unwinding and demangling are external: Symbols are what they give.      *)
(***************************************************************************)
EXTENDS Integers, SequencesExt

CONSTANTS
  Newline,        (* The end of a line.                                     *)
  Truncated,      (* The text "[truncated]".                                *)
  Symbols,        (* The names functions have in a trace: texts.            *)
  Cleanups,       (* What the program passes to add_stack_cleanup: pairs.   *)
  REPLACE_LIST,   (* loguru's own pairs; some may be as long as each other. *)
  max_frames,     (* The size of callstack ...                              *)
  buf_size,       (* ... and what buf has room for, its line break included. *)
  MaxCleanups     (* Bound: calls of add_stack_cleanup.                     *)

Pairs  == Cleanups \cup Range(REPLACE_LIST)
(* What the lines of a trace are made of. *)
Glyphs == {Truncated} \cup UNION {Range(s) : s \in Symbols}
                      \cup UNION {Range(c.find) \cup Range(c.by) : c \in Pairs}

ASSUME StackTraceAssumption ==
  /\ Newline \notin Glyphs
  /\ Symbols \subseteq Seq(Glyphs)
  /\ Pairs \subseteq [find : Seq(Glyphs), by : Seq(Glyphs)]
  /\ REPLACE_LIST \in Seq(Pairs)
  /\ max_frames \in Nat /\ buf_size \in Nat /\ MaxCleanups \in Nat

VARIABLES
  s_user_stack_cleanups,
  callstack,              (* The frames backtrace found, innermost first.   *)
  skip,                   (* Frames the caller does not want.               *)
  output,                 (* The text ...                                   *)
  rule,                   (* ... and the replacement it is at; 0: no trace. *)
  added                   (* Calls of add_stack_cleanup.                    *)

trace == <<s_user_stack_cleanups, callstack, skip, output, rule, added>>

Rules == s_user_stack_cleanups \o REPLACE_LIST

NoTrace ==
  /\ s_user_stack_cleanups = <<>>
  /\ callstack = <<>> /\ skip = 0
  /\ output = <<>> /\ rule = 0
  /\ added = 0

-----------------------------------------------------------------------------
NotShorter(c) == Len(c.find) >= Len(c.by)   \* mutant: < for <=

Longer(c) == Len(c.find) > Len(c.by)

(* A replacement that is not shorter is refused. *)
AddStackCleanup ==
  /\ rule = 0 /\ added < MaxCleanups
  /\ \E c \in Cleanups :
       s_user_stack_cleanups' =
         IF Longer(c) THEN Append(s_user_stack_cleanups, c)
         ELSE s_user_stack_cleanups
  /\ added' = added + 1
  /\ UNCHANGED <<callstack, skip, output, rule>>

(* snprintf into buf: of a name that is too long the line break is cut, too. *)
Line(name) == LET l == name \o <<Newline>> IN SubSeq(l, 1, Min({Len(l), buf_size}))

InnermostFirst(frames, n) ==   \* mutant: the loop runs upwards
  FlattenSeq([k \in 1..(Len(frames) - n) |-> Line(frames[n + k])])

(* for (int i = num_frames - 1; i >= skip; --i) *)
Lines(frames, n) ==
  FlattenSeq([k \in 1..(Len(frames) - n) |-> Line(frames[Len(frames) + 1 - k])])

WithoutLastNewline(s) == IF s # <<>> /\ Last(s) = Newline THEN Front(s) ELSE s

stacktrace ==
  /\ rule = 0
  /\ \E frames \in BoundedSeq(Symbols, max_frames), n \in 0..max_frames :
       /\ callstack' = frames /\ skip' = n
       /\ output' = WithoutLastNewline(
                      (IF Len(frames) = max_frames
                       THEN <<Truncated, Newline>> ELSE <<>>)
                      \o Lines(frames, n))
  /\ rule' = 1
  /\ UNCHANGED <<s_user_stack_cleanups, added>>

(***************************************************************************)
(* do_replacements.  The list it is given may hold pairs that are not      *)
(* shorter (type_name<std::string>() may be "std::string"): it skips them. *)
(***************************************************************************)
Occurs(p, s) == {i \in DOMAIN s : /\ i + Len(p) - 1 <= Len(s)
                                  /\ SubSeq(s, i, i + Len(p) - 1) = p}
Applies(c, s) == Longer(c) /\ Occurs(c.find, s) # {}
Cleaning      == rule \in DOMAIN Rules

(* str.find and str.replace: the first occurrence. *)
ReplaceFirst(c, s) ==
  LET i == Min(Occurs(c.find, s))
  IN SubSeq(s, 1, i - 1) \o c.by \o SubSeq(s, i + Len(c.find), Len(s))

Replace ==
  /\ Cleaning /\ Applies(Rules[rule], output)
  /\ output' = ReplaceFirst(Rules[rule], output)
  /\ UNCHANGED <<s_user_stack_cleanups, callstack, skip, rule, added>>

NextRule ==
  /\ Cleaning /\ ~Applies(Rules[rule], output)
  /\ rule' = rule + 1
  /\ UNCHANGED <<s_user_stack_cleanups, callstack, skip, output, added>>

TraceNext == AddStackCleanup \/ stacktrace \/ Replace \/ NextRule

TraceSpec == NoTrace /\ [][TraceNext]_trace

-----------------------------------------------------------------------------
(* However the replacements feed one another, the rewriting ends: a pair     *)
(* that could go on for ever never gets to the loop.                         *)
CleanupEnds == rule > 0 ~> rule > Len(Rules)

(* What a line becomes on its own: each rule used to exhaustion, in turn. *)
Exhausted(s, c) ==
  LET used[n \in 0..Len(s)] ==
        IF n = 0 THEN s
        ELSE IF Applies(c, used[n - 1]) THEN ReplaceFirst(c, used[n - 1]) ELSE used[n - 1]
  IN used[Len(s)]
Stages(rules, s) ==
  LET after[n \in 0..Len(rules)] ==
        IF n = 0 THEN s ELSE Exhausted(after[n - 1], rules[n])
  IN after
Cleaned(s) == Stages(Rules, s)[Len(Rules)]

(* The lines of a trace before the clean-up: the frames, outermost first. *)
Shown == SubSeq(callstack, skip + 1, Len(callstack))
Rows  == (IF Len(callstack) = max_frames THEN <<<<Truncated>>>> ELSE <<>>)
          \o Reverse(Shown)

(* The trace is rewritten as one text, and yet it is the lines of its frames *)
(* each rewritten on its own, none lost and none joined, with the frame that *)
(* asked for the trace last (the comment at the loop: "so the most relevant  *)
(* ones are written last").  A name longer than buf is joined to the next.   *)
EachFrameCleaned ==
  rule > Len(Rules) /\ (\A k \in DOMAIN Shown : Len(Shown[k]) < buf_size) =>
    output = WithoutLastNewline(
               FlattenSeq([k \in DOMAIN Rows |-> Cleaned(Rows[k]) \o <<Newline>>]))

=============================================================================
