------------------------------- MODULE LogLine ------------------------------
(***************************************************************************)
(* The text in front of a message: print_preamble and, for the line that   *)
(* explains it, print_preamble_header.  Both fill a buffer of              *)
(* LOGURU_PREAMBLE_WIDTH bytes, column by column, with snprintf, which     *)
(* returns the width it wanted and writes what there is room for.  The     *)
(* columns are meant to stand under each other.                            *)
(*                                                                         *)
(* A text is its width, except for the level, which is the text itself.    *)
(* Dates are those of years with four digits.                              *)
(***************************************************************************)
EXTENDS Integers, SequencesExt

CONSTANTS
  LOGURU_THREADNAME_WIDTH, LOGURU_FILENAME_WIDTH,
  Preambles,      (* Sets of columns the program may ask for.               *)
  Uptimes,        (* Milliseconds since s_start_time.                       *)
  NameWidths,     (* Widths of thread names; 0: none was set, or "".        *)
  Files,          (* Widths of file names, and ...                          *)
  LineNumbers,    (* ... lines in those files.                              *)
  Verbosities,    (* Levels messages are logged at.                         *)
  CustomName,     (* s_verbosity_to_name_callback: a function from levels.  *)
  FourLetters,    (* What is shown of a name: its first four characters,    *)
                  (* with blanks in front of a shorter one ("%4s").         *)
  FourDigits      (* How a signed byte is shown: "% 4d".                    *)

Columns == <<"date", "time", "uptime", "thread", "file", "verbose", "pipe">>

(* Loguru's own names of levels, and what stands for a level without one.  *)
OwnNames == {"FATL", "ERR", "WARN", "INFO"}
NoName   == "nullptr"
Int8     == -128..127

LOGURU_PREAMBLE_WIDTH == 53 + LOGURU_THREADNAME_WIDTH + LOGURU_FILENAME_WIDTH

ASSUME LogLineAssumption ==
  /\ LOGURU_THREADNAME_WIDTH \in Nat /\ LOGURU_THREADNAME_WIDTH >= 15
  /\ LOGURU_FILENAME_WIDTH \in Nat /\ LOGURU_FILENAME_WIDTH >= 4
  /\ Preambles \subseteq SUBSET Range(Columns)
  /\ Uptimes \subseteq Nat /\ NameWidths \subseteq Nat /\ Files \subseteq Nat
  /\ LineNumbers \subseteq Nat \ {0}
  /\ Verbosities \subseteq Int
  /\ \A v \in DOMAIN CustomName : CustomName[v] # NoName

(* No two of loguru's own names and of the numbers look the same. *)
ASSUME ShownAssumption ==
  /\ \A m, n \in OwnNames : FourLetters[m] = FourLetters[n] => m = n
  /\ \A b, c \in Int8 : FourDigits[b] = FourDigits[c] => b = c
  /\ \A n \in OwnNames, b \in Int8 : FourLetters[n] # FourDigits[b]

VARIABLES
  g_preamble,     (* FALSE: lines have no preamble at all.                  *)
  preamble,       (* The columns asked for: the g_preamble_... flags.       *)
  writing,        (* "none", "header", "between", "line" or "whole".        *)
  entry,          (* What is logged, once print_preamble was called.        *)
  column,         (* The next column,                                       *)
  pos,            (* where it is to begin,                                  *)
  room,           (* and what the last snprintf was told it had.            *)
  begins,         (* Where the columns of each of the two lines begin ...   *)
  stored          (* ... and how many characters of it are in the buffer.   *)

line == <<g_preamble, preamble, writing, entry, column, pos, room, begins, stored>>

NoEntry == [uptime |-> 0, name |-> 0, file |-> 0, line |-> 1, verbosity |-> 0]

NoLine ==
  /\ g_preamble \in BOOLEAN /\ preamble \in Preambles
  /\ writing = "none" /\ entry = NoEntry
  /\ column = 1 /\ pos = 0 /\ room = LOGURU_PREAMBLE_WIDTH
  /\ begins = [l \in {"header", "line"} |-> <<>>]
  /\ stored = [l \in {"header", "line"} |-> 0]

-----------------------------------------------------------------------------
(* The decimal digits of n. *)
Digits(n) ==
  LET Powers == <<10, 100, 1000, 10000, 100000, 1000000, 10000000, 100000000>>
  IN Min({d \in DOMAIN Powers : n < Powers[d]} \cup {9})

(* printf's minimal width of a field, and snprintf's maximal one. *)
AtLeast(width, n) == Max({width, n})
AtMost(width, n)  == Min({width, n})

HeaderWidth ==
  [date |-> 11, time |-> 13, uptime |-> 12,
   thread |-> LOGURU_THREADNAME_WIDTH + 2,
   file |-> LOGURU_FILENAME_WIDTH + 7, verbose |-> 4, pipe |-> 2]

(* A name that is too long is cut; where there is none, a hexadecimal id is *)
(* aligned to the right.                                                    *)
get_thread_name(n) ==
  IF n = 0 THEN LOGURU_THREADNAME_WIDTH ELSE AtMost(LOGURU_THREADNAME_WIDTH, n)

uptime_sec(e) == e.uptime \div 1000

Untrimmed(e) ==   \* mutant: without shortened_filename
  [date |-> 11, time |-> 13,
   uptime  |-> AtLeast(8, Digits(uptime_sec(e)) + 4) + 4,
   thread  |-> AtLeast(LOGURU_THREADNAME_WIDTH, get_thread_name(e.name)) + 2,
   file    |-> AtLeast(LOGURU_FILENAME_WIDTH, e.file)
               + 1 + AtLeast(5, Digits(e.line)) + 1,
   verbose |-> 4, pipe |-> 2]

LineWidth(e) ==
  [date |-> 11, time |-> 13,
   uptime  |-> AtLeast(8, Digits(uptime_sec(e)) + 4) + 4,
   thread  |-> AtLeast(LOGURU_THREADNAME_WIDTH, get_thread_name(e.name)) + 2,
   file    |-> AtLeast(LOGURU_FILENAME_WIDTH, AtMost(LOGURU_FILENAME_WIDTH, e.file))
               + 1 + AtLeast(5, Digits(e.line)) + 1,
   verbose |-> 4, pipe |-> 2]

Width(c) == IF writing = "header" THEN HeaderWidth[c] ELSE LineWidth(entry)[c]

NoLimit(c) == c \in preamble   \* mutant: without pos < out_buff_size

Asked(c) == c \in preamble /\ pos < LOGURU_PREAMBLE_WIDTH

PrintColumn ==
  /\ writing \in {"header", "line"} /\ column \in DOMAIN Columns
  /\ LET c == Columns[column] IN
       IF Asked(c)
       THEN /\ room' = LOGURU_PREAMBLE_WIDTH - pos
            /\ pos' = pos + Width(c)
            /\ begins' = [begins EXCEPT ![writing] = Append(@, pos)]
            /\ stored' = [stored EXCEPT ![writing] =
                            AtMost(LOGURU_PREAMBLE_WIDTH - 1, pos + Width(c))]
       ELSE UNCHANGED <<pos, room, begins, stored>>
  /\ column' = column + 1
  /\ UNCHANGED <<g_preamble, preamble, writing, entry>>

(* The header does not ask for g_preamble, *)
print_preamble_header ==
  /\ writing = "none" /\ writing' = "header"
  /\ UNCHANGED <<g_preamble, preamble, entry, column, pos, room, begins, stored>>

(* but a line without it returns before the first column. *)
print_preamble ==
  /\ writing = "between" /\ writing' = "line"
  /\ \E u \in Uptimes, n \in NameWidths, f \in Files, l \in LineNumbers,
        v \in Verbosities :
       entry' = [uptime |-> u, name |-> n, file |-> f, line |-> l, verbosity |-> v]
  /\ column' = (IF g_preamble THEN 1 ELSE Len(Columns) + 1) /\ pos' = 0
  /\ UNCHANGED <<g_preamble, preamble, room, begins, stored>>

EndLine ==
  /\ writing \in {"header", "line"} /\ column > Len(Columns)
  /\ writing' = IF writing = "header" THEN "between" ELSE "whole"
  /\ UNCHANGED <<g_preamble, preamble, entry, column, pos, room, begins, stored>>

LineNext == print_preamble_header \/ print_preamble \/ PrintColumn \/ EndLine
LineSpec == NoLine /\ [][LineNext]_line

-----------------------------------------------------------------------------
(* The level: a name, the user's before loguru's own, or a number, which is *)
(* a signed byte by the time it is printed.                                 *)
WarnFirst(v) ==   \* mutant: WARN for all that is at least as bad
  IF v \in DOMAIN CustomName THEN CustomName[v]
  ELSE IF v < 0 THEN "WARN" ELSE IF v = 0 THEN "INFO" ELSE NoName

get_verbosity_name(v) ==
  IF v \in DOMAIN CustomName THEN CustomName[v]
  ELSE CASE v <= -3 -> "FATL" [] v = -2 -> "ERR" [] v = -1 -> "WARN"
         [] v = 0 -> "INFO" [] v > 0 -> NoName

ToInt8(v) == ((v + 128) % 256) - 128

(* level_buff has room for four characters of either. *)
level_buff(v) ==
  LET name == get_verbosity_name(v)
  IN IF name = NoName THEN FourDigits[ToInt8(v)] ELSE FourLetters[name]

-----------------------------------------------------------------------------
(* Within its first 10 000 seconds, and in the first 99 999 lines of a file, *)
(* every column of a line begins under the header's, and so does the         *)
(* message: whatever the names of the thread and the file and the level.     *)
(* Not so without g_preamble, when a header stands over bare messages.       *)
UnderItsHeader ==
  writing = "whole" /\ g_preamble
    /\ uptime_sec(entry) < 10000 /\ entry.line < 100000 =>
    begins.line = begins.header /\ stored.line = stored.header

(* Every snprintf is given the room that is left, at least a byte for the    *)
(* terminator: out_buff_size - pos, which is unsigned, never wraps.  Up to   *)
(* 99 999 seconds, 27 hours, the preamble is whole: the buffer has a byte to *)
(* spare for the digit that is out of line.                                  *)
NothingCut ==
  /\ room >= 1
  /\ writing = "whole" /\ uptime_sec(entry) < 100000 /\ entry.line < 100000 =>
    stored.line = pos

(* Custom names that tell levels apart by their first four characters: no    *)
(* two alike, and none like one of loguru's own names or like a number.      *)
TellingNames ==
  \A v \in DOMAIN CustomName :
    /\ \A w \in DOMAIN CustomName :
         FourLetters[CustomName[v]] = FourLetters[CustomName[w]] => v = w
    /\ \A n \in OwnNames : FourLetters[CustomName[v]] # FourLetters[n]
    /\ \A b \in Int8 : FourLetters[CustomName[v]] # FourDigits[b]

(* Two levels from FATAL to 127 that are not the same are not shown as the   *)
(* same, although a name is cut and what is printed of a number is a signed  *)
(* byte: unless custom names look alike once they are cut, as DEBUG1 and     *)
(* DEBUG2 do, or WARNING and loguru's own WARN.                              *)
LevelsToldApart ==
  TellingNames /\ writing = "whole" /\ entry.verbosity \in -3..127 =>
    \A v \in Verbosities \cap (-3..127) :
      level_buff(v) = level_buff(entry.verbosity) => v = entry.verbosity

=============================================================================
