-------------------------------- MODULE Conf --------------------------------
(***************************************************************************)
(* The configuration file: ca_conf_parse, its tokenizer and the directives *)
(* of this program (src/src/ca_conf.c, src/src/clagent.c).  The tokenizer  *)
(* reads a character a step from a buffer that is refilled; a directive is *)
(* carried out as soon as its words are there, and include and acq parse   *)
(* recursively, on the stack calls.                                        *)
(*                                                                         *)
(* A character is a string.  Names of directives and items have a single   *)
(* one: "D"aemon, "L"og, "M"ax_free_object (like the other numbers),       *)
(* "P"id, "U"pdate_url, "G" for identify, "S"erver, "A"cq and "I"nclude;   *)
(* cases are not told apart.  Of an error that ends the parse it is only   *)
(* kept that there was one.                                                *)
(***************************************************************************)
EXTENDS Integers, SequencesExt

CONSTANTS
  Inputs,       \* configurations: records with the fields text (what the file
                \* holds), ok and settings (what it was written to say)
  Files,        \* files to include: a function from names to texts
  Globs,        \* what glob finds: a function from patterns to names
  Hosts,        \* host names: a function to the number of their addresses
  Items,        \* names in ca_acq_item_handlers
  Levels,       \* names of log levels
  BufferSizes,  \* values of CA_CONF_BUFFER
  WordSize,     \* 2^32 in the code: the values of an int
  TimeMax,      \* CA_MAX_INT32_VALUE
  MaxPort       \* 65535 in the code

ASSUME NumbersAssumption == {WordSize, TimeMax, MaxPort} \subseteq Nat \ {0}
ASSUME BufferAssumption  == BufferSizes \subseteq Nat \ {0}

VARIABLES
  input, size,  \* the configuration and CA_CONF_BUFFER (never change)
  files,        \* open files, innermost last: buffer, pos, rest of the file
  calls,        \* calls of ca_conf_parse: type, and names glob has left
  lx,           \* locals of ca_conf_read_token
  args,         \* cf->args
  settings,     \* what the directives have set, in order
  rc,           \* how the token ended: "ok" (;) or "block" ({)
  pc, result

vars == <<input, size, files, calls, lx, args, settings, rc, pc, result>>

Space   == {" ", "\t", "\r", "\n"}
CaError == -1
-----------------------------------------------------------------------------
(***************************************************************************)
(* ca_atoi and ca_parse_time (src/src/ca_util.c).                          *)
(***************************************************************************)
Digits   == <<"0", "1", "2", "3", "4", "5", "6", "7", "8", "9">>
IsDigit(c) == Contains(Digits, c)
Value(c) == CHOOSE d \in 0..9 : Digits[d + 1] = c

Wrap(v) == LET w == v % WordSize
           IN  IF 2 * w >= WordSize THEN w - WordSize ELSE w

ca_atoi(w) ==
  IF w = <<>> \/ \E i \in DOMAIN w : ~IsDigit(w[i]) THEN CaError
  ELSE LET v == FoldLeft(LAMBDA a, c : Wrap(a * 10 + Value(c)), 0, w)
       IN  IF v < 0 THEN CaError ELSE v

Hour  == 60 * 60
\* A unit may not follow one that is not larger; the space counts seconds.
Units == {[c |-> "y", after |-> 1, step |-> 1, scale |-> 24 * 365 * Hour],
          [c |-> "M", after |-> 2, step |-> 2, scale |-> 24 * 30 * Hour],
          [c |-> "w", after |-> 3, step |-> 3, scale |-> 24 * 7 * Hour],
          [c |-> "d", after |-> 4, step |-> 4, scale |-> 24 * Hour],
          [c |-> "h", after |-> 5, step |-> 5, scale |-> Hour],
          [c |-> "m", after |-> 6, step |-> 6, scale |-> 60],
          [c |-> "s", after |-> 7, step |-> 7, scale |-> 1],
          [c |-> " ", after |-> 7, step |-> 9, scale |-> 1]}

\* t.unit: the last character was a unit, after which spaces are skipped.
TimeStep(t, c) ==
  IF IsDigit(c) THEN [t EXCEPT !.value = @ * 10 + Value(c), !.valid = TRUE,
                               !.unit = FALSE]
  ELSE IF t.unit /\ c = " " THEN t
  ELSE IF \E v \in Units : v.c = c /\ t.step < v.after
       THEN LET u     == CHOOSE v \in Units : v.c = c
                bad   == t.value > TimeMax \div u.scale
                total == IF bad THEN 0 ELSE t.total + t.value * u.scale
            IN  [t EXCEPT !.total = total, !.value = 0, !.step = u.step,
                          !.unit = TRUE,
                          !.wrong = @ \/ bad \/ total > TimeMax]
       ELSE [t EXCEPT !.wrong = TRUE]

\* With is_sec, "ms" is no unit.
ca_parse_time(w) ==
  LET t == FoldLeft(TimeStep, [value |-> 0, total |-> 0, step |-> 0,
                               valid |-> FALSE, unit |-> FALSE,
                               wrong |-> FALSE], w)
      ms == \E i \in 2..Len(w) : w[i - 1] = "m" /\ w[i] = "s"
  IN  IF t.wrong \/ ~t.valid \/ ms THEN CaError
      ELSE t.total + t.value
-----------------------------------------------------------------------------
(***************************************************************************)
(* ca_conf_read_token.                                                     *)
(***************************************************************************)
File == Last(files)

\* Where a token is looked for in f.
Fresh(f) == [need_space |-> FALSE, last_space |-> TRUE, sharp |-> FALSE,
             variable |-> FALSE, quoted |-> FALSE, quote |-> "",
             start |-> f.pos]

Opened(text) == [buf |-> <<>>, pos |-> 0, rest |-> text]

Ends(why) == /\ pc' = "done" /\ result' = why
             /\ UNCHANGED <<input, size, files, calls, lx, args, settings, rc>>

Exhausted == pc = "lex" /\ File.pos = Len(File.buf)

TooLong == /\ Exhausted /\ File.rest # <<>>
           /\ File.pos - lx.start = size
           /\ Ends("long")

\* Mutant: the word is moved, but start is not.
StartAfterMove == lx.start
MovedStart     == 0

\* What was read of the current word moves to the front of the buffer.
Refill ==
  /\ Exhausted /\ File.rest # <<>>
  /\ File.pos - lx.start # size
  /\ LET word == SubSeq(File.buf, lx.start + 1, File.pos)
         room == size - Len(word)
         n    == IF room < Len(File.rest) THEN room ELSE Len(File.rest)
     IN  files' = ReplaceAt(files, Len(files),
                    [buf  |-> word \o SubSeq(File.rest, 1, n),
                     pos  |-> Len(word),
                     rest |-> SubSeq(File.rest, n + 1, Len(File.rest))])
  /\ lx' = [lx EXCEPT !.start = MovedStart]
  /\ UNCHANGED <<input, size, calls, args, settings, rc, pc, result>>

Here  == pc = "lex" /\ File.pos < Len(File.buf)
Ch    == File.buf[File.pos + 1]
Moved == files' = ReplaceAt(files, Len(files), [File EXCEPT !.pos = @ + 1])

\* The character is taken, and the locals are l.
Read(l) == /\ lx' = l /\ Moved
           /\ UNCHANGED <<input, size, calls, args, settings, rc, pc, result>>

\* The words are ws, and ch is ";" or "{".
Found(ws) == /\ pc' = "directive"
             /\ rc' = IF Ch = ";" THEN "ok" ELSE "block"
             /\ args' = ws
             /\ Moved
             /\ UNCHANGED <<input, size, calls, lx, settings, result>>

InComment == /\ Here /\ lx.sharp
             /\ Read([lx EXCEPT !.sharp = (Ch # "\n")])

AfterBackslash == Here /\ lx.quoted /\ Read([lx EXCEPT !.quoted = FALSE])

AfterQuote ==
  /\ Here /\ lx.need_space
  /\ \/ /\ Ch \in Space
        /\ Read([lx EXCEPT !.need_space = FALSE, !.last_space = TRUE])
     \/ Ch \in {";", "{"} /\ Found(args)
     \/ /\ Ch = ")"
        /\ Read([lx EXCEPT !.need_space = FALSE, !.last_space = FALSE,
                           !.start = File.pos])
     \/ Ch \notin Space \cup {";", "{", ")"} /\ Ends("error")

Between == Here /\ lx.last_space /\ ~lx.sharp /\ ~lx.need_space

\* A word starts at the character, or after its quote.
Starts ==
  /\ Between /\ Ch \notin Space \cup {";", "{", "}", "#"}
  /\ Read([lx EXCEPT !.last_space = FALSE,
                     !.quoted = (Ch = "\\"),
                     !.quote  = IF Ch \in {"\"", "'"} THEN Ch ELSE "",
                     !.start  = IF Ch \in {"\"", "'"} THEN File.pos + 1
                                ELSE File.pos])

BetweenWords ==
  /\ Between
  /\ \/ Ch \in Space /\ Read(lx)
     \/ Ch = "#" /\ Read([lx EXCEPT !.sharp = TRUE, !.start = File.pos])
     \/ Ch \in {";", "{"} /\ args # <<>> /\ Found(args)
     \/ Ch \in {";", "{"} /\ args = <<>> /\ Ends("error")
     \/ Ch = "}" /\ args # <<>> /\ Ends("error")

\* The backslash goes from \" \' \\ and makes \t \r \n; else both stay.
Unescaped(raw) ==
  LET Put(a, c) ==
        IF ~a.esc THEN IF c = "\\" THEN [a EXCEPT !.esc = TRUE]
                                   ELSE [a EXCEPT !.out = Append(@, c)]
        ELSE [esc |-> FALSE,
              out |-> CASE c \in {"\"", "'", "\\"} -> Append(a.out, c)
                        [] c = "t" -> Append(a.out, "\t")
                        [] c = "r" -> Append(a.out, "\r")
                        [] c = "n" -> Append(a.out, "\n")
                        [] OTHER   -> a.out \o <<"\\", c>>]
  IN  FoldLeft(Put, [esc |-> FALSE, out |-> <<>>], raw).out

Word == Unescaped(SubSeq(File.buf, lx.start + 1, File.pos))

InWord == Here /\ ~lx.last_space /\ ~lx.quoted /\ ~lx.need_space
AtEnd  == IF lx.quote # "" THEN Ch = lx.quote ELSE Ch \in Space \cup {";", "{"}
Braced == Ch = "{" /\ lx.variable

GoesOn == /\ InWord /\ (Braced \/ ~AtEnd)
          /\ Read([lx EXCEPT !.quoted   = (Ch = "\\"),
                             !.variable = (Ch = "$" \/ Braced)])

WordEnds ==
  /\ InWord /\ ~Braced /\ AtEnd
  /\ IF Ch \in {";", "{"} THEN Found(Append(args, Word))
     ELSE /\ args' = Append(args, Word)
          /\ lx' = [lx EXCEPT !.variable = FALSE,
                              !.last_space = (@ \/ lx.quote = ""),
                              !.need_space = (lx.quote # ""),
                              !.quote = ""]
          /\ Moved
          /\ UNCHANGED <<input, size, calls, settings, rc, pc, result>>

ReadToken == \/ TooLong \/ Refill \/ InComment \/ AfterBackslash \/ AfterQuote
             \/ Starts \/ BetweenWords \/ GoesOn \/ WordEnds
-----------------------------------------------------------------------------
(***************************************************************************)
(* ca_conf_parse: the ends of files and blocks.                            *)
(***************************************************************************)
Type == Last(calls).type

\* A parse has begun in, or gone back to, the files fs.
GoOn(fs, cs) == /\ files' = fs /\ calls' = cs
                /\ lx' = Fresh(Last(fs))
                /\ args' = <<>>
                /\ pc' = "lex"
                /\ UNCHANGED <<input, size, rc, result>>

\* The files of the given names are parsed in turn, if they can be opened.
Include(fs, cs, names) ==
  IF names = <<>> THEN GoOn(fs, cs)
  ELSE IF Head(names) \in DOMAIN Files
       THEN GoOn(Append(fs, Opened(Files[Head(names)])),
                 Append(cs, [type |-> "file", more |-> Tail(names)]))
       ELSE /\ pc' = "done" /\ result' = "error"
            /\ UNCHANGED <<input, size, files, calls, lx, args, rc>>

\* Mutant: an unfinished first word is forgotten.
WordsLeft == args # <<>>
Leftover  == args # <<>> \/ ~lx.last_space

\* main: identify, a server and an item must be there.
Required == /\ \E s \in Range(settings) : s.cmd = "G" /\ s.words # <<<<>>>>
            /\ {"item", "S"} \subseteq {s.cmd : s \in Range(settings)}

EndOfFile ==
  /\ Exhausted /\ File.rest = <<>>
  /\ \/ (Leftover \/ Type = "block") /\ Ends("error")
     \/ /\ ~Leftover /\ Type = "file" /\ Len(calls) > 1
        /\ Include(Front(files), Front(calls), Last(calls).more)
        /\ UNCHANGED settings
     \/ /\ ~Leftover /\ Type = "file" /\ Len(calls) = 1
        /\ Ends(IF Required THEN "ok" ELSE "missing")

EndOfBlock ==
  /\ Between /\ Ch = "}" /\ args = <<>>
  /\ \/ Type # "block" /\ Ends("error")
     \/ /\ Type = "block"
        /\ GoOn(Front(files) \o <<[File EXCEPT !.pos = @ + 1]>>, Front(calls))
        /\ UNCHANGED settings
-----------------------------------------------------------------------------
(***************************************************************************)
(* The directives: ca_conf_handler and the functions it calls.             *)
(***************************************************************************)
Commands ==
  [D |-> [set |-> "flag",    nargs |-> {1}],
   L |-> [set |-> "log",     nargs |-> {1, 2}],
   M |-> [set |-> "num",     nargs |-> {1}],
   P |-> [set |-> "str",     nargs |-> {1}],
   G |-> [set |-> "str",     nargs |-> {1}],
   U |-> [set |-> "str",     nargs |-> {1}],
   S |-> [set |-> "server",  nargs |-> {2}],
   A |-> [set |-> "acq",     nargs |-> {0}],
   I |-> [set |-> "include", nargs |-> {1}]]

Directive == pc = "directive" /\ Type = "file"
Name      == args[1][1]
Known     == Len(args[1]) = 1 /\ Name \in DOMAIN Commands
Set       == Commands[Name].set
IsBlock   == Set = "acq"
Counted   == Len(args) - 1 \in Commands[Name].nargs

Setting(cmd, words, nums) == [cmd |-> cmd, words |-> words, nums |-> nums]

Adds(new) == settings' = settings \o new /\ GoOn(files, calls)

Duplicate == \E s \in Range(settings) : s.cmd = Name

\* A block directive without "{" is an error that is only logged.
NoOpening == /\ Directive /\ Known /\ IsBlock /\ rc = "ok"
             /\ Adds(<<>>)

Refused == /\ Directive
           /\ \/ ~Known
              \/ Known /\ ~IsBlock /\ rc = "block"
              \/ Known /\ (IsBlock <=> rc = "block") /\ ~Counted
           /\ Ends("error")

Sets(kind) == /\ Directive /\ Known /\ Set = kind /\ Counted
              /\ IsBlock <=> rc = "block"

SetFlag ==
  /\ Sets("flag")
  /\ LET on == args[2]
     IN  IF ~Duplicate /\ on \in {<<"o", "n">>, <<"o", "f", "f">>}
         THEN Adds(<<Setting(Name, <<>>, <<IF on = <<"o", "n">> THEN 1 ELSE 0>>)>>)
         ELSE Ends("error")

SetNum ==
  /\ Sets("num")
  /\ IF ~Duplicate /\ ca_atoi(args[2]) # CaError
     THEN Adds(<<Setting(Name, <<>>, <<ca_atoi(args[2])>>)>>)
     ELSE Ends("error")

SetStr ==
  /\ Sets("str")
  /\ IF Duplicate THEN Ends("error")
     ELSE Adds(<<Setting(Name, <<args[2]>>, <<>>)>>)

\* A log with an empty name may be given again.
ca_conf_log ==
  /\ Sets("log")
  /\ IF \/ \E s \in Range(settings) : s.cmd = "L" /\ s.words[1] # <<>>
        \/ Len(args) > 2 /\ args[3] \notin Levels
     THEN Ends("error")
     ELSE Adds(<<Setting("L", Tail(args), <<>>)>>)

\* A host name has any number of addresses, and each is a server.
ca_conf_server ==
  /\ Sets("server")
  /\ LET port == ca_atoi(args[3])
         n    == IF args[2] \in DOMAIN Hosts THEN Hosts[args[2]] ELSE 0
     IN  IF port \in 0..MaxPort /\ n > 0
         THEN Adds([i \in 1..n |-> Setting("S", <<args[2]>>, <<port>>)])
         ELSE Ends("error")

\* A name glob finds is copied without its last character.
Matches(pattern) ==
  IF pattern \in DOMAIN Globs
  THEN [i \in DOMAIN Globs[pattern] |-> Front(Globs[pattern][i])] ELSE <<>>

\* ("*" stands for the characters of a pattern.)
ca_conf_include ==
  /\ Sets("include")
  /\ Include(files, calls, IF Contains(args[2], "*") THEN Matches(args[2])
                           ELSE <<args[2]>>)
  /\ UNCHANGED settings

ca_conf_acq_block ==
  /\ Sets("acq")
  /\ IF Duplicate THEN Ends("error")
     ELSE /\ settings' = Append(settings, Setting("A", <<>>, <<>>))
          /\ GoOn(files, Append(calls, [type |-> "block", more |-> <<>>]))

\* In the block cf->handler is called for every directive, whatever ended it.
ca_conf_acq_item ==
  /\ pc = "directive" /\ Type = "block"
  /\ IF /\ Len(args) = 4 /\ args[1] \in Items
        /\ CaError \notin {ca_atoi(args[2]), ca_parse_time(args[3]),
                           ca_atoi(args[4])}
     THEN Adds(<<Setting("item", <<args[1]>>,
                         <<ca_atoi(args[2]), ca_parse_time(args[3]),
                           ca_atoi(args[4])>>)>>)
     ELSE Ends("error")

Handler == \/ NoOpening \/ Refused \/ SetFlag \/ SetNum \/ SetStr \/ ca_conf_log
           \/ ca_conf_server \/ ca_conf_include \/ ca_conf_acq_block
           \/ ca_conf_acq_item
-----------------------------------------------------------------------------
Init == /\ input \in Inputs /\ size \in BufferSizes
        /\ files = <<Opened(input.text)>>
        /\ calls = <<[type |-> "file", more |-> <<>>]>>
        /\ lx = Fresh(Opened(<<>>))
        /\ args = <<>> /\ settings = <<>> /\ rc = "ok"
        /\ pc = "lex" /\ result = "none"

Parsed == pc = "done" /\ UNCHANGED vars

Next == ReadToken \/ EndOfFile \/ EndOfBlock \/ Handler \/ Parsed

Spec == Init /\ [][Next]_vars
-----------------------------------------------------------------------------
\* A file says what it was written to say: the words come out of their quotes,
\* escapes, comments and gaps as they were meant, in order, wherever the ends
\* of the buffer fall and whichever file they stand in.  Only what is longer
\* than the buffer between two tokens may be refused.  (Of texts the code
\* misreads, listed as Misread in MCConf, it says what they are taken for: a
\* block directive without "{", which is only complained of and passed over, an
\* item that "{" ends, a number that wraps to one of its kind, names found by a
\* pattern.)
WrittenIsRead ==
  (pc = "done" /\ input.ok) =>
    \/ result = "ok" /\ settings = input.settings
    \/ result = "long" /\ size <= input.span

\* A file that is broken is refused: by a piece that is left over, missing, not
\* closed or given twice, an unknown word, a number with another character in
\* it or one that wraps to a negative one or to one beyond its bound, a time
\* whose units do not fit, and an end too soon.  (Not every number that is too
\* large is refused: ca_atoi looks at the sign of the sum only.)
BrokenIsRefused == (pc = "done" /\ ~input.ok) => result # "ok"
=============================================================================
