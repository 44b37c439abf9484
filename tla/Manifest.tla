------------------------------- MODULE Manifest -------------------------------
(***************************************************************************)
(* manifest_parse (updater.c): the format line, then one key and value per *)
(* line in any order, refused at the first line that is not what format 1  *)
(* defines.  A line is what stands before its first CR or LF; what follows *)
(* a CR up to the LF is skipped unread.                                    *)
(*                                                                         *)
(* A decimal value is the sequence of its characters, a digest or a        *)
(* version that of its bytes; Bad is a text that is none.                  *)
(***************************************************************************)
EXTENDS Naturals, Sequences

CONSTANTS
  Radix,      \* decimal
  Word,       \* u32 arithmetic is modulo this
  Format,     \* MANIFEST_FORMAT
  Bad,        \* a digest or version that is malformed, or what comes of it
  NoValue,    \* nothing behind the key
  Manifests   \* the files the host serves, as sequences of lines

ASSUME RadixAssumption ==
  /\ Radix \in Nat \ {0} /\ Word \in Nat /\ Radix < Word
  /\ Format \in 0 .. Word - 1 /\ Bad \notin Nat

\* A key is one that format 1 defines, another, or one of none or more than
\* MAN_KEY_MAX characters.
Required == {"sha256", "length", "version"}
Keys == Required \cup {"manifest", "other", "none", "overlong"}
BlankLine == [key |-> "blank", value |-> NoValue]

\* What a line is, and what its value is made of.
IsLine(line) ==
  /\ line.key \in Keys \cup {"blank"}
  /\ line.key = "blank" => line = BlankLine
  /\ line.key = "manifest" => line.value # Bad
  /\ line.key \in {"manifest", "length"} /\ line.value \notin {Bad, NoValue} =>
       line.value \in Seq(Nat)

ASSUME LinesAssumption ==
  \A f \in Manifests :
    f \in Seq({f[i] : i \in DOMAIN f}) /\ \A i \in DOMAIN f : IsLine(f[i])

VARIABLES
  pc,        \* "first", "lines", and then the steps of the update
  file,      \* the manifest the host served
  pos,       \* the line looked at
  seen, man, \* the required keys so far, and their values
  mr         \* man_result_t

parser == <<file, pos, seen, man, mr>>

-----------------------------------------------------------------------------
(* The values.                                                             *)

\* Mutated form of DigitFits: the digit itself is not accounted for.
DigitFitsAlmost(v, d) == v <= (Word - 1) \div Radix

DigitFits(v, d) == v <= (Word - 1 - d) \div Radix

\* A character that is not a digit is one that is not below Radix.
DecStep(v, c) ==
  IF v = Bad \/ c >= Radix THEN Bad
  ELSE IF ~DigitFits(v, c) THEN Bad ELSE (v * Radix + c) % Word

man_parse_dec(chars) ==
  LET v[i \in 0 .. Len(chars)] == IF i = 0 THEN 0 ELSE DecStep(v[i - 1], chars[i])
  IN IF chars = <<>> THEN Bad ELSE v[Len(chars)]

\* What a key makes of its value, or Bad.
Parse(key, value) == IF key = "length" /\ value # Bad THEN man_parse_dec(value) ELSE value

-----------------------------------------------------------------------------
(* The lines.                                                              *)

Stop(r) == pc' = "parsed" /\ mr' = r /\ UNCHANGED <<file, pos, seen, man>>
GoOn == pos' = pos + 1 /\ UNCHANGED <<file, mr>>

Line == file[pos]

\* The format the first line declares.
Declared ==
  IF file # <<>> /\ Line.key = "manifest" /\ Line.value # NoValue
  THEN man_parse_dec(Line.value) ELSE Bad

FirstLine ==
  /\ pc = "first"
  /\ \/ Declared = Bad /\ Stop("FORMAT")
     \/ Declared \notin {Bad, Format} /\ Stop("FORMAT_VER")
     \/ Declared = Format /\ pc' = "lines" /\ GoOn /\ UNCHANGED <<seen, man>>

More == pc = "lines" /\ pos <= Len(file)

SkipBlank == More /\ Line = BlankLine /\ GoOn /\ UNCHANGED <<pc, seen, man>>

NotAPair ==
  /\ More /\ Line # BlankLine
  /\ Line.key \in {"none", "overlong"} \/ Line.value = NoValue
  /\ Stop("SYNTAX")

Pair == More /\ Line.key \notin {"blank", "none", "overlong"} /\ Line.value # NoValue

Duplicate == Line.key \in seen

KnownKey ==
  /\ Pair /\ Line.key \in Required
  /\ \/ Duplicate /\ Stop("DUPLICATE")
     \/ ~Duplicate /\ Parse(Line.key, Line.value) = Bad /\ Stop("VALUE")
     \/ /\ ~Duplicate /\ Parse(Line.key, Line.value) # Bad
        /\ seen' = seen \cup {Line.key}
        /\ man' = [man EXCEPT ![Line.key] = Parse(Line.key, Line.value)]
        /\ GoOn /\ UNCHANGED pc

UnknownKey == Pair /\ Line.key \notin Required /\ Stop("UNKNOWN_KEY")

EndOfFile ==
  /\ pc = "lines" /\ pos > Len(file)
  /\ Stop(IF seen = Required THEN "OK" ELSE "MISSING")

ParserInit ==
  /\ file \in Manifests
  /\ pc = "first" /\ pos = 1 /\ seen = {} /\ mr = "OK"
  /\ man = [key \in Required |-> Bad]

Parser == FirstLine \/ SkipBlank \/ NotAPair \/ KnownKey \/ UnknownKey \/ EndOfFile

-----------------------------------------------------------------------------
(* What a manifest of format 1 is, without a parser.                       *)

\* The number a string of digits stands for, however long.
Number(chars) ==
  LET v[i \in 0 .. Len(chars)] == IF i = 0 THEN 0 ELSE v[i - 1] * Radix + chars[i]
  IN v[Len(chars)]

IsDecimal(value) ==
  /\ value \notin {Bad, NoValue} /\ value # <<>>
  /\ \A i \in DOMAIN value : value[i] < Radix
  /\ Number(value) < Word

WellFormed(line) ==
  IF line.key = "length" THEN IsDecimal(line.value) ELSE line.value \notin {Bad, NoValue}

Meaning(line) == IF line.key = "length" THEN Number(line.value) ELSE line.value

Pairs(f) == {i \in 2 .. Len(f) : f[i] # BlankLine}

IsFormat1(f) ==
  /\ f # <<>> /\ f[1].key = "manifest"
  /\ f[1].value # NoValue /\ IsDecimal(f[1].value) /\ Number(f[1].value) = Format
  /\ \A i \in Pairs(f) : f[i].key \in Required /\ WellFormed(f[i])
  /\ \A key \in Required : \E i \in Pairs(f) : f[i].key = key
  /\ \A i, j \in Pairs(f) : f[i].key = f[j].key => i = j

\* manifest_parse takes exactly the files of format 1: each required key once,
\* nothing else, every value whole, and no length that only fits after it has
\* lost its high digits; what it returns is what they say.
ParserIsStrict ==
  pc = "parsed" =>
    /\ mr = "OK" <=> IsFormat1(file)
    /\ mr = "OK" => \A i \in Pairs(file) : man[file[i].key] = Meaning(file[i])
=============================================================================
