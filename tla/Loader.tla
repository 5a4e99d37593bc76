------------------------------- MODULE Loader -------------------------------
(***************************************************************************)
(* The start of both programs: the data mapping file and, on the Pi, the   *)
(* hardware button file are read line by line (loadDataMappings of         *)
(* fs2020.cpp and of pi.cpp, which are the same but for the path;          *)
(* loadButtons of pi.cpp).                                                 *)
(*                                                                         *)
(* A line is a sequence of tokens: a name, a number without a sign, a      *)
(* blank, or a text the loaders look for ("; , # + - = .wav").  Tabs are   *)
(* left out, the line end is not part of a line, and an empty text is "no  *)
(* variable".                                                              *)
(* Of a line that holds blanks only, the code also reads what is before    *)
(* the buffer; whatever that is, the line is skipped.  The names are short *)
(* enough for their arrays.  The tables are counted from 1.                *)
(***************************************************************************)
EXTENDS Naturals, FiniteSets, SequencesExt

CONSTANTS
  Digit,        \* the tokens that are numbers
  NumberOf,     \* NumberOf[d]: the button number d stands for
  NoValue,      \* MAXINT
  MappingLine,  \* the lines a mapping file may have
  ButtonLine,   \* the lines a button file may have
  MaxLines      \* bound: lines of each file

ASSUME LoaderAssumption ==
  /\ NumberOf \in [Digit -> Nat] /\ NoValue \notin Digit
  /\ MaxLines \in Nat
  \* A number is not what the loaders look for; a line is a sequence.
  /\ Digit \cap {";", ",", "#", "+", "-", " "} = {}
  /\ \A line \in MappingLine : line \in Seq(ToSet(line))

VARIABLES
  phase,        \* the file that is read, or how it ended
  lines,        \* lines read of it
  dataMapping,  \* the loaded part of the table
  dataMap,      \* <<dataRef, index>> for each entry of the map
  buttonData    \* the loaded part of the table

vars == <<phase, lines, dataMapping, dataMap, buttonData>>

-----------------------------------------------------------------------------
(***************************************************************************)
(* Taking a line to pieces.                                                *)
(***************************************************************************)
Has(s, x) == x \in ToSet(s)
Find(s, x) == SelectInSeq(s, LAMBDA c : c = x)
Before(s, x) == IF Has(s, x) THEN SubSeq(s, 1, Find(s, x) - 1) ELSE s
After(s, x) == IF Has(s, x) THEN SubSeq(s, Find(s, x) + 1, Len(s)) ELSE <<>>

TrimRight(s) == SubSeq(s, 1, SelectLastInSeq(s, LAMBDA c : c # " "))

\* strTrunc
StrTrunc(s) ==
  IF TrimRight(s) = <<>> THEN <<>>
  ELSE SubSeq(s, SelectInSeq(s, LAMBDA c : c # " "), Len(TrimRight(s)))

\* What counts of a line; a line without is skipped.
Significant(line) == TrimRight(Before(line, "#"))

\* "%lf" or atof at the first "+", or else "-": <<>> is 0.
Adjust(s) ==
  LET sign == IF Has(s, "+") THEN "+" ELSE "-"
      number == After(s, sign)
  IN  IF number # <<>> /\ Head(number) \in Digit THEN <<sign, Head(number)>>
      ELSE <<>>

-----------------------------------------------------------------------------
(***************************************************************************)
(* A line of the mapping file: dataRef ; readVar , units ; writeVar, units *)
(***************************************************************************)
Mapping(ref, read, write) ==
  [dataRef |-> ref,
   readVar |-> read.var, readVarUnits |-> read.units,
   testValue |-> read.value, testAdjust |-> read.adjust,
   writeVar |-> write.var, writeVarUnits |-> write.units]

\* The texts after the first and after the second semi-colon.
ReadField(s) == StrTrunc(Before(After(s, ";"), ";"))
WriteField(s) == StrTrunc(After(After(s, ";"), ";"))

\* A read variable that begins with a digit is a test value, no variable.
IsTest(field) == field # <<>> /\ Head(field) \in Digit

\* Wrong on purpose: the text of a test value stays in readVar.
ReadPartKept(field) ==
  IF IsTest(field)
  THEN [var |-> field, units |-> <<>>, value |-> Head(field),
        adjust |-> Adjust(field)]
  ELSE [var |-> Before(field, ","), units |-> StrTrunc(After(field, ",")),
        value |-> NoValue, adjust |-> <<>>]

\* Wrong on purpose: the units are not cut off.
ReadPartUncut(field) ==
  IF IsTest(field)
  THEN [var |-> <<>>, units |-> <<>>, value |-> Head(field),
        adjust |-> Adjust(field)]
  ELSE [var |-> field, units |-> StrTrunc(After(field, ",")),
        value |-> NoValue, adjust |-> <<>>]

ReadPart(field) ==
  IF IsTest(field)
  THEN [var |-> <<>>, units |-> <<>>, value |-> Head(field),
        adjust |-> Adjust(field)]
  ELSE [var |-> Before(field, ","), units |-> StrTrunc(After(field, ",")),
        value |-> NoValue, adjust |-> <<>>]

ReadPartOK(field) ==
  \/ field = <<>> \/ IsTest(field)
  \/ Has(field, ",") /\ StrTrunc(After(field, ",")) # <<>>

WritePartOK(field) == field = <<>> \/ (~Has(field, ";") /\ Has(field, ","))

\* What is not given is copied from the read variable.
WritePart(field, read) ==
  LET Given(text, else) == IF text = <<>> THEN else ELSE text
  IN  [var |-> Given(Before(field, ","), read.var),
       units |-> Given(StrTrunc(After(field, ",")), read.units)]

\* The entry of a line, if LineOK.
Parse(s) ==
  LET read == ReadPart(ReadField(s))
  IN  Mapping(StrTrunc(Before(s, ";")), read, WritePart(WriteField(s), read))

LineOK(s) ==
  /\ Has(s, ";") /\ StrTrunc(Before(s, ";")) # <<>>
  /\ WritePartOK(WriteField(s)) /\ ReadPartOK(ReadField(s))

IsMapped(ref) == \E e \in dataMap : e[1] = ref

\* dataRefNum
DataRefNum(ref) == (CHOOSE e \in dataMap : e[1] = ref)[2]

-----------------------------------------------------------------------------
Pins == <<2, 3, 4, 17, 27, 22, 10, 9, 11>>

\* buttonToGpioPin; a number it does not know has no pin.
HasPin(n) == n \in 1 .. Len(Pins)

\* A line of the button file: button = dataRef blank [initial value] [adjust]
ButtonNumber(s) ==
  LET text == StrTrunc(Before(s, "="))
  IN  IF text # <<>> /\ Head(text) \in Digit THEN NumberOf[Head(text)] ELSE 0
ButtonRef(s) == Before(After(s, "="), " ")
ButtonText(s) == After(After(s, "="), " ")

\* Wrong on purpose: a name that is not in the mapping file is not refused.
ButtonOKUnmapped(s) ==
  /\ Has(s, "=") /\ Last(s) # ".wav" /\ HasPin(ButtonNumber(s))
  /\ Has(After(s, "="), " ")

\* The lines that are not ignored.
ButtonOK(s) ==
  /\ Has(s, "=") /\ Last(s) # ".wav" /\ HasPin(ButtonNumber(s))
  /\ Has(After(s, "="), " ") /\ IsMapped(ButtonRef(s))

Button(s) ==
  [button |-> ButtonNumber(s), gpioPin |-> Pins[ButtonNumber(s)],
   refNum |-> IF IsMapped(ButtonRef(s)) THEN DataRefNum(ButtonRef(s)) ELSE 0,
   initValue |-> IF IsTest(ButtonText(s)) THEN Head(ButtonText(s)) ELSE NoValue,
   adjust |-> Adjust(ButtonText(s))]

-----------------------------------------------------------------------------
Init ==
  /\ phase = "mappings" /\ lines = 0
  /\ dataMapping = <<>> /\ dataMap = {} /\ buttonData = <<>>

NextLine(file) ==
  /\ phase = file /\ lines < MaxLines
  /\ lines' = lines + 1

\* A comment or an empty line.
SkipLine(line) ==
  /\ NextLine("mappings") /\ Significant(line) = <<>>
  /\ UNCHANGED <<phase, dataMapping, dataMap, buttonData>>

\* Wrong on purpose: "dataMap[ref] = dataMappings", whatever was there.
LoadMappingAgain(line) ==
  LET s == Significant(line)
  IN  /\ NextLine("mappings") /\ s # <<>> /\ LineOK(s)
      /\ dataMap' = {e \in dataMap : e[1] # Parse(s).dataRef}
                     \cup {<<Parse(s).dataRef, Len(dataMapping) + 1>>}
      /\ dataMapping' = Append(dataMapping, Parse(s))
      /\ UNCHANGED <<phase, buttonData>>

LoadMapping(line) ==
  LET s == Significant(line)
  IN  /\ NextLine("mappings") /\ s # <<>> /\ LineOK(s)
      /\ ~IsMapped(Parse(s).dataRef)
      /\ dataMap' = dataMap \cup {<<Parse(s).dataRef, Len(dataMapping) + 1>>}
      /\ dataMapping' = Append(dataMapping, Parse(s))
      /\ UNCHANGED <<phase, buttonData>>

\* A line that is wrong, or of a known data reference, ends the program.
Refuse(line) ==
  LET s == Significant(line)
  IN  /\ NextLine("mappings") /\ s # <<>>
      /\ LineOK(s) => IsMapped(Parse(s).dataRef)
      /\ phase' = "failed"
      /\ UNCHANGED <<dataMapping, dataMap, buttonData>>

MappingsLoaded ==
  /\ phase = "mappings"
  /\ phase' = "buttons" /\ lines' = 0
  /\ UNCHANGED <<dataMapping, dataMap, buttonData>>

LoadButton(line) ==
  LET s == Significant(line)
  IN  /\ NextLine("buttons") /\ s # <<>> /\ ButtonOK(s)
      /\ buttonData' = Append(buttonData, Button(s))
      /\ UNCHANGED <<phase, dataMapping, dataMap>>

\* The entry an ignored line has begun is overwritten by the next.
IgnoreButton(line) ==
  LET s == Significant(line)
  IN  /\ NextLine("buttons") /\ (s = <<>> \/ ~ButtonOK(s))
      /\ UNCHANGED <<phase, dataMapping, dataMap, buttonData>>

ButtonsLoaded ==
  /\ phase = "buttons"
  /\ phase' = "loaded"
  /\ UNCHANGED <<lines, dataMapping, dataMap, buttonData>>

Next ==
  \/ \E line \in MappingLine :
       SkipLine(line) \/ LoadMapping(line) \/ Refuse(line)
  \/ MappingsLoaded
  \/ \E line \in ButtonLine : LoadButton(line) \/ IgnoreButton(line)
  \/ ButtonsLoaded

Spec == Init /\ [][Next]_vars

-----------------------------------------------------------------------------
(***************************************************************************)
(* Properties.                                                             *)
(***************************************************************************)
Loaded == 1 .. Len(dataMapping)

\* The name a Teensy registers finds the mapping of this name, and every
\* mapping can be found: dataMap and dataMapping agree, also when the file
\* ends with a data reference it had before (dataRefNum).
NamesFindMappings ==
  /\ \A i \in Loaded : DataRefNum(dataMapping[i].dataRef) = i
  /\ \A e \in dataMap : e[2] \in Loaded

\* A mapping that is read from the simulator has no test value, which
\* dataRefRead would prefer, and all variables requested from the simulator
\* have units (what SimHub assumes of the mappings; loadDataMappings).
ReadOrTest ==
  \A i \in Loaded : dataMapping[i].readVar # <<>> =>
    /\ dataMapping[i].testValue = NoValue
    /\ dataMapping[i].readVarUnits # <<>> /\ dataMapping[i].writeVarUnits # <<>>

\* A mapping as a line of the file, with everything said that may be left
\* out.
AsLine(m) ==
  m.dataRef \o <<";">>
  \o (IF m.testValue # NoValue THEN <<m.testValue>> \o m.testAdjust
      ELSE IF m.readVar = <<>> /\ m.readVarUnits = <<>> THEN <<>>
      ELSE m.readVar \o <<",">> \o m.readVarUnits)
  \o (IF m.writeVar = <<>> /\ m.writeVarUnits = <<>> THEN <<>>
      ELSE <<";">> \o m.writeVar \o <<",">> \o m.writeVarUnits)

\* What can be in the fields of a mapping: the name and the units are
\* trimmed; a variable ends before the first comma and begins with no blank,
\* but keeps one before the comma; the units keep any later comma.
FieldsCut(m) ==
  /\ \A text \in {m.dataRef, m.readVarUnits, m.writeVarUnits} :
       StrTrunc(text) = text /\ ~Has(text, ";") /\ ~Has(text, "#")
  /\ \A var \in {m.readVar, m.writeVar} :
       /\ ~Has(var, ",") /\ ~Has(var, ";") /\ ~Has(var, "#")
       /\ var # <<>> => Head(var) # " "

LoadsSame(m) ==
  LET s == Significant(AsLine(m))
  IN  LineOK(s) /\ Parse(s) = m

\* However a line was put, its fields are cut as above, and written out in
\* full, with the defaults that were copied, it is a line that the loader
\* takes for the same mapping: nothing it cut off or copied moved from one
\* field to another (loadDataMappings).
LoadsAsWritten ==
  \A i \in Loaded : FieldsCut(dataMapping[i]) /\ LoadsSame(dataMapping[i])

\* A button of the Pi has a pin and moves a mapping that is in the table, so
\* gpioGetState and dataRefWrite get valid indexes every frame: lines that
\* are refused half way leave nothing behind (loadButtons).
ButtonsUsable ==
  \A b \in ToSet(buttonData) :
    b.gpioPin = Pins[b.button] /\ b.refNum \in Loaded
=============================================================================
