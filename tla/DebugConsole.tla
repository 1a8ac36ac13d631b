----------------------------- MODULE DebugConsole -----------------------------
(***************************************************************************)
(* The debugger output of IOS (ARM_intr_hook of cpu_starlet.c): an SWI       *)
(* whose R0 is 4 hands over a string, and what was handed over is gathered   *)
(* in debug_out_buffer until it ends in a newline.                          *)
(*                                                                          *)
(* The snprintf that gathers has its target among its sources, which C      *)
(* leaves undefined.  A C library either copies the old text onto itself or *)
(* has already ended the target when it reads it; a build does one or the   *)
(* other, as keepsPrefix says.                                              *)
(*                                                                          *)
(* The text is what the guest sees at the address in R1.  The code reads it *)
(* from the host buffer that MEM_EmuToHost names for the address, whatever  *)
(* is mapped there, and from Unicorn where that names none.                 *)
(***************************************************************************)
EXTENDS Integers, Sequences, MemoryMap

CONSTANTS
  DEBUG_SIZE,      \* 0x1000, sizeof debug_out_buffer
  FETCH_SIZE,      \* 0x80, sizeof unicorn_fetched_string
  PAGE,            \* 0x1000, the bytes of a page of MemoryGeometry
  Char,            \* the characters of a string, the newline among them
  EndOfLine,
  Behind,          \* what may lie behind the fetched bytes
  Strings,         \* the strings the guest hands over
  Origins          \* the addresses they start at

ASSUME ConsoleAssumption ==
  /\ DEBUG_SIZE \in Nat \ {0, 1}
  /\ FETCH_SIZE \in Nat \ {0}
  /\ PAGE \in Nat \ {0}
  /\ EndOfLine \in Char /\ Behind \in Char
  /\ Strings \subseteq Seq(Char)
  /\ Origins \subseteq [page : Nat, offset : 0..(PAGE - 1)]

VARIABLES
  debug_out_buffer,
  debugOut,            \* the console's text on stdout
  keepsPrefix,
  ended, pending,      \* the text handed over: up to its last newline that
                       \* ended a string, and the rest
  whole                \* the text so far is of the kind the code has room for

console == <<debug_out_buffer, debugOut, keepsPrefix, ended, pending, whole>>

ConsoleInit ==
  /\ debug_out_buffer = <<>>
  /\ debugOut = <<>>
  /\ keepsPrefix \in BOOLEAN
  /\ ended = <<>> /\ pending = <<>>
  /\ whole = TRUE

-----------------------------------------------------------------------------
FirstChars(string, n) == SubSeq(string, 1, IF Len(string) < n THEN Len(string) ELSE n)

EndsLine(string) == string # <<>> /\ string[Len(string)] = EndOfLine

(* The pages under the n bytes from an address on.                          *)
PagesOf(at, n) == at.page .. (at.page + (at.offset + n - 1) \div PAGE)

(* What the CPU sees at a page: outside the windows MEM1 and MEM2, which    *)
(* ARM_Main maps for the whole run.  No string starts among the registers.  *)
CpuSees(page) == IF page \in Pages THEN mem[page] ELSE MEM_EmuToHost(page)

Visible(pages) == \A p \in pages : CpuSees(p) # Unmapped

(* Every byte of the string and its zero is in the host buffer where the    *)
(* translation of its first byte leads.                                     *)
SameBytes(string, at) ==
  \A p \in PagesOf(at, Len(string) + 1) :
    CpuSees(p) = Advance(MEM_EmuToHost(at.page), p - at.page)

(* uc_mem_read: the whole array is filled or nothing is, and then the zeros *)
(* it began with are left.  Bytes that leave no room for a zero are read on *)
(* into what is behind them.                                                *)
Fetched(string, at) ==
  IF ~Visible(PagesOf(at, FETCH_SIZE)) THEN {<<>>}
  ELSE IF Len(string) < FETCH_SIZE THEN {string}
  ELSE {FirstChars(string, FETCH_SIZE), Append(FirstChars(string, FETCH_SIZE), Behind)}

(* The string the code works with.  Where the host buffer holds other bytes *)
(* than the CPU sees, it may be any.                                        *)
Received(string, at) ==
  IF MEM_EmuToHost(at.page) = Unmapped THEN Fetched(string, at)
  ELSE IF SameBytes(string, at) THEN {string}
  ELSE Strings

(* Slip: a string that does not fit starts the buffer over.                 *)
GatheredAnew(string) ==
  FirstChars((IF keepsPrefix /\ Len(debug_out_buffer \o string) < DEBUG_SIZE
              THEN debug_out_buffer ELSE <<>>) \o string, DEBUG_SIZE - 1)

(* snprintf of the buffer and the string into the buffer.                   *)
Gathered(string) ==
  FirstChars((IF keepsPrefix THEN debug_out_buffer ELSE <<>>) \o string, DEBUG_SIZE - 1)

(* The newline is taken off and printf puts it back.                        *)
Show(text) ==
  /\ debug_out_buffer' = <<>>
  /\ debugOut' = debugOut \o text

(* Of an empty text the last character is the byte before the buffer.  When *)
(* that is a newline, a blank line is printed.                              *)
ShowNothing ==
  /\ debug_out_buffer' = <<>>
  /\ \/ UNCHANGED debugOut
     \/ debugOut' = Append(debugOut, EndOfLine)

Gather(text) ==
  \/ EndsLine(text) /\ Show(text)
  \/ text = <<>> /\ ShowNothing
  \/ /\ text # <<>> /\ ~EndsLine(text)
     /\ debug_out_buffer' = text
     /\ UNCHANGED debugOut

(* Where the code reads what the guest sees: in main memory, in SRAM while  *)
(* iouen is off, and in the fffe and ffff windows when all bytes that are   *)
(* fetched lie in them and the string and its zero are among these.         *)
Readable(string, at) ==
  LET pages == PagesOf(at, Len(string) + 1) IN
  \/ pages \subseteq Span(MEM1_BASE, MEM1_SIZE)
  \/ pages \subseteq Span(MEM2_BASE, MEM2_SIZE)
  \/ /\ MEM_ARM_SRAMState \in {0, 2}
     /\ pages \subseteq SramWindow \/ pages \subseteq MirrorWindow
  \/ /\ PagesOf(at, FETCH_SIZE) \subseteq Weird1Window \cup Weird2Window
     /\ Len(string) < FETCH_SIZE

(* The text as it was handed over, and whether there is room for it: the    *)
(* text since the last newline fits the buffer, the string lies where it    *)
(* can be read, a library that loses the old text is given none, and an     *)
(* empty string comes only with text before it.                             *)
RoomFor(string, at) ==
  /\ Len(pending \o string) < DEBUG_SIZE
  /\ Readable(string, at)
  /\ keepsPrefix \/ pending = <<>>
  /\ pending \o string # <<>>

(* What was handed over is forgotten once there was no room for some of it. *)
RecordString(string, at) ==
  /\ whole' = (whole /\ RoomFor(string, at))
  /\ \/ /\ whole' /\ EndsLine(pending \o string)
        /\ ended' = ended \o (pending \o string)
        /\ pending' = <<>>
     \/ /\ whole' /\ ~EndsLine(pending \o string)
        /\ pending' = pending \o string
        /\ UNCHANGED ended
     \/ /\ ~whole'
        /\ ended' = <<>> /\ pending' = <<>>

Said == Len(debugOut) + Len(debug_out_buffer)

(* The whole call.  Nothing is said by a pointer to what is not mapped.     *)
DebugOutput(string, at) ==
  /\ string # <<>> => Visible(PagesOf(at, Len(string) + 1))
  /\ \E received \in Received(string, at) : Gather(Gathered(received))
  /\ RecordString(string, at)
  /\ UNCHANGED <<keepsPrefix, memVars>>

-----------------------------------------------------------------------------
(* The types.  The buffer always has room for its zero, and what waits in   *)
(* it does not end a line.                                                  *)
ConsoleTypeOK ==
  /\ debug_out_buffer \in Seq(Char)
  /\ Len(debug_out_buffer) <= DEBUG_SIZE - 1
  /\ ~EndsLine(debug_out_buffer)
  /\ debugOut \in Seq(Char)
  /\ ended \in Seq(Char) /\ pending \in Seq(Char)
  /\ keepsPrefix \in BOOLEAN /\ whole \in BOOLEAN

(* Text the code has room for comes out character by character as it was    *)
(* handed over, in however many pieces, from any place the code can read,   *)
(* under every layout of SRAM and with remappings between the pieces, with  *)
(* newlines inside a piece, and with lines of any number; what has not      *)
(* ended in a newline waits in the buffer.                                  *)
DebugTextPrinted ==
  whole => debugOut = ended /\ debug_out_buffer = pending

(* A buffer that is full without a newline at its end stays so: the newline *)
(* that would print it is cut off, and the console says nothing any more.   *)
(* This is for a library that keeps the old text.                           *)
JamIsForever ==
  [][keepsPrefix /\ Len(debug_out_buffer) = DEBUG_SIZE - 1
       => UNCHANGED <<debug_out_buffer, debugOut>>]_console

=============================================================================
