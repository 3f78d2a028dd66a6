--------------------------------- MODULE Kbd ---------------------------------
(***************************************************************************)
(* The keyboard of src/kernel/kbd.c: the interrupt handler that decodes a  *)
(* scan code into the ring of characters, and kbd0_read that takes them    *)
(* out.  Each takes g_kbd_lock with interrupts off and is one step.  The   *)
(* echo to the serial port is left out.                                    *)
(***************************************************************************)
EXTENDS Integers, Sequences

CONSTANTS
  KbdSize,  \* KBD_BUF_SIZE
  ScanCode, \* scan codes of set 1
  KeyMap,   \* KeyMap[sc]: the character, or "none" for a break code or an unmapped key
  MaxRead   \* bound: bytes of one read

ASSUME KbdAssumption ==
  KbdSize \in Nat \ {0} /\ MaxRead \in Nat /\ DOMAIN KeyMap = ScanCode

VARIABLES
  g_kbd_buf, g_kbd_head, g_kbd_tail, g_kbd_count,
  typed,   \* history: the characters typed and not read, without the ones there was no room for
  got,     \* history: what the last read returned
  due_got  \* history: and what it should have returned

kbdVars == <<g_kbd_buf, g_kbd_head, g_kbd_tail, g_kbd_count, typed, got, due_got>>

KbdInit ==
  /\ g_kbd_buf = [i \in 0 .. KbdSize - 1 |-> "none"]
  /\ g_kbd_head = 0 /\ g_kbd_tail = 0 /\ g_kbd_count = 0
  /\ typed = <<>> /\ got = <<>> /\ due_got = <<>>

RoomUnchecked == TRUE
Room == g_kbd_count < KbdSize

\* Only a make code that is mapped is stored, and only if there is room.
handler_kbd(sc) ==
  /\ IF KeyMap[sc] # "none" /\ Room
     THEN /\ g_kbd_buf' = [g_kbd_buf EXCEPT ![g_kbd_tail] = KeyMap[sc]]
          /\ g_kbd_tail' = (g_kbd_tail + 1) % KbdSize
          /\ g_kbd_count' = g_kbd_count + 1
     ELSE UNCHANGED <<g_kbd_buf, g_kbd_tail, g_kbd_count>>
  /\ typed' = IF KeyMap[sc] # "none" /\ Len(typed) < KbdSize
              THEN Append(typed, KeyMap[sc]) ELSE typed
  /\ UNCHANGED <<g_kbd_head, got, due_got>>

\* With an empty ring it returns AGAIN.
kbd0_read(n) ==
  LET m == IF n < g_kbd_count THEN n ELSE g_kbd_count
  IN  /\ n # 0
      /\ got' = [i \in 1 .. m |-> g_kbd_buf[(g_kbd_head + i - 1) % KbdSize]]
      /\ g_kbd_head' = (g_kbd_head + m) % KbdSize
      /\ g_kbd_count' = g_kbd_count - m
      /\ due_got' = SubSeq(typed, 1, IF n < Len(typed) THEN n ELSE Len(typed))
      /\ typed' = SubSeq(typed, Len(due_got') + 1, Len(typed))
      /\ UNCHANGED <<g_kbd_buf, g_kbd_tail>>

KbdNext ==
  \/ \E sc \in ScanCode : handler_kbd(sc)
  \/ \E n \in 1 .. MaxRead : kbd0_read(n)

-----------------------------------------------------------------------------
(* Properties.                                                             *)

\* The ring is a queue: a reader gets every key in the order they were typed, once,
\* except the keys typed while it was full; those are lost and overwrite nothing.
KeysExact ==
  /\ got = due_got
  /\ typed = [i \in 1 .. g_kbd_count |-> g_kbd_buf[(g_kbd_head + i - 1) % KbdSize]]

=============================================================================
