------------------------------ MODULE Keyboard ------------------------------
(***************************************************************************)
(* The keyboard driver (src/kernel/keyboard.c): the handler of IRQ 1 puts  *)
(* scan codes into a buffer, and a task takes the last one out with        *)
(* keyboard_has_key and keyboard_get_last_key.                             *)
(*                                                                         *)
(* Both run on the boot processor with interrupts on: the handler may come *)
(* in between any two accesses the task makes, and runs to its end before  *)
(* the task goes on.  Each access of the task to what they share is one    *)
(* step, and so is each turn of the handler's loop.  Interrupts shows when *)
(* a handler runs; here IRQ 1 is taken when it is requested and its        *)
(* handler is not active.                                                  *)
(***************************************************************************)
EXTENDS Naturals, FiniteSets

CONSTANTS
  ScanCode, \* the bytes the keyboard may send
  Size,     \* KBD_BUFFER_SIZE
  MaxBytes  \* bound: how many bytes the keyboard sends

Extended == 224                       \* SCAN_CODE_EXTENDED, 0xe0
None     == 256                       \* the controller has no byte to read

ASSUME KeyboardAssumption ==
  /\ ScanCode \subseteq 1 .. 255
  /\ Size \in Nat \ {0}
  /\ MaxBytes \in Nat

\* The scan codes of the keys the handler keeps in _keyboard_state; 106 is
\* what it takes for alt.
LCtrl   == 29
LShift  == 42
Caps    == 58
LAlt    == 106
Special == {LCtrl, LShift, Caps, LAlt}

VARIABLES
  out,      \* the byte in the output buffer of the controller, or None
  irq,      \* is IRQ 1 requested?
  sent,     \* how many bytes the keyboard has sent
  active,   \* is the handler active?
  extended, \* _extended_code
  held,     \* the flags set in _keyboard_state, as pairs of the key and
            \* whether the flag is that of the right-hand key
  overrun,  \* has the handler left a byte because the buffer was full?
  buf,      \* _keyboard_buffer
  keys,     \* _keys_in_buffer
  lock,     \* the word of _keyboard_buffer_lock
  stored,   \* auxiliary: how often each code was put into the buffer
  taken,    \* auxiliary: how often each code was taken out
  torn,     \* auxiliary: how many codes were stored while the task was taking one
  pc,       \* where the task is in keyboard_get_last_key
  seen,     \* what the task has last read of _keys_in_buffer
  index,    \* the element it reads next
  sc,       \* the code it has read, 0 before
  ext,      \* its flag extended
  checked   \* has keyboard_has_key promised it a key?

deviceVars  == <<out, irq, sent>>
handlerVars == <<active, extended, held, overrun>>
bufferVars  == <<buf, keys, stored, torn>>
taskVars    == <<pc, seen, index, sc, ext, checked, taken>>
vars        == <<deviceVars, handlerVars, bufferVars, lock, taskVars>>

-----------------------------------------------------------------------------
\* Variant: a lock that keeps others out.
PassesFree(w) == w = 0

\* lock_spinlock lets the caller pass whether the word is 0 or 1: see Spinlock.
Passes(w) == w \in {0, 1}

Init ==
  /\ out = None /\ irq = FALSE /\ sent = 0
  /\ active = FALSE /\ extended = FALSE /\ held = {} /\ overrun = FALSE
  /\ buf = [i \in 0 .. Size - 1 |-> 0] /\ keys = 0 /\ lock = 0
  /\ stored = [c \in ScanCode |-> 0] /\ taken = [c \in ScanCode |-> 0]
  /\ torn = 0
  /\ pc = "idle" /\ seen = 0 /\ index = 0 /\ sc = 0 /\ ext = FALSE
  /\ checked = FALSE

\* The keyboard sends a byte when the controller has room for it, and the
\* controller raises its line.  It holds the line until the byte is read, and
\* a line that stays up requests nothing more.
Send(c) ==
  /\ out = None
  /\ sent < MaxBytes
  /\ out' = c
  /\ irq' = TRUE
  /\ sent' = sent + 1
  /\ UNCHANGED <<handlerVars, bufferVars, lock, taskVars>>

-----------------------------------------------------------------------------
(* _irq_1_handler.                                                         *)

\* Variant: the handler is entered with the buffer full.
EnterAnyway ==
  /\ irq /\ ~active
  /\ irq' = FALSE
  /\ active' = TRUE
  /\ UNCHANGED <<out, sent, extended, held, overrun, bufferVars, lock, taskVars>>

\* Variant: the handler is entered only while the buffer is empty.
EnterSilently ==
  /\ irq /\ ~active
  /\ irq' = FALSE
  /\ active' = (keys = 0)
  /\ overrun' = (overrun \/ (keys = Size /\ out # None))
  /\ UNCHANGED <<out, sent, extended, held, bufferVars, lock, taskVars>>

\* With the buffer full the handler returns at once and leaves the byte.
Enter ==
  /\ irq /\ ~active
  /\ irq' = FALSE
  /\ active' = (keys < Size)
  /\ overrun' = (overrun \/ (keys = Size /\ out # None))
  /\ UNCHANGED <<out, sent, extended, held, bufferVars, lock, taskVars>>

\* Put c at the end of the buffer, between LOCK_BUFFER and UNLOCK_BUFFER.  The
\* unlock frees the lock of an interrupted task as well.
Store(c) ==
  /\ Passes(lock)
  /\ lock' = 0
  /\ buf' = [buf EXCEPT ![keys] = c]
  /\ keys' = keys + 1
  /\ stored' = [stored EXCEPT ![c] = @ + 1]
  /\ torn' = IF pc \in {"pop", "read", "test"} THEN torn + 1 ELSE torn

\* The flag of a special key follows the key; that of caps lock changes.
Track(key, pressed) ==
  LET flag == <<key, extended /\ key # Caps>>
      set  == IF key = Caps THEN flag \notin held ELSE pressed
  IN held' = IF set THEN held \cup {flag} ELSE held \ {flag}

\* One turn of the loop: read the byte, keep track of it or store it, and
\* leave the loop if that was the last room in the buffer.
TakeByte ==
  /\ active
  /\ out # None
  /\ out' = None
  /\ \/ /\ out = Extended
        /\ Store(out)
        /\ extended' = TRUE
        /\ UNCHANGED held
     \/ /\ out # Extended /\ out % 128 \in Special
        /\ Track(out % 128, out < 128)
        /\ extended' = FALSE
        /\ UNCHANGED <<bufferVars, lock>>
     \/ /\ out # Extended /\ out % 128 \notin Special
        /\ Store(out)
        /\ extended' = FALSE
        /\ UNCHANGED held
  /\ active' = (keys' # Size)
  /\ UNCHANGED <<irq, sent, overrun, taskVars>>

Leave ==
  /\ active
  /\ out = None
  /\ active' = FALSE
  /\ UNCHANGED <<deviceVars, extended, held, overrun, bufferVars, lock, taskVars>>

-----------------------------------------------------------------------------
(* keyboard_has_key and keyboard_get_last_key.                             *)

\* The task takes a step: the handler is neither active nor due.
TaskAt(p) == pc = p /\ ~active /\ ~irq

\* Variant: an empty buffer counts too.
HasAny == keys >= 0

\* keyboard_has_key.
HasKey == keys > 0

Check ==
  /\ TaskAt("idle") /\ ~checked
  /\ HasKey
  /\ checked' = TRUE
  /\ UNCHANGED <<deviceVars, handlerVars, bufferVars, lock, pc, seen, index, sc, ext, taken>>

Lock ==
  /\ TaskAt("idle")
  /\ Passes(lock)
  /\ lock' = 1
  /\ pc' = "load"
  /\ sc' = 0
  /\ ext' = FALSE
  /\ UNCHANGED <<deviceVars, handlerVars, bufferVars, seen, index, checked, taken>>

Load ==
  /\ TaskAt("load")
  /\ seen' = keys
  /\ pc' = IF keys > 0 THEN "pop" ELSE "unlock"
  /\ UNCHANGED <<deviceVars, handlerVars, bufferVars, lock, index, sc, ext, checked, taken>>

\* --_keys_in_buffer, on the value in memory or on the one read before: the
\* variable is not volatile and the compiler may do either.
Pop ==
  /\ TaskAt("pop")
  /\ \E v \in {seen, keys} : keys' = v - 1 /\ index' = v - 1
  /\ pc' = "read"
  /\ UNCHANGED <<deviceVars, handlerVars, buf, stored, torn, lock, seen, sc, ext, checked, taken>>

\* Variant: the element one above is read.
ReadAbove == buf[(index + 1) % Size]

Element == buf[index]

Read ==
  /\ TaskAt("read")
  /\ sc' = Element
  /\ taken' = [taken EXCEPT ![Element] = @ + 1]
  /\ pc' = IF Element = Extended /\ ~ext THEN "test" ELSE "unlock"
  /\ UNCHANGED <<deviceVars, handlerVars, bufferVars, lock, seen, index, ext, checked>>

\* After an extended prefix another element is taken, if there is one.
Test ==
  /\ TaskAt("test")
  /\ \E v \in {index, keys} :
        /\ seen' = v
        /\ ext' = (v > 0)
        /\ pc' = IF v > 0 THEN "pop" ELSE "unlock"
  /\ UNCHANGED <<deviceVars, handlerVars, bufferVars, lock, index, sc, checked, taken>>

\* What remains is to look sc up and return.
Unlock ==
  /\ TaskAt("unlock")
  /\ lock' = 0
  /\ pc' = "idle"
  /\ checked' = FALSE
  /\ UNCHANGED <<deviceVars, handlerVars, bufferVars, seen, index, sc, ext, taken>>

Next ==
  \/ \E c \in ScanCode : Send(c)
  \/ Enter \/ TakeByte \/ Leave
  \/ Check \/ Lock \/ Load \/ Pop \/ Read \/ Test \/ Unlock

\* The processor takes the interrupt and runs; a call that has begun goes on.
Fairness ==
  /\ WF_vars(Enter \/ TakeByte \/ Leave)
  /\ WF_vars(Load \/ Pop \/ Read \/ Test \/ Unlock)

Spec == Init /\ [][Next]_vars /\ Fairness

-----------------------------------------------------------------------------
(* Properties.                                                             *)

\* Every variable stays of its type: however the handler and the task
\* interleave, _keys_in_buffer never leaves 0 .. KBD_BUFFER_SIZE and every
\* access is to an element of the buffer.
TypeOK ==
  /\ out \in ScanCode \cup {None}
  /\ irq \in BOOLEAN /\ sent \in 0 .. MaxBytes
  /\ active \in BOOLEAN /\ extended \in BOOLEAN /\ overrun \in BOOLEAN
  /\ active => keys < Size
  /\ held \subseteq Special \X BOOLEAN
  /\ buf \in [0 .. Size - 1 -> ScanCode \cup {0}]
  /\ keys \in 0 .. Size
  /\ lock \in {0, 1}
  /\ stored \in [ScanCode -> Nat] /\ taken \in [ScanCode -> Nat]
  /\ torn \in Nat
  /\ pc \in {"idle", "load", "pop", "read", "test", "unlock"}
  /\ seen \in 0 .. Size
  /\ pc = "pop" => seen > 0 /\ keys > 0
  /\ index \in 0 .. Size - 1
  /\ sc \in ScanCode \cup {0}
  /\ ext \in BOOLEAN /\ checked \in BOOLEAN

\* How often the code c is in the buffer.
Waiting(c) == Cardinality({i \in 0 .. keys - 1 : buf[i] = c})

\* Is the task about to read the code c?
InHand(c) == IF pc = "read" /\ buf[index] = c THEN 1 ELSE 0

\* Every code put into the buffer is taken out once, is there, or is being
\* taken, but for the race of the handler with keyboard_get_last_key: each code
\* stored between two accesses of a call may lose one code, and may let one be
\* taken that stays in the buffer, and does no more harm than that.
KeysConserved ==
  \A c \in ScanCode :
    /\ stored[c] <= taken[c] + Waiting(c) + InHand(c) + torn
    /\ taken[c] + Waiting(c) + InHand(c) <= stored[c] + torn

\* A task that has seen keyboard_has_key return true gets a key, although the
\* handler may run in between.
CheckedKeyIsThere == checked /\ pc \in {"idle", "load"} => keys > 0

\* A byte from the keyboard is read, unless the handler has once found the
\* buffer full: then the controller keeps the byte and the line, and asks no
\* more.
BytesAreRead == out # None ~> (out = None \/ overrun)

\* A call of keyboard_get_last_key returns, although the handler takes the
\* same lock as the task it interrupts.
CallsReturn == pc # "idle" ~> pc = "idle"

=============================================================================
