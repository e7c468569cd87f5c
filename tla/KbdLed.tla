------------------------------- MODULE KbdLed -------------------------------
(***************************************************************************)
(* module5/lab3: a kernel module that sets the keyboard's LEDs to what is   *)
(* written to /sys/kernel/kbd_leds/state, shows the last value there, and   *)
(* gives the LEDs back when it is removed.  sysfs lets several processes    *)
(* store at the same time, each through a file of its own, and waits for    *)
(* them when the file is removed.  set_leds looks anew at every call which  *)
(* console is in the foreground, and sends the value to its terminal if it  *)
(* has one; every console has a mode of its LEDs of its own.               *)
(***************************************************************************)
EXTENDS Integers, FiniteSets

CONSTANTS
  Consoles,
  Writers,
  Inputs     \* what is written, as kstrtoint reads it; NotANumber if it cannot

VARIABLES
  state,     \* of the module: out, live, restored, gone
  test,      \* the value that is shown
  leds,      \* of each console: the value its LEDs were set to last
  fg_console,   \* the console in the foreground
  tty,       \* the consoles that have a terminal
  store,     \* of each writer: the value in state_store, or None
  raced,     \* history: the last store began while another one was under way
  crossed,   \* history: a store was under way when the LEDs were given back, or began later
  aimed,     \* history: the console that set_leds set last; empty without a terminal
  lent       \* history: the consoles whose LEDs were set by stores

system == <<fg_console, tty>>
history == <<raced, crossed, aimed, lent>>
vars == <<state, test, leds, system, store, history>>

NotANumber == -100
None == -200
RESTORE_LEDS == 255
LED_MASK_MIN == 0
LED_MASK_MAX == 7

Init ==
  /\ state = "out" /\ test = 0 /\ leds = [c \in Consoles |-> RESTORE_LEDS]
  /\ fg_console \in Consoles /\ tty \in SUBSET Consoles
  /\ store = [w \in Writers |-> None]
  /\ raced = FALSE /\ crossed = FALSE /\ aimed = {} /\ lent = {}

Storing == {w \in Writers : store[w] # None}

\* Another console comes to the foreground.
Switch(c) ==
  /\ fg_console' = c
  /\ UNCHANGED <<state, test, leds, tty, store, history>>

\* The terminal of a console is opened, or closed by its last user.
Terminal(c) ==
  /\ tty' = IF c \in tty THEN tty \ {c} ELSE tty \cup {c}
  /\ UNCHANGED <<state, test, leds, fg_console, store, history>>

\* The console in the foreground, if it has a terminal.
Found == tty \cap {fg_console}

\* Without a terminal, or if kobject or file cannot be made, the module is not loaded.
SysInit ==
  /\ state = "out" /\ Found # {}
  /\ state' \in {"live", "gone"}
  /\ UNCHANGED <<test, leds, system, store, history>>

\* The other consoles keep what they have.
SetLeds(value) ==
  /\ leds' = [c \in Consoles |-> IF c \in Found THEN value ELSE leds[c]]
  /\ aimed' = Found

Accepted(v) ==
  v # NotANumber /\ (v \in LED_MASK_MIN .. LED_MASK_MAX \/ v = RESTORE_LEDS)

\* The value is stored; what is refused with EINVAL changes nothing.
StateStore(w, v) ==
  /\ state \in {"live", "restored"} /\ store[w] = None
  /\ Accepted(v)
  /\ test' = v
  /\ store' = [store EXCEPT ![w] = v]
  /\ raced' = (Storing # {})
  /\ crossed' = (crossed \/ state = "restored")
  /\ UNCHANGED <<state, leds, system, aimed, lent>>

\* set_leds(test): the compiler has kept the value in a register.
StoreLeds(w) ==
  /\ store[w] # None
  /\ SetLeds(store[w])
  /\ lent' = lent \cup Found
  /\ store' = [store EXCEPT ![w] = None]
  /\ UNCHANGED <<state, test, system, raced, crossed>>

\* (Seeded fault: the module does not give the LEDs back.)
SysExitKeeps ==
  /\ state = "live"
  /\ state' = "restored"
  /\ aimed' = Found
  /\ crossed' = (Storing # {})
  /\ UNCHANGED <<test, leds, system, store, raced, lent>>

\* The LEDs are given back first, the file is removed afterwards.
SysExit ==
  /\ state = "live"
  /\ state' = "restored"
  /\ SetLeds(RESTORE_LEDS)
  /\ crossed' = (Storing # {})
  /\ UNCHANGED <<test, system, store, raced, lent>>

KobjectPut ==
  /\ state = "restored" /\ Storing = {}
  /\ state' = "gone"
  /\ UNCHANGED <<test, leds, system, store, history>>

Next ==
  \/ \E c \in Consoles : Switch(c) \/ Terminal(c)
  \/ SysInit \/ SysExit \/ KobjectPut
  \/ \E w \in Writers : (\E v \in Inputs : StateStore(w, v)) \/ StoreLeds(w)

Spec == Init /\ [][Next]_vars

-----------------------------------------------------------------------------
(* Properties.                                                             *)

Values == LED_MASK_MIN .. LED_MASK_MAX \cup {RESTORE_LEDS}

\* Every variable keeps its type; only valid masks are shown.
TypeOK ==
  /\ state \in {"out", "live", "restored", "gone"} /\ test \in Values
  /\ leds \in [Consoles -> Values]
  /\ fg_console \in Consoles /\ tty \subseteq Consoles
  /\ store \in [Writers -> Values \cup {None}]
  /\ raced \in BOOLEAN /\ crossed \in BOOLEAN
  /\ aimed \subseteq Consoles /\ lent \subseteq Consoles

\* What state shows is what is lit on the console that was in the foreground when the
\* LEDs were set last, as soon as no store is under way, unless two stores overlapped
\* (test and the LEDs are set in two steps, kbd_led_sysfs.c:63-64) or that console had
\* no terminal.  Whoever switches to another console sees what it had before.
ShownIsLit ==
  state = "live" /\ Storing = {} /\ ~raced => \A c \in aimed : leds[c] = test

\* A removed module has given the LEDs back, unless a store came between that and
\* the removal of the file (kbd_led_sysfs.c:100-101), but for the consoles that stores
\* had set and that were not in the foreground with a terminal at the removal: of
\* those set_leds (kbd_led_sysfs.c:33-39) knows nothing.
GivenBack ==
  state = "gone" /\ ~crossed =>
    \A c \in Consoles : leds[c] = RESTORE_LEDS \/ c \in lent \ aimed

=============================================================================
