------------------------- MODULE KeyboardShortcuts -------------------------
(***************************************************************************)
(* The keyboard of the web application (apps/web/src/lib/keyboard/         *)
(* listener.tsx, registry.ts and use-global-shortcuts.ts,                  *)
(* components/command-palette.tsx and keyboard-root.tsx, lib/store/ui.ts): *)
(* keys are gathered into sequences such as "g d" that must be typed       *)
(* without a pause, and the palette lists the same shortcuts as commands.  *)
(*                                                                         *)
(* What is abstracted.  Of the shortcuts there is one of each sort: one    *)
(* with a modifier, a sequence, a sequence that repeats a key, and the one *)
(* that is for the pages of a document only.  The search in the palette is *)
(* SearchPage's.  Time is counted in steps shorter than the pause.         *)
(***************************************************************************)
EXTENDS Naturals, Sequences, FiniteSets

CONSTANTS
    ChordTimeout,   \* the pause that ends a sequence, in steps of time
    MaxPresses,     \* bound: keys
    MaxClock,       \* bound: time
    MaxTravels      \* bound: pages visited, and times the listener is mounted

ASSUME KeyboardAssumption ==
    ChordTimeout \in Nat \ {0} /\ {MaxPresses, MaxClock, MaxTravels} \subseteq Nat

\* use-global-shortcuts.ts, in the order they are registered.
Shortcuts == <<[id |-> "command-palette", keys |-> <<"$mod+k">>],
               [id |-> "go-home", keys |-> <<"g", "d">>],
               [id |-> "go-graph", keys |-> <<"g", "g">>],
               [id |-> "go-history", keys |-> <<"g", "h">>]>>
Keys0 == {"$mod+k", "g", "d", "h", "x"}
NoCommand == "none"
Ids == {Shortcuts[n].id : n \in 1..Len(Shortcuts)}

VARIABLES
    board,      \* the listener: mounted, its buffer, and the timer it knows of
    timers,     \* the timers that are set
    time,
    place,       \* where the user is: on a page of a document, or elsewhere
    palette,    \* open or not, the commands it offers, and the one that waits for a frame
    visited,    \* history: where the user was when the history was last gone to
    strokes,    \* history: the keys of the sequence that is being typed
    struck,     \* history: when the last of them was heard
    presses, travels

keyVars ==
    <<board, timers, time, place, palette, visited, strokes, struck, presses, travels>>

KeysTypeOK ==
    /\ board.buffer \in Seq(Keys0) /\ Len(board.buffer) < 2
    /\ board.timer # 0 => board.mounted
    /\ \A t \in timers : t.due <= time + ChordTimeout
    /\ Cardinality(timers) <= 1 /\ (board.timer # 0 => \E t \in timers : t.id = board.timer)
    /\ palette.offered \subseteq Ids /\ palette.waiting \in Ids \cup {NoCommand}

\* When a shortcut is active: the history is a document's.
When(id) == id = "go-history" => place = "spec"

\* commandItems, worked out when the shortcuts are registered, and not again.
Offered == {id \in Ids \ {"command-palette"} : When(id)}

KeyInit ==
    /\ place \in {"spec", "elsewhere"}
    /\ board = [mounted |-> TRUE, buffer |-> <<>>, timer |-> 0, next |-> 1]
    /\ timers = {} /\ time = 0 /\ visited = NoCommand /\ strokes = <<>> /\ struck = 0
    /\ palette = [open |-> FALSE, waiting |-> NoCommand, offered |-> Offered]
    /\ presses = 0 /\ travels = 0

-----------------------------------------------------------------------------
\* Fault: the timer is forgotten, and goes on.
ResetQuietly ==
    /\ board' = [board EXCEPT !.buffer = <<>>, !.timer = 0] /\ UNCHANGED timers

\* reset
ResetBuffer ==
    /\ board' = [board EXCEPT !.buffer = <<>>, !.timer = 0]
    /\ timers' = {t \in timers : t.id # board.timer}

\* The handlers: they go to a place, the history's only from a document.
Handle(id) ==
    /\ place' = IF id \in {"go-home", "go-graph"} THEN "elsewhere" ELSE place
    /\ visited' = IF id = "go-history" /\ place = "spec" THEN place ELSE visited

\* onKeyDown.  In a field only keys with a modifier are heard.  The first shortcut whose
\* binding is all that was typed, or this key, runs; a beginning of one waits for more.
Press(c, editable) ==
    /\ presses < MaxPresses /\ presses' = presses + 1 /\ board.mounted
    /\ palette.open => editable
    /\ UNCHANGED <<time, travels>>
    /\ IF editable /\ c # "$mod+k"
       THEN UNCHANGED <<board, timers, place, palette, visited, strokes, struck>>
       ELSE LET sequence == Append(board.buffer, c)
                typed == Append(IF time - struck >= ChordTimeout /\ board.buffer = <<>>
                                THEN <<>> ELSE strokes, c)
                bound == {n \in 1..Len(Shortcuts) : When(Shortcuts[n].id) /\
                                Shortcuts[n].keys \in {sequence, <<c>>}}
                begins == \E n \in 1..Len(Shortcuts) :
                                /\ Len(Shortcuts[n].keys) > Len(sequence)
                                /\ SubSeq(Shortcuts[n].keys, 1, Len(sequence)) = sequence
            IN /\ struck' = time
               /\ IF bound # {}
                  THEN LET id == Shortcuts[CHOOSE n \in bound : \A m \in bound : n <= m].id IN
                       /\ Handle(id) /\ ResetBuffer /\ strokes' = <<>>
                       /\ palette' = IF id = "command-palette"
                                     THEN [palette EXCEPT !.open = ~palette.open] ELSE palette
                  ELSE /\ UNCHANGED <<place, visited, palette>>
                       /\ IF begins
                          THEN /\ strokes' = typed
                               /\ board' = [board EXCEPT !.buffer = sequence,
                                                         !.timer = board.next, !.next = @ + 1]
                               /\ timers' = {t \in timers : t.id # board.timer} \cup
                                            {[id |-> board.next, due |-> time + ChordTimeout]}
                          ELSE ResetBuffer /\ strokes' = <<>>

\* The timer runs out, on time or late, for the page may be busy.
TimerFires(t) ==
    /\ t \in timers /\ t.due <= time
    /\ board' = [board EXCEPT !.buffer = <<>>, !.timer = 0]
    /\ timers' = timers \ ({t} \cup {u \in timers : u.id = board.timer})
    /\ UNCHANGED <<time, place, palette, visited, strokes, struck, presses, travels>>

Tick0 ==
    /\ time < MaxClock /\ time' = time + 1
    /\ UNCHANGED <<board, timers, place, palette, visited, strokes, struck, presses, travels>>

-----------------------------------------------------------------------------
\* The user goes to another page of the application, by a link.
Travel ==
    /\ travels < MaxTravels /\ travels' = travels + 1
    /\ place' = IF place = "spec" THEN "elsewhere" ELSE "spec"
    /\ UNCHANGED <<board, timers, time, palette, visited, strokes, struck, presses>>

\* The application is left, and with it the listener and the shortcuts.
Unmount ==
    /\ board.mounted /\ palette.waiting = NoCommand
    /\ board' = [board EXCEPT !.mounted = FALSE, !.buffer = <<>>, !.timer = 0]
    /\ timers' = {t \in timers : t.id # board.timer} /\ strokes' = <<>>
    /\ palette' = [palette EXCEPT !.offered = {}]
    /\ UNCHANGED <<time, place, visited, struck, presses, travels>>

\* It is entered again: the shortcuts are registered, and the palette looks at them.
Mount ==
    /\ ~board.mounted /\ travels < MaxTravels /\ travels' = travels + 1
    /\ board' = [board EXCEPT !.mounted = TRUE]
    /\ place' \in {"spec", "elsewhere"}
    /\ palette' = [palette EXCEPT !.offered = Offered']
    /\ UNCHANGED <<timers, time, visited, strokes, struck, presses>>

\* runCommand: the palette closes, and the command runs in the next frame.
RunCommand(id) ==
    /\ palette.open /\ board.mounted /\ id \in palette.offered /\ palette.waiting = NoCommand
    /\ palette' = [palette EXCEPT !.open = FALSE, !.waiting = id]
    /\ UNCHANGED <<board, timers, time, place, visited, strokes, struck, presses, travels>>

Frame ==
    /\ palette.waiting # NoCommand /\ Handle(palette.waiting)
    /\ palette' = [palette EXCEPT !.waiting = NoCommand]
    /\ UNCHANGED <<board, timers, time, strokes, struck, presses, travels>>

KeyNext ==
    \/ Tick0 \/ Travel \/ Unmount \/ Mount \/ Frame
    \/ \E c \in Keys0, editable \in BOOLEAN : Press(c, editable)
    \/ \E t \in timers : TimerFires(t)
    \/ \E id \in Ids : RunCommand(id)

KeySpec == KeyInit /\ [][KeyNext]_keyVars

-----------------------------------------------------------------------------
\* What was typed of a sequence is not lost before the pause is over, whatever timers were
\* set for sequences before it, and what is in the buffer was typed one after the other.
NoKeyIsLost ==
    /\ board.buffer \in {<<>>, strokes}
    /\ strokes # <<>> /\ time - struck < ChordTimeout => board.buffer = strokes

\* Commands that the palette offers long after their place was left do nothing: the history
\* is gone to from a document only.
StaleCommandsRest == visited # "elsewhere"

\* Chords and the palette, over pages that come and go.
KeysReachTheirCommand ==
    /\ KeysTypeOK
    /\ NoKeyIsLost
    /\ StaleCommandsRest
=============================================================================
