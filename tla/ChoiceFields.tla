---------------------------- MODULE ChoiceFields ----------------------------
(***************************************************************************)
(* The fields that let the user choose among options: six components that  *)
(* each implement ControlValueAccessor.                                    *)
(*                                                                         *)
(*   combo    combobox-multi: stages the choice, commits it on confirm     *)
(*   multi    multi-select: changes the value at once, reverts on cancel   *)
(*   form     form-combobox: tells the form of every change                *)
(*   select, search, chunk   one option, or none                           *)
(*                                                                         *)
(* A panel opens in the next animation frame and is removed by a timer; a  *)
(* field may be closed before the frame and opened again before the timer. *)
(***************************************************************************)
EXTENDS Integers, Sequences, FiniteSets

CONSTANTS
  Options,    \* the options, in order
  Disabled,   \* those that cannot be chosen
  Numbers,    \* what can be typed into chunk-select
  MaxEvents   \* bound on what happens to the field

VARIABLES
  f,       \* the field
  told,    \* the value its form last wrote into it or was told by it
  due,     \* the frames and timers that were set and have not fired
  events,  \* how much happened so far
  drifted  \* multi: the form heard of, or wrote, a value beside the snapshot, or an
           \* option was changed without one or before a second one, and nothing
           \* was told without a snapshot since

choiceVars == <<f, told, due, events, drifted>>

All == {Options[i] : i \in DOMAIN Options}
Single == {"select", "search", "chunk"}
NotStaged == {"unstaged"}

fieldOf(kind, mobile, v) ==
  [kind |-> kind, mobile |-> mobile, value |-> v, staging |-> NotStaged, open |-> FALSE,
   shown |-> FALSE, matches |-> All, view |-> "list", number |-> "nan"]

ChoiceInit ==
  /\ \E kind \in Single \cup {"combo", "multi", "form"}, mobile \in BOOLEAN,
        v \in {{}, {Options[1]}} : f = fieldOf(kind, mobile, v)
  /\ told = f.value /\ due = [frame |-> 0, hide |-> 0] /\ events = 0
  /\ drifted = FALSE

Event(kinds) == f.kind \in kinds /\ events < MaxEvents /\ events' = events + 1

enabledOf(options) == options \ Disabled

\* value.set and onChange: the form hears what the field now holds.
Tell(g, v) ==
  /\ f' = [g EXCEPT !.value = v] /\ told' = v
  /\ drifted' = (g.kind = "multi" /\ g.staging # NotStaged)

Change(g) == f' = g /\ UNCHANGED <<told, drifted>>

----------------------------------------------------------------------------
(* combobox-multi                                                          *)

effectiveValue == IF f.staging = NotStaged THEN f.value ELSE f.staging

\* Every enabled option the query leaves is chosen, and there is one.
allSelected ==
  /\ enabledOf(f.matches) # {}
  /\ enabledOf(f.matches) \subseteq effectiveValue

shut == [f EXCEPT !.open = FALSE, !.shown = FALSE, !.matches = All, !.staging = NotStaged]

opened == [f EXCEPT !.staging = f.value, !.matches = All, !.shown = TRUE, !.open = TRUE]

open == Event({"combo"}) /\ ~f.open /\ Change(opened) /\ UNCHANGED due

\* The wrapper and the arrow: a second click cancels.
toggle ==
  /\ Event({"combo"})
  /\ Change(IF f.open THEN shut ELSE opened)
  /\ UNCHANGED due

cancel == f.open /\ Event({"combo"}) /\ Change(shut) /\ UNCHANGED due

confirmUnheard == f.open /\ Event({"combo"}) /\ Change([shut EXCEPT !.value = effectiveValue]) /\ UNCHANGED due

confirm == f.open /\ Event({"combo"}) /\ Tell(shut, effectiveValue) /\ UNCHANGED due

\* What is typed leaves some of the options.
onQueryChange(ms) ==
  f.open /\ Event({"combo", "form"}) /\ Change([f EXCEPT !.matches = ms]) /\ UNCHANGED due

flip(chosen, o) == IF o \in chosen THEN chosen \ {o} ELSE chosen \cup {o}

toggleOption(o) ==
  /\ f.open /\ o \in enabledOf(f.matches) /\ Event({"combo"})
  /\ Change([f EXCEPT !.staging = flip(effectiveValue, o)])
  /\ UNCHANGED due

toggleAll ==
  /\ f.open /\ Event({"combo"})
  /\ Change([f EXCEPT !.staging = IF allSelected THEN effectiveValue \ enabledOf(f.matches)
                                  ELSE effectiveValue \cup enabledOf(f.matches)])
  /\ UNCHANGED due

\* A chip of an open field is only unstaged; of a closed one it is gone.
removeChip(o) ==
  /\ o \in effectiveValue /\ Event({"combo"})
  /\ \/ f.open /\ Change([f EXCEPT !.staging = effectiveValue \ {o}])
     \/ ~f.open /\ Tell(f, f.value \ {o})
  /\ UNCHANGED due

----------------------------------------------------------------------------
(* multi-select: the staging of f is its snapshot                          *)

openMulti ==
  /\ ~f.open /\ Event({"multi"})
  /\ f' = [f EXCEPT !.staging = f.value, !.shown = TRUE] /\ UNCHANGED told
  /\ drifted' = (drifted \/ f.staging \notin {NotStaged, f.value})
  /\ due' = [due EXCEPT !.frame = @ + 1]

confirmMulti ==
  /\ f.open /\ Event({"multi"})
  /\ Tell([f EXCEPT !.staging = NotStaged, !.open = FALSE], f.value)
  /\ due' = [due EXCEPT !.hide = @ + 1]

\* Nothing is emitted: the form is taken not to have heard of the changes.
cancelMulti ==
  /\ f.open /\ Event({"multi"})
  /\ Change([f EXCEPT !.value = IF f.staging = NotStaged THEN @ ELSE f.staging,
                      !.staging = NotStaged, !.open = FALSE])
  /\ due' = [due EXCEPT !.hide = @ + 1]

\* Until the timer takes it away, a panel that was closed still has its options.
Toggled(v) ==
  /\ f' = [f EXCEPT !.value = v] /\ UNCHANGED <<told, due>>
  /\ drifted' = (drifted \/ f.staging = NotStaged)

toggleOptionMulti(o) ==
  f.shown /\ o \notin Disabled /\ Event({"multi"}) /\ Toggled(flip(f.value, o))

allSelectedMulti == enabledOf(All) # {} /\ enabledOf(All) \subseteq f.value

toggleAllMulti ==
  f.shown /\ Event({"multi"}) /\ Toggled(IF allSelectedMulti THEN {} ELSE enabledOf(All))

\* The chips stay on an open field: the form hears, the snapshot does not.
removeChipMulti(o) ==
  o \in f.value /\ Event({"multi"}) /\ Tell(f, f.value \ {o}) /\ UNCHANGED due

----------------------------------------------------------------------------
(* form-combobox                                                           *)

toggleDropdown ==
  /\ Event({"form"})
  /\ Change([f EXCEPT !.open = ~@, !.matches = IF f.open THEN @ ELSE All])
  /\ UNCHANGED due

closeDropdown ==
  f.open /\ Event({"form"}) /\ Change([f EXCEPT !.open = FALSE]) /\ UNCHANGED due

\* Disabled options count: with one of them unchosen this is never so.
isAllSelected == f.matches # {} /\ f.matches \subseteq f.value

toggleAllForm ==
  /\ f.open /\ Event({"form"})
  /\ Tell(f, IF isAllSelected THEN f.value \ f.matches
             ELSE f.value \cup enabledOf(f.matches))
  /\ UNCHANGED due

toggleOptionForm(o) ==
  /\ f.open /\ o \in enabledOf(f.matches) /\ Event({"form"})
  /\ Tell(f, flip(f.value, o))
  /\ UNCHANGED due

removeOption(o) ==
  o \in f.value /\ Event({"form"}) /\ Tell(f, f.value \ {o}) /\ UNCHANGED due

----------------------------------------------------------------------------
(* select, select-with-search and chunk-select                             *)

openSelect ==
  /\ ~f.open /\ Event(Single)
  /\ Change([f EXCEPT !.shown = TRUE, !.view = "list"])
  /\ due' = [due EXCEPT !.frame = @ + 1]

\* close(): not guarded by the field being open.
closed == [f EXCEPT !.open = FALSE, !.matches = All]

hidden == [due EXCEPT !.hide = @ + 1]

close == Event(Single) /\ Change(closed) /\ due' = hidden

selectOption(o) ==
  /\ f.shown /\ o \in enabledOf(f.matches) /\ Event(Single)
  /\ Tell(closed, {o})
  /\ due' = hidden

\* The index of the chosen option; of none, the one before the first.
chosenIndex ==
  IF \E i \in DOMAIN Options : Options[i] \in f.value
  THEN CHOOSE i \in DOMAIN Options : Options[i] \in f.value
  ELSE 0

\* An arrow key chooses the neighbour, and by choosing it closes the field.
focusOption(i) ==
  /\ f.open /\ Event({"select", "search"})
  /\ Options[i] \notin Disabled
  /\ Tell(closed, {Options[i]})
  /\ due' = hidden

focusNextOption == focusOption(IF chosenIndex < Len(Options) THEN chosenIndex + 1 ELSE 1)

focusPreviousOption == focusOption(IF chosenIndex > 1 THEN chosenIndex - 1 ELSE Len(Options))

clearValue == f.value # {} /\ Event({"select"}) /\ Tell(f, {}) /\ UNCHANGED due

\* select-with-search: typing opens the panel; on a mobile, emptying it
\* clears the value as well.
handleSearchInput(ms) ==
  /\ Event({"search"}) /\ ~f.mobile
  /\ Change([f EXCEPT !.matches = ms, !.shown = TRUE])
  /\ due' = [due EXCEPT !.frame = IF f.open THEN @ ELSE @ + 1]

handleMobileSearchInput(ms) ==
  /\ f.shown /\ f.mobile /\ Event({"search"})
  /\ IF ms = All
     THEN Tell([f EXCEPT !.matches = ms], {})
     ELSE Change([f EXCEPT !.matches = ms])
  /\ due' = [due EXCEPT !.frame = IF f.open THEN @ ELSE @ + 1]

clearSearch == Event({"search"}) /\ Tell([f EXCEPT !.matches = All], {}) /\ UNCHANGED due

\* chunk-select: a size can be typed as a number.
openNumericView ==
  /\ f.shown /\ Event({"chunk"})
  /\ Change([f EXCEPT !.view = "numeric",
                      !.number = IF f.value \cap Numbers # {}
                                 THEN CHOOSE n \in Numbers : n \in f.value ELSE "nan"])
  /\ UNCHANGED due

typeNumber(n) ==
  /\ f.shown /\ f.view = "numeric" /\ Event({"chunk"})
  /\ Change([f EXCEPT !.number = n]) /\ UNCHANGED due

confirmNumeric ==
  /\ f.shown /\ f.view = "numeric" /\ f.number # "nan" /\ Event({"chunk"})
  /\ Tell(closed, {f.number})
  /\ due' = hidden

cancelNumeric ==
  /\ f.shown /\ f.view = "numeric" /\ Event({"chunk"})
  /\ Change([f EXCEPT !.view = "list"]) /\ UNCHANGED due

clear ==
  /\ f.value # {} /\ Event({"chunk"})
  /\ Tell(IF f.open THEN closed ELSE f, {})
  /\ due' = IF f.open THEN hidden ELSE due

----------------------------------------------------------------------------
(* The form and the browser                                                *)

\* writeValue: the form writes into a field whatever its user is doing.
writeValue(v) ==
  /\ Event({"combo", "multi", "form"} \cup Single)
  /\ f.kind \in Single => Cardinality(v) <= 1
  /\ Tell(f, v)
  /\ UNCHANGED due

\* requestAnimationFrame: the field is open, whatever happened meanwhile.
onFrame ==
  /\ due.frame > 0 /\ due' = [due EXCEPT !.frame = @ - 1]
  /\ Change([f EXCEPT !.open = TRUE]) /\ UNCHANGED events

\* setTimeout: the panel is taken away, even from a field opened again.
onHide ==
  /\ due.hide > 0 /\ due' = [due EXCEPT !.hide = @ - 1]
  /\ Change([f EXCEPT !.shown = FALSE]) /\ UNCHANGED events

Queries == {All, {Options[1]}, {Options[Len(Options)]}}

ChoiceNext ==
  \/ open \/ toggle \/ cancel \/ confirm \/ toggleAll
  \/ openMulti \/ confirmMulti \/ cancelMulti \/ toggleAllMulti
  \/ toggleDropdown \/ closeDropdown \/ toggleAllForm
  \/ openSelect \/ close \/ focusNextOption \/ focusPreviousOption \/ clearValue
  \/ clearSearch \/ openNumericView \/ confirmNumeric \/ cancelNumeric \/ clear
  \/ \E o \in All \cup Numbers : removeChip(o) \/ removeChipMulti(o) \/ removeOption(o)
  \/ \E o \in All : toggleOption(o) \/ toggleOptionMulti(o) \/ toggleOptionForm(o) \/ selectOption(o)
  \/ \E ms \in Queries : onQueryChange(ms) \/ handleSearchInput(ms) \/ handleMobileSearchInput(ms)
  \/ \E n \in Numbers : typeNumber(n)
  \/ \E v \in {{}, {Options[1]}, All} : writeValue(v)
  \/ onFrame \/ onHide

ChoiceSpec == ChoiceInit /\ [][ChoiceNext]_choiceVars

----------------------------------------------------------------------------
\* What a field holds is what its form was told, whatever is staged,
\* searched, opened, cancelled or written meanwhile: the form never submits a
\* choice its user does not see, nor loses one the user does see.  multi-select
\* changes its value before it tells: while it holds a snapshot, what cancel
\* would restore is what the form was told, and without one what it holds is.
\* Two ways to drift are excepted, until the field confirms or tells its form
\* again without a snapshot.  A chip removed, or a value written, while the field
\* is open is told but not in the snapshot.  And an option changed while its
\* panel opens or closes is never told: in the frame before it is open and opened
\* again, in one that is closed already, or that a second frame opened again.
FormHeard ==
  IF f.kind = "multi"
  THEN ~drifted => told = (IF f.staging = NotStaged THEN f.value ELSE f.staging)
  ELSE told = f.value
=============================================================================
