-------------------------------- MODULE Menus --------------------------------
(***************************************************************************)
(* The menus of the chat page.  DropdownService is one for the whole       *)
(* application: it holds the callback that closes the menu opened last.  A *)
(* menu opens beside its trigger and is kept inside the window; the        *)
(* viewer's panel collapses by itself while it has nothing to show.        *)
(*                                                                         *)
(* A click is an action; whether it reaches the document depends on its    *)
(* handler calling stopPropagation.                                        *)
(***************************************************************************)
EXTENDS Integers, FiniteSets

CONSTANTS
  Widths,     \* the widths of the window
  Heights,    \* its heights
  Lefts,      \* where a trigger's left edge may be
  MaxClicks   \* bound on what the user does

VARIABLES
  window,    \* its width and height
  openMenus, \* those open of "title", "more", "assistant", "header"
  callback,  \* DropdownService: the menu its callback closes, or NoMenu
  backdrop,  \* DropdownService: the backdrop of a narrow window
  add,       \* ChatInput's own menu and the templates beside it
  viewer,    \* ChatSummary: what the viewer has, and whether it is collapsed
  box,       \* the last panel that was placed
  clicks     \* what the user did so far

menuVars == <<window, openMenus, callback, backdrop, add, viewer, box, clicks>>

NoMenu == "no menu"

NoBox == [kind |-> "none"]

MenuInit ==
  /\ window \in [w : Widths, h : Heights]
  /\ openMenus = {} /\ callback = NoMenu /\ backdrop = FALSE
  /\ add = [open |-> FALSE, left |-> 0, section |-> "main", templates |-> FALSE, tleft |-> 0]
  /\ viewer = [streaming |-> FALSE, list |-> "idle", items |-> FALSE,
               collapsed |-> FALSE, auto |-> FALSE]
  /\ box = NoBox /\ clicks = 0

Click == clicks < MaxClicks /\ clicks' = clicks + 1

Lesser(a, b) == IF a < b THEN a ELSE b
Greater(a, b) == IF a < b THEN b ELSE a

----------------------------------------------------------------------------
(* Placement, in pixels.  A trigger is 40 wide and 28 high; a panel has the *)
(* size its style gives it.  Of multi-select only the height is computed.  *)

clamp(left, width) == Lesser(Greater(8, left), window.w - width - 8)

within(available, most) == Greater(Lesser(available, most), 120)

\* The panel of the assistants: above its trigger, ending where it ends.
updatePanelPosition(left, top) ==
  LET width == Lesser(320, window.w - 16)
  IN [kind |-> "assistant", left |-> clamp(left + 40 - width, width), width |-> width,
      top |-> top - 4 - within(top - 8, 320), height |-> within(top - 8, 320)]

\* combobox-multi: below its trigger, above it where there is more room.
positionList(left, top, size, width) ==
  LET w == CASE size = "full" -> width [] size = "big" -> 280 [] OTHER -> 240
      below == window.h - (top + 28) - 8
      above == top - 8
      upward == below < 200 /\ above > below
      inside == IF left + w > window.w - 8 THEN window.w - w - 8 ELSE left
      height == Greater(IF upward THEN above ELSE below, 120)
  IN [kind |-> "combobox", left |-> Greater(inside, 8), width |-> w, height |-> height,
      top |-> IF upward THEN top - 4 - height ELSE top + 28]

\* multi-select: its height only; it is placed by its page.
updateDropdownLayout(top, forceBelow) ==
  LET below == window.h - (top + 28) - 16
      above == top - 16
      placeAbove == ~forceBelow /\ above > below /\ below < 240
  IN [kind |-> "multi", above |-> placeAbove,
      height |-> Greater(IF placeAbove THEN above ELSE below, 160)]

\* chunk-select: the list, and the field for a number beside it.
updatePositions(left, top) ==
  LET list == IF left + 240 > window.w - 8 THEN window.w - 240 - 8 ELSE left
      beside == list + 240 + 4
  IN [kind |-> "chunk", left |-> list, width |-> 240, top |-> top + 32, height |-> 148,
      number |-> IF beside + 240 > window.w - 8 THEN list - 240 - 4 ELSE beside]

\* select and select-with-search: below the field, as wide as it is.
openBelow(left, top) ==
  [kind |-> "select", left |-> left, width |-> 40, top |-> top + 28 + 4,
   height |-> within(window.h - (top + 28) - 8, 300)]

\* The menu of a room: below its button, above it where it does not fit.
menuTopPx(top) ==
  LET below == top + 28 + 4
      fits == below + 168 <= window.h - 8
  IN [kind |-> "room", height |-> 168,
      top |-> Greater(IF fits THEN below ELSE top - 168 - 4, 8)]

\* The menu of the list of rooms knows where it would start below only.
listMenuTopPx(top) ==
  LET below == top + 28 + 4
      fits == below + 124 <= window.h - 8
  IN [kind |-> "list", height |-> 124,
      top |-> Greater(IF fits THEN below ELSE below - 28 - 124 - 8, 8)]

Tops == {20, window.h \div 2, window.h - 48}

Triggers == {left \in Lefts : left + 40 <= window.w}

Place ==
  /\ Click
  /\ \E left \in Triggers, top \in Tops :
       box' \in {positionList(left, top, "full", 120), positionList(left, top, "big", 120),
                 positionList(left, top, "default", 120), updatePositions(left, top),
                 openBelow(left, top), menuTopPx(top), listMenuTopPx(top)}
                \cup {updateDropdownLayout(top, force) : force \in BOOLEAN}
  /\ UNCHANGED <<window, openMenus, callback, backdrop, add, viewer>>

Resize ==
  /\ Click /\ window' \in [w : Widths, h : Heights]
  /\ box' = NoBox
  /\ UNCHANGED <<openMenus, callback, backdrop, add, viewer>>

----------------------------------------------------------------------------
(* DropdownService                                                         *)

showBackdrop == IF window.w < 768 THEN TRUE ELSE backdrop

\* The menu before it is closed by its callback, if that is still known.
openDropdown(m) ==
  /\ openMenus' = (openMenus \ {callback}) \cup {m}
  /\ callback' = m
  /\ backdrop' = showBackdrop

closeAll == openMenus \ {callback}

\* A click that reaches the document closes the menu of the callback, and
\* the assistants by a listener of their own.
onDocumentClick ==
  /\ Click
  /\ openMenus' = closeAll \ {"assistant"}
  /\ callback' = NoMenu /\ backdrop' = FALSE
  /\ add' = [add EXCEPT !.open = FALSE, !.templates = FALSE, !.section = "main"]
  /\ UNCHANGED <<window, viewer, box>>

\* A component that closed a menu of its own: whoever's callback is dropped.
notifyClosed == callback' = NoMenu /\ backdrop' = FALSE

\* The buttons that open the menus stop their clicks.
toggleMenu(m) ==
  /\ Click
  /\ IF m \in openMenus
     THEN openMenus' = openMenus \ {m} /\ notifyClosed
     ELSE openDropdown(m)
  /\ UNCHANGED <<window, add, viewer>>

toggleTitleMenu == toggleMenu("title") /\ UNCHANGED box
toggleSummaryMenu == toggleMenu("more") /\ UNCHANGED box
\* The header has a menu in a narrow window only.
toggleHeaderMenu == window.w < 768 /\ toggleMenu("header") /\ UNCHANGED box

toggleAssistantMenu ==
  /\ toggleMenu("assistant")
  /\ \E left \in Triggers, top \in Tops :
       box' = IF "assistant" \in openMenus THEN box ELSE updatePanelPosition(left, top)

\* An entry of a menu closes it.  The entries' clicks go on to the document
\* except inside the viewer's menus.
closeMenu(m) ==
  /\ m \in openMenus /\ Click
  /\ openMenus' = openMenus \ {m} /\ notifyClosed
  /\ UNCHANGED <<window, add, viewer, box>>

selectDocument == closeMenu("title")
openInNewTab == closeMenu("more")
onSaveToLibrary == closeMenu("more")
onSaveToPdf == closeMenu("more")
selectAssistant == closeMenu("assistant")
handleShare == closeMenu("header")

----------------------------------------------------------------------------
(* ChatSummary: the viewer's panel                                         *)

isViewerEmpty(v) == v.list \in {"idle", "loaded"} /\ ~v.items /\ ~v.streaming

\* Not before the list of this room has been loaded.
shouldAutoCollapse(v) == v.list = "loaded" /\ isViewerEmpty(v)

settledIgnoringStream(v) ==
  CASE shouldAutoCollapse(v) /\ ~v.collapsed -> [v EXCEPT !.collapsed = TRUE, !.auto = TRUE]
    [] v.auto /\ v.collapsed /\ ~isViewerEmpty(v) ->
         [v EXCEPT !.collapsed = FALSE, !.auto = FALSE]
    [] OTHER -> v

\* The effects that run after each change.
settled(v) ==
  CASE v.streaming /\ v.collapsed -> [v EXCEPT !.collapsed = FALSE]
    [] shouldAutoCollapse(v) /\ ~v.collapsed -> [v EXCEPT !.collapsed = TRUE, !.auto = TRUE]
    [] v.auto /\ v.collapsed /\ ~v.streaming /\ ~isViewerEmpty(v) ->
         [v EXCEPT !.collapsed = FALSE, !.auto = FALSE]
    [] OTHER -> v

\* The button of the panel stops its click, and closes the panel's menus.
toggleCollapse ==
  /\ Click
  /\ openMenus' = openMenus \ {"title", "more"} /\ notifyClosed
  /\ viewer' = settled([viewer EXCEPT !.auto = FALSE, !.collapsed = ~@])
  /\ UNCHANGED <<window, add, box>>

\* ViewerService: a list is loaded, an answer's library is streamed.
ViewerChanged ==
  /\ Click
  /\ \E streaming, items \in BOOLEAN, list \in {"loading", "error", "loaded"} :
       viewer' = settled([viewer EXCEPT !.streaming = streaming, !.list = list,
                                        !.items = items])
  /\ UNCHANGED <<window, openMenus, callback, backdrop, add, box>>

----------------------------------------------------------------------------
(* ChatInput: its menu, and the templates beside it                        *)

\* Opening tells DropdownService nothing; closing drops whatever it held.
toggleAddMenu ==
  /\ Click
  /\ IF add.open
     THEN add' = [add EXCEPT !.open = FALSE] /\ notifyClosed
     ELSE /\ \E left \in Triggers :
               add' = [add EXCEPT !.open = TRUE, !.section = "main",
                                  !.left = clamp(left + 40 - 280, 280)]
          /\ UNCHANGED <<callback, backdrop>>
  /\ UNCHANGED <<window, openMenus, viewer, box>>

\* In a wide window the templates open to the right of the menu, which moves
\* to the left where there is no room for both.
openTemplateMenu ==
  /\ add.open /\ Click
  /\ add' = CASE window.w < 768 -> [add EXCEPT !.section = "templates"]
              [] window.w >= 768 /\ add.templates -> [add EXCEPT !.templates = FALSE]
              [] OTHER ->
                   LET beside == add.left + 280 + 8
                       shifted == IF beside + 280 > window.w - 8
                                  THEN clamp(add.left, 280 + 8 + 280) ELSE add.left
                   IN [add EXCEPT !.left = shifted, !.templates = TRUE,
                                  !.tleft = clamp(shifted + 280 + 8, 280)]
  /\ UNCHANGED <<window, openMenus, callback, backdrop, viewer, box>>

backToMain ==
  /\ add.open /\ Click
  /\ add' = [add EXCEPT !.section = "main", !.templates = FALSE]
  /\ UNCHANGED <<window, openMenus, callback, backdrop, viewer, box>>

\* Choosing a template closes both.
closeAddMenu ==
  /\ add.open /\ Click
  /\ add' = [add EXCEPT !.open = FALSE, !.templates = FALSE, !.section = "main"]
  /\ UNCHANGED <<window, openMenus, callback, backdrop, viewer, box>>

MenuNext ==
  \/ Place \/ Resize \/ onDocumentClick
  \/ toggleTitleMenu \/ toggleSummaryMenu \/ toggleHeaderMenu
  \/ toggleAssistantMenu \/ selectDocument \/ openInNewTab \/ onSaveToLibrary \/ onSaveToPdf
  \/ selectAssistant \/ handleShare
  \/ toggleCollapse \/ ViewerChanged
  \/ toggleAddMenu \/ openTemplateMenu \/ backToMain \/ closeAddMenu

MenuSpec == MenuInit /\ [][MenuNext]_menuVars

----------------------------------------------------------------------------
\* Where the code computes a panel's place, the panel lies inside the window,
\* wherever its trigger is and however narrow the window became.  Between the
\* sides: the panels of the assistants, of combobox-multi and of chunk-select with
\* its field for a number.  Between top and bottom: the menus of a room and of
\* the list, and the panels whose height is fitted, of the assistants, of
\* combobox-multi and of select, unless less than their least height of 120 is
\* left: the assistants' then passes the window's top.  The sides of select, the
\* top of chunk-select and the place of multi-select are the page's and not
\* computed.
PanelsInside ==
  /\ box.kind \in {"assistant", "combobox", "chunk"} =>
       /\ box.left >= IF box.kind = "chunk" THEN 0 ELSE 8
       /\ box.left + box.width <= window.w - 8
  /\ box.kind = "chunk" /\ window.w >= 768 => box.number >= 0 /\ box.number + 240 <= window.w - 8
  /\ box.kind \in {"assistant", "combobox", "select"} =>
       \/ box.top >= 4 /\ box.top + box.height <= window.h - 4
       \/ box.height = 120
  /\ box.kind = "assistant" => box.top + box.height <= window.h
  /\ box.kind \in {"room", "list"} => box.top >= 8 /\ box.top + box.height <= window.h - 8

\* The templates of the input lie beside its menu, not over it.
OpensBeside ==
  add'.templates /\ ~add.templates =>
    /\ add'.left >= 8 /\ add'.tleft >= add'.left + 280
    /\ add'.tleft + 280 <= window.w - 8

\* The panel opens for an answer that streams its library, is not open with
\* nothing to show, and never opens over its user's decision.
KeepsCollapse ==
  /\ viewer'.streaming => ~viewer'.collapsed
  /\ shouldAutoCollapse(viewer') => viewer'.collapsed
  /\ viewer.collapsed /\ ~viewer.auto /\ ~viewer'.collapsed =>
       viewer'.streaming \/ openMenus' = openMenus \ {"title", "more"}

CollapseKept == [][KeepsCollapse /\ OpensBeside]_menuVars
=============================================================================
