------------------------------- MODULE Input -------------------------------
(***************************************************************************)
(* Mouse, touch screen and keyboard of a visitor against what the RDP      *)
(* server believes to be held down: the handlers of the browser client     *)
(* (webroot/js/wsgate-debug.js), the buttons of the page                   *)
(* (webroot/index-debug.html) and RDP::OnWsMessage (RDP.cpp), which        *)
(* forwards events only while the session is connected.                    *)
(*                                                                         *)
(* A message is taken to arrive when it is sent: the socket keeps their    *)
(* order, and a delay is the same as a session that connects earlier.      *)
(* The handlers of mouse, touches and keys share nothing but the socket;   *)
(* a behaviour is about one of them, the device.                           *)
(***************************************************************************)
EXTENDS Naturals, FiniteSets

CONSTANTS
    CharKeys,       \* keys that type a character
    OtherKeys,      \* keys FunctionalKey is true of, Enter and Alt excepted
    MaxSessions,    \* bound: sessions started from the page
    MaxFingers,     \* bound: fingers on the screen; onTs looks at four at most
    MaxCooling      \* bound: timers of cT that run at a time

ASSUME InputAssumption ==
    /\ CharKeys \cap OtherKeys = {}
    /\ {"enter", "alt", "compose"} \cap (CharKeys \cup OtherKeys) = {}
    /\ MaxSessions \in Nat /\ MaxFingers \in 1..4 /\ MaxCooling \in Nat

VARIABLES
    device,         \* what the visitor uses
    sock,           \* the client's socket
    sessions,       \* how many there were
    server,         \* RDP::m_State
    buttons, keys,  \* what the RDP server believes to be held
    mouseDownStatus,\* buttons whose press was sent and whose release was not
    pressed, inside,\* mouse: buttons held, pointer over the canvas
    fingers,        \* touch: how many are down
    pTe, pT, fTid,  \* touch: waiting press, waiting gesture, timer of 50 ms set
    Tcool, cooling, \* touch: clicks are enabled, timers of 500 ms set
    aMF, helper,    \* artificial mouse flags, and the box that sets them is shown
    odd,            \* what was odd about the touches since nothing was held
    keysDown, focus,\* keys held, key events reach the textarea
    useIME, IMEon,  \* input method wanted, input method composing
    area,           \* what the textarea holds: text sent as key events, text not sent
    sentIn, uneven, \* mode in which a key's press was sent, keys not released in it
    carried,        \* the mode was switched with text or composition pending
    altTabOn        \* the page shows the button of Alt+Tab as held

session == <<sock, sessions, server>>
mouse == <<pressed, inside>>
touch == <<fingers, pTe, pT, fTid, Tcool, cooling, aMF, helper, odd>>
typing == <<keysDown, focus, useIME, IMEon, area, sentIn, uneven, carried, altTabOn>>
inputVars == <<device, session, buttons, keys, mouseDownStatus, mouse, touch, typing>>

Flags == {"left", "right"}
Keys == CharKeys \cup OtherKeys \cup {"enter", "alt"}
Compose == "compose"        \* the code 229 of a key an input method has taken
FunctionalKey(code) == code \in OtherKeys \cup {"enter", "alt"}
Modes == BOOLEAN \X BOOLEAN
Mode == <<useIME, IMEon>>

InputInit ==
    /\ device \in {"mouse", "touch", "keyboard"}
    /\ sock = "none" /\ sessions = 0 /\ server = "initial"
    /\ buttons = {} /\ keys = {} /\ mouseDownStatus = {}
    /\ pressed = {} /\ inside = FALSE
    /\ fingers = 0 /\ pTe = FALSE /\ pT = 0 /\ fTid = FALSE
    /\ Tcool = TRUE /\ cooling = 0 /\ aMF = {} /\ helper = FALSE /\ odd = {}
    /\ keysDown = {} /\ focus = TRUE /\ useIME = FALSE /\ IMEon = FALSE
    /\ area = {} /\ carried = FALSE /\ altTabOn = FALSE
    /\ sentIn = [k \in Keys |-> {}] /\ uneven = {}

-----------------------------------------------------------------------------
\* The session.

\* RDPStart: a new client object.  The visitor clicks it with empty hands.
RDPStart ==
    /\ sock \in {"none", "closed"} /\ sessions < MaxSessions
    /\ pressed = {} /\ fingers = 0 /\ keysDown = {}
    /\ sock' = "opening" /\ sessions' = sessions + 1 /\ server' = "initial"
    /\ mouseDownStatus' = {} /\ useIME' = FALSE /\ IMEon' = FALSE
    /\ pTe' = FALSE /\ pT' = 0 /\ fTid' = FALSE /\ Tcool' = TRUE /\ cooling' = 0
    /\ aMF' = {} /\ odd' = {} /\ carried' = FALSE
    /\ UNCHANGED <<device, buttons, keys, mouse, fingers, helper, keysDown, focus, area,
                   sentIn, uneven, altTabOn>>

\* onWSopen adds the textarea and its listeners; the worker reports CONNECTED.
SessionAdvances ==
    /\ \/ sock = "opening" /\ sock' = "open" /\ UNCHANGED server
       \/ sock = "open" /\ server = "initial" /\ server' = "connected" /\ UNCHANGED sock
    /\ UNCHANGED <<device, sessions, buttons, keys, mouseDownStatus, mouse, touch, typing>>

\* The session ends at the server; _reset closes the socket and removes the textarea.
SessionEnds ==
    /\ sock \in {"opening", "open"}
    /\ \/ sock = "open" /\ server = "connected" /\ UNCHANGED <<sock, area, helper>>
       \/ sock' = "closed" /\ area' = {} /\ helper' = FALSE
    /\ server' = "closed" /\ buttons' = {} /\ keys' = {} /\ uneven' = {}
    /\ UNCHANGED <<device, sessions, mouseDownStatus, mouse, fingers, pTe, pT, fTid, Tcool,
                   cooling, aMF, odd, keysDown, focus, useIME, IMEon, sentIn,
                   carried, altTabOn>>

Listening == sock = "open"
Forwarded == sock = "open" /\ server = "connected"

-----------------------------------------------------------------------------
\* Buttons.  _mB gives the flags of an event: the artificial ones, or the button's.
_mB(button) == IF aMF = {} THEN button ELSE CHOOSE f \in Flags : f \in aMF

SendDown(flag) ==
    /\ buttons' = IF Forwarded THEN buttons \cup {flag} ELSE buttons
    /\ mouseDownStatus' = IF Listening THEN mouseDownStatus \cup {flag} ELSE mouseDownStatus

SendUp(flags) ==
    /\ buttons' = IF Forwarded THEN buttons \ flags ELSE buttons
    /\ mouseDownStatus' = IF Listening THEN mouseDownStatus \ flags ELSE mouseDownStatus

KeepButtons == UNCHANGED <<buttons, mouseDownStatus>>

\* A right click with Control and Alt only fires touch3.
onMd(button) ==
    \/ SendDown(_mB(button))
    \/ button = "right" /\ KeepButtons

MouseDown(b) ==
    /\ device = "mouse" /\ b \notin pressed
    /\ pressed' = pressed \cup {b}
    /\ IF inside /\ Listening THEN onMd(b) ELSE KeepButtons
    /\ UNCHANGED <<device, session, keys, inside, touch, typing>>

MouseUp(b) ==
    /\ device = "mouse" /\ b \in pressed
    /\ pressed' = pressed \ {b}
    /\ IF inside /\ Listening THEN SendUp({_mB(b)}) ELSE KeepButtons
    /\ UNCHANGED <<device, session, keys, inside, touch, typing>>

MouseEnter ==
    /\ device = "mouse" /\ ~inside /\ inside' = TRUE
    /\ UNCHANGED <<device, session, buttons, keys, mouseDownStatus, pressed, touch, typing>>

\* onMouseLeave sends the release of every button whose press was sent.
onMouseLeave ==
    /\ device = "mouse" /\ inside /\ inside' = FALSE
    /\ IF Listening THEN SendUp(mouseDownStatus) ELSE KeepButtons
    /\ UNCHANGED <<device, session, keys, pressed, touch, typing>>

-----------------------------------------------------------------------------
\* Touches.  What is odd about a gesture is remembered until nothing is held and no
\* press is on its way.
Remember(causes) == odd' = IF buttons' = {} /\ ~(pTe' /\ fTid') THEN {} ELSE odd \cup causes

\* Two fingers and more disable clicks for 500 ms; no timer replaces another.
Cool(n) == cooling < MaxCooling /\ Tcool' = FALSE /\ cooling' = cooling + 1

onTs ==
    /\ device = "touch" /\ Listening /\ fingers < MaxFingers
    /\ fingers' = fingers + 1 /\ fTid' = TRUE
    /\ \/ fingers' = 1 /\ pTe' = TRUE /\ UNCHANGED <<pT, Tcool, cooling>>
       \/ fingers' > 1 /\ pT' = fingers' /\ Cool(fingers') /\ UNCHANGED pTe
    /\ KeepButtons /\ Remember({})
    /\ UNCHANGED <<device, session, keys, mouse, aMF, helper, typing>>

\* fT, 50 ms after the last touch: a gesture, or the press that waited.  touch2 shows
\* or hides the box of mouse flags.
fT ==
    /\ fTid /\ fTid' = FALSE
    /\ \/ /\ pT # 0 /\ pT' = 0
          /\ helper' = (helper # (pT = 2))
          /\ KeepButtons /\ UNCHANGED pTe
       \/ /\ pT = 0 /\ pTe /\ pTe' = FALSE
          /\ IF Tcool THEN SendDown(_mB("left")) ELSE KeepButtons
          /\ UNCHANGED <<pT, helper>>
    /\ Remember({})
    /\ UNCHANGED <<device, session, keys, mouse, fingers, Tcool, cooling, aMF, typing>>

\* cT.  It is not due before the fT that was set with it.
cT ==
    /\ cooling > (IF fTid /\ pT # 0 THEN 1 ELSE 0)
    /\ cooling' = cooling - 1 /\ Tcool' = TRUE
    /\ UNCHANGED <<device, session, buttons, keys, mouseDownStatus, mouse, fingers, pTe, pT,
                   fTid, aMF, helper, odd, typing>>

onMu_FlagsFirst == SendUp({"left"}) /\ aMF' = {}

\* onMu: the flags are taken before mouserelease resets them.
onMu == SendUp({_mB("left")}) /\ aMF' = {}

onTe ==
    /\ device = "touch" /\ Listening /\ fingers > 0
    /\ fingers' = fingers - 1
    /\ IF fingers' = 0 /\ Tcool THEN onMu ELSE KeepButtons /\ UNCHANGED aMF
    /\ UNCHANGED <<pTe, fTid>>
    /\ Remember(IF fingers' > 0 THEN {} ELSE IF ~Tcool THEN {"cooling"}
                ELSE IF pTe /\ fTid THEN {"quick"} ELSE {})
    /\ UNCHANGED <<device, session, keys, mouse, pT, Tcool, cooling, helper, typing>>

\* The browser takes the touches for itself: touchcancel has no handler.
TouchCancel ==
    /\ device = "touch" /\ fingers > 0 /\ fingers' = 0
    /\ KeepButtons /\ UNCHANGED <<pTe, fTid>> /\ Remember({"cancelled"})
    /\ UNCHANGED <<device, session, keys, mouse, pT, Tcool, cooling, aMF, helper, typing>>

\* SetArtificialMouseFlags, from the box: with nothing checked it is the left button.
SetArtificialMouseFlags(flag) ==
    /\ device = "touch" /\ helper /\ sock # "none"
    /\ aMF # {flag} /\ aMF' = {flag}
    /\ KeepButtons /\ UNCHANGED <<pTe, fTid>> /\ Remember({"flags"})
    /\ UNCHANGED <<device, session, keys, mouse, fingers, pT, Tcool, cooling, helper, typing>>

-----------------------------------------------------------------------------
\* Keys.  OnWsMessage sends a scancode event for every code; 229 has none.
SendKeyUpDown(k, down) ==
    keys' = IF Forwarded /\ k \in Keys
            THEN (IF down THEN keys \cup {k} ELSE keys \ {k}) ELSE keys

KeepKeys == UNCHANGED keys

\* DumpTextArea(13): the text is sent and the composition is over.
DumpTextArea(composing) ==
    IF composing THEN area' = {} /\ IMEon' = FALSE ELSE UNCHANGED <<area, IMEon>>

\* The mode was switched over what is pending now.
Carry(switched) == carried' = ((area' # {} \/ IMEon') /\ (carried \/ switched))

\* What a key leaves in the textarea when the event is not prevented.
Typed(text) == area' = area \cup {text}

\* KeyDownEvent and the KeyPressEvent that follows it in the same turn, unless an
\* input method has the key (code 229) or the first one prevented it.
KeyDown(k, code) ==
    /\ device = "keyboard"
    /\ keysDown' = keysDown \cup {k}
    /\ IF ~(focus /\ Listening)
       THEN KeepKeys /\ UNCHANGED <<area, IMEon, sentIn>>
       ELSE LET composing == IMEon \/ (useIME /\ code = Compose)
                sends == ~useIME \/ (~composing /\ FunctionalKey(code))
            IN  /\ IF sends THEN SendKeyUpDown(code, TRUE) ELSE KeepKeys
                /\ sentIn' = IF sends /\ code = k THEN [sentIn EXCEPT ![k] = {Mode}] ELSE sentIn
                /\ \/ /\ code = Compose
                      /\ Typed("unsent") /\ IMEon' = composing
                   \/ /\ code = "enter" /\ (~useIME \/ composing)
                      /\ DumpTextArea(composing)
                   \/ /\ code \in CharKeys /\ useIME /\ ~composing
                      /\ area' = {} /\ UNCHANGED IMEon
                   \/ /\ code \in CharKeys /\ (~useIME \/ composing)
                      /\ Typed(IF useIME THEN "unsent" ELSE "sent") /\ UNCHANGED IMEon
                   \/ /\ code \in OtherKeys \cup {"alt"} \/ (code = "enter" /\ useIME /\ ~composing)
                      /\ UNCHANGED <<area, IMEon>>
    /\ Carry(FALSE)
    /\ UNCHANGED <<device, session, buttons, mouseDownStatus, mouse, touch, focus, useIME,
                   uneven, altTabOn>>

\* A key is let go: in the mode its press was sent in, or not, or nobody sees it.
Leave(k) ==
    /\ sentIn' = [sentIn EXCEPT ![k] = {}]
    /\ uneven' = (IF focus /\ Listening /\ Mode \in sentIn[k] THEN uneven \ {k}
                  ELSE uneven \cup {k}) \cap keys'

KeyUp_SameClear(k) ==
    /\ device = "keyboard" /\ k \in keysDown /\ keysDown' = keysDown \ {k}
    /\ IF focus /\ Listening /\ (~useIME \/ (~IMEon /\ FunctionalKey(k)))
       THEN SendKeyUpDown(k, FALSE) ELSE KeepKeys
    /\ area' = {} /\ UNCHANGED IMEon
    /\ Leave(k) /\ Carry(FALSE)
    /\ UNCHANGED <<device, session, buttons, mouseDownStatus, mouse, touch, focus, useIME,
                   altTabOn>>

KeyUp_NoControlKeys(k) ==
    /\ device = "keyboard" /\ k \in keysDown /\ keysDown' = keysDown \ {k}
    /\ IF focus /\ Listening /\ ~useIME
       THEN SendKeyUpDown(k, FALSE) /\ area' = {} /\ UNCHANGED IMEon
       ELSE KeepKeys /\ UNCHANGED <<area, IMEon>>
    /\ Leave(k) /\ Carry(FALSE)
    /\ UNCHANGED <<device, session, buttons, mouseDownStatus, mouse, touch, focus, useIME,
                   altTabOn>>

\* KeyUpEvent.  Without the input method it empties the textarea.
KeyUp(k) ==
    /\ device = "keyboard" /\ k \in keysDown /\ keysDown' = keysDown \ {k}
    /\ \/ /\ ~(focus /\ Listening)
          /\ KeepKeys /\ UNCHANGED <<area, IMEon>>
       \/ /\ focus /\ Listening /\ ~useIME
          /\ SendKeyUpDown(k, FALSE)
          /\ area' = {} /\ UNCHANGED IMEon
       \/ /\ focus /\ Listening /\ useIME
          /\ IF ~IMEon /\ FunctionalKey(k) THEN SendKeyUpDown(k, FALSE) ELSE KeepKeys
          /\ IF k = "enter" THEN DumpTextArea(IMEon) ELSE UNCHANGED <<area, IMEon>>
    /\ Leave(k) /\ Carry(FALSE)
    /\ UNCHANGED <<device, session, buttons, mouseDownStatus, mouse, touch, focus, useIME,
                   altTabOn>>

\* ToggleLanguageButton, a click outside the textarea.
ToggleLanguageButton ==
    /\ device = "keyboard" /\ sock = "open"
    /\ useIME' = ~useIME /\ UNCHANGED <<area, IMEon>>
    /\ Carry(TRUE)
    /\ UNCHANGED <<device, session, buttons, keys, mouseDownStatus, mouse, touch, keysDown,
                   focus, sentIn, uneven, altTabOn>>

\* The textarea loses the focus and gets it back, after 20 ms or with the window.
FocusChanges ==
    /\ device = "keyboard" /\ focus' = ~focus
    /\ UNCHANGED <<device, session, buttons, keys, mouseDownStatus, mouse, touch, keysDown,
                   useIME, IMEon, area, sentIn, uneven, carried, altTabOn>>

\* altTabEvent: Alt goes down with a Tab and stays, or comes up.
altTabEvent ==
    /\ device = "keyboard" /\ sock # "none"
    /\ altTabOn' = ~altTabOn /\ SendKeyUpDown("alt", ~altTabOn)
    /\ UNCHANGED <<device, session, buttons, mouseDownStatus, mouse, touch, keysDown, focus,
                   useIME, IMEon, area, sentIn, uneven, carried>>

\* SendKey(0), Control+Alt+Delete, and onKv, a key of the keyboard on the screen: the
\* press and the release of what they send are forwarded together.
PressAndRelease(k) ==
    /\ device = "keyboard" /\ sock # "none"
    /\ SendKeyUpDown(k, FALSE)
    /\ UNCHANGED <<device, session, buttons, mouseDownStatus, mouse, touch, keysDown, focus,
                   useIME, IMEon, area, sentIn, uneven, carried, altTabOn>>

\* The visitor may put everything down and do no more.
Rest == sock = "closed" /\ UNCHANGED inputVars

InputNext ==
    \/ RDPStart \/ SessionAdvances \/ SessionEnds
    \/ \E b \in Flags : MouseDown(b) \/ MouseUp(b)
    \/ MouseEnter \/ onMouseLeave
    \/ onTs \/ onTe \/ TouchCancel \/ fT \/ cT
    \/ \E f \in Flags : SetArtificialMouseFlags(f)
    \/ \E k \in Keys : KeyDown(k, k) \/ KeyUp(k) \/ PressAndRelease(k)
    \/ \E k \in CharKeys \cup {"enter"} : KeyDown(k, Compose)
    \/ ToggleLanguageButton \/ FocusChanges \/ altTabEvent
    \/ Rest

InputSpec == InputInit /\ [][InputNext]_inputVars

-----------------------------------------------------------------------------
(***************************************************************************)
(* Properties.                                                             *)
(***************************************************************************)

\* With a mouse the RDP server holds only buttons the visitor holds over the canvas.
\* With fingers a button stays held after the last one has gone only if the tap was
\* shorter than the 50 ms of fT, ended while clicks were disabled, was cancelled by
\* the browser, or the artificial flags changed under it.
ButtonsExplained ==
    /\ device = "mouse" /\ buttons # {} => inside /\ buttons \subseteq pressed
    /\ device = "touch" /\ fingers = 0 /\ buttons # {} => odd # {}

\* A key the RDP server holds is held by the visitor, or it is the Alt of a button
\* shown as held, or its release was not seen, or it was in another mode than its press.
KeysExplained ==
    \A k \in keys \ keysDown :
        \/ k = "alt" /\ altTabOn
        \/ k \in uneven

\* Text the RDP server has had as key events is sent again, and text it has not had
\* is thrown away, only without the input method or after it was switched on or off
\* with something pending.
TextStep ==
    LET dumped == IMEon /\ ~IMEon'
    IN  sock' = "open" =>
            /\ dumped /\ "sent" \in area => carried
            /\ ~dumped /\ "unsent" \in area /\ area' = {} => ~useIME \/ carried
TextExplained == [][TextStep]_inputVars
=============================================================================
