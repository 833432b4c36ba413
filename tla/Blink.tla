------------------------------- MODULE Blink -------------------------------
(***************************************************************************)
(* The lights: firmware/blink.c and its callers, with main's start-up and  *)
(* heartbeat, firmware/main.c.  Time goes in ticks of 50 ms: BLINK_DELTA   *)
(* and the step of hello are one, and the other sleeps that matter to a    *)
(* light are whole numbers of them.                                        *)
(*                                                                         *)
(* A thread that can run does so before the next tick; the blinkers have   *)
(* the lowest priority, and the order within a tick is left open.          *)
(***************************************************************************)
EXTENDS Integers

Lights == {"red", "green", "rf"}

VARIABLES
  light,  \* each light is on
  pos,    \* each blinker: "start", "first", "second" or "wait"
  evt,    \* its variable evt, a mask
  due,    \* ticks left of its sleep
  pend,   \* events signalled to it and not yet taken
  main,   \* what main has come to
  mdue,   \* ticks left of its sleep
  beat,   \* the heartbeat: "none", "first" or "second" blink next
  hdue    \* ticks left of its sleep

blinkVars == <<pos, evt, due, pend>>
mainVars == <<main, mdue>>
beatVars == <<beat, hdue>>
lightVars == <<light, blinkVars, mainVars, beatVars>>

POS == 1  \* BLINK_EV_POS
NEG == 2  \* BLINK_EV_NEG
BLINK_DELTA == 1

\* Port C and B start low (board.h); blink_init has created the blinkers and
\* main is about to sleep 100 ms in usb_init.
LightsInit ==
  /\ light = [l \in Lights |-> FALSE]
  /\ pos = [l \in Lights |-> "start"] /\ evt = [l \in Lights |-> 1]
  /\ due = [l \in Lights |-> 0] /\ pend = [l \in Lights |-> 0]
  /\ main = 0 /\ mdue = 2
  /\ beat = "none" /\ hdue = 0
-----------------------------------------------------------------------------
(* Faulty variants of the definitions below.  Nothing uses them: each shows*)
(* that some property notices when the code is wrong in that way.          *)

FaultySign(invert) == POS
FaultyBlinkRest(l) ==
  /\ pos[l] = "second" /\ due[l] = 0
  /\ pos' = [pos EXCEPT ![l] = "wait"] /\ pend' = [pend EXCEPT ![l] = 0]
  /\ UNCHANGED <<light, evt, due, mainVars, beatVars>>
-----------------------------------------------------------------------------
Sign(invert) == IF invert THEN NEG ELSE POS

\* Two events of one sign that are pending together are one.
Mask(a, b) == IF a = 0 \/ a = b THEN b ELSE POS + NEG

blink(l, invert) == pend' = [pend EXCEPT ![l] = Mask(@, Sign(invert))]

\* blinker: on and off again, or the other way round unless evt is POS alone.
OnFirst(l) == evt[l] = POS

BlinkStart(l) ==
  /\ pos[l] = "start"
  /\ light' = [light EXCEPT ![l] = OnFirst(l)]
  /\ pos' = [pos EXCEPT ![l] = "first"] /\ due' = [due EXCEPT ![l] = BLINK_DELTA]
  /\ UNCHANGED <<evt, pend, mainVars, beatVars>>

BlinkBack(l) ==
  /\ pos[l] = "first" /\ due[l] = 0
  /\ light' = [light EXCEPT ![l] = ~OnFirst(l)]
  /\ pos' = [pos EXCEPT ![l] = "second"] /\ due' = [due EXCEPT ![l] = BLINK_DELTA]
  /\ UNCHANGED <<evt, pend, mainVars, beatVars>>

BlinkRest(l) ==
  /\ pos[l] = "second" /\ due[l] = 0
  /\ pos' = [pos EXCEPT ![l] = "wait"]
  /\ UNCHANGED <<light, evt, due, pend, mainVars, beatVars>>

\* chEvtWaitAny(ALL_EVENTS) takes all that is pending.
BlinkEvent(l) ==
  /\ pos[l] = "wait" /\ pend[l] # 0
  /\ evt' = [evt EXCEPT ![l] = pend[l]] /\ pend' = [pend EXCEPT ![l] = 0]
  /\ pos' = [pos EXCEPT ![l] = "start"]
  /\ UNCHANGED <<light, due, mainVars, beatVars>>

Blinker(l) == BlinkStart(l) \/ BlinkBack(l) \/ BlinkRest(l) \/ BlinkEvent(l)
-----------------------------------------------------------------------------
\* main: hello toggles red and green eight times, then green is lit.
Hello ==
  /\ main < 8 /\ mdue = 0
  /\ light' = [light EXCEPT !["red"] = ~@, !["green"] = ~@]
  /\ main' = main + 1 /\ mdue' = 1
  /\ UNCHANGED <<blinkVars, beatVars>>

\* The heartbeat and the web server start.
HelloDone ==
  /\ main = 8 /\ mdue = 0
  /\ light' = [light EXCEPT !["green"] = TRUE]
  /\ main' = 9 /\ beat' = "first"
  /\ UNCHANGED <<blinkVars, mdue, hdue>>

\* Two blinks, 200 ms and 1500 ms apart.
Heartbeat ==
  /\ beat # "none" /\ hdue = 0
  /\ blink("green", TRUE)
  /\ beat' = IF beat = "first" THEN "second" ELSE "first"
  /\ hdue' = IF beat = "first" THEN 4 ELSE 30
  /\ UNCHANGED <<light, pos, evt, due, mainVars>>

\* A request to the web server; a packet received or sent, the radio being
\* ready from nrf_init on, just before hello.
Request ==
  /\ main = 9 /\ blink("red", FALSE)
  /\ UNCHANGED <<light, pos, evt, due, mainVars, beatVars>>
RadioPacket ==
  /\ mdue = 0 \/ main > 0
  /\ blink("rf", FALSE)
  /\ UNCHANGED <<light, pos, evt, due, mainVars, beatVars>>

\* The next tick, once every thread sleeps or waits.
Idle(l) == due[l] > 0 \/ (pos[l] = "wait" /\ pend[l] = 0)
Tick ==
  /\ \A l \in Lights : Idle(l)
  /\ main = 9 \/ mdue > 0
  /\ beat = "none" \/ hdue > 0
  /\ due' = [l \in Lights |-> IF due[l] > 0 THEN due[l] - 1 ELSE 0]
  /\ mdue' = IF mdue > 0 THEN mdue - 1 ELSE 0
  /\ hdue' = IF hdue > 0 THEN hdue - 1 ELSE 0
  /\ UNCHANGED <<light, pos, evt, pend, main, beat>>

LightsNext ==
  \/ \E l \in Lights : Blinker(l)
  \/ Hello \/ HelloDone \/ Heartbeat \/ Request \/ RadioPacket \/ Tick

LightsSpec == LightsInit /\ [][LightsNext]_lightVars

\* The threads run when they can, and time goes on.
LightsFairSpec ==
  /\ LightsSpec /\ WF_lightVars(Tick) /\ WF_lightVars(Hello \/ HelloDone) /\ WF_lightVars(Heartbeat)
  /\ \A l \in Lights : WF_lightVars(Blinker(l))
-----------------------------------------------------------------------------
\* After start-up a light that is not blinking shows its state of rest: red
\* and rf off, green on, whatever blinks met, merged, or met the start-up.
Rest(l) == l = "green"
RestsRight == main = 9 => \A l \in Lights : pos[l] \in {"second", "wait"} => light[l] = Rest(l)

\* A blink is seen, even one that is signalled during another: it stays pending
\* until the light is back at its rest, and from there the light leaves its rest
\* once more.
BlinkSeen ==
  \A l \in Lights :
    LET Signalled == main = 9 /\ pend[l] # 0
    IN  /\ Signalled ~> Signalled /\ light[l] = Rest(l)
        /\ Signalled /\ light[l] = Rest(l) ~> light[l] # Rest(l)
=============================================================================
