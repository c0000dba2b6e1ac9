----------------------------- MODULE GameClock -----------------------------
(* How the two loops tell the game how much time has passed: FrameTimer in the
   client's (src/game/frame_timer.h), which works on the milliseconds that
   SDL_GetTicks counts in 32 bits, and steady_clock in the server's
   (src/src/server/server.cpp), whose ticks are cut to whole milliseconds. *)
EXTENDS Integers

CONSTANTS Fractions,             \* parts of a millisecond that steady_clock tells apart
          Modulus,               \* 2^32
          TargetFrameDuration,   \* GAME_TICK_RATE_MS
          SleepMs,               \* what the server sleeps in a tick
          MaxBusy,               \* bound on what a frame or a tick takes, in fractions
          MaxTime,               \* bound on what a run takes
          SDLStart               \* what SDL_GetTicks returns when the client starts

(* Two frames begin so shortly after one another that the milliseconds between
   them, of which one may be only begun, are an int. *)
ASSUME ClockAssumption ==
    /\ Fractions \in Nat \ {0}
    /\ Modulus \in Nat /\ Modulus % 2 = 0
    /\ TargetFrameDuration \in Nat /\ SleepMs \in Nat
    /\ MaxBusy \in Nat /\ MaxTime \in Nat
    /\ SDLStart \subseteq 0 .. Modulus - 1
    /\ MaxBusy + Fractions * (TargetFrameDuration + 2) <= Fractions * (Modulus \div 2)

VARIABLES time,                     \* real time, in fractions
          sdlStart,
          inFrame,                  \* the client is between startFrame and endFrame
          m_startTick, m_lastTick, m_deltaTime,
          frameStart,               \* the real time of the last startFrame
          lastUpdateTime,
          serverMs,                 \* the sum of the deltas of the server's ticks
          ticks                     \* their number

clientClockVars == <<sdlStart, inFrame, m_startTick, m_lastTick, m_deltaTime, frameStart>>
serverClockVars == <<lastUpdateTime, serverMs, ticks>>
clockVars == <<time, clientClockVars, serverClockVars>>

Millis(t) == t \div Fractions

(* Conversion to int, which is modulo 2^32 as of C++20. *)
Signed(x) == ((x + Modulus \div 2) % Modulus) - Modulus \div 2

SDLGetTicks(t) == (sdlStart + Millis(t)) % Modulus

Int32 == -(Modulus \div 2) .. (Modulus \div 2) - 1

ClockTypeOK ==
    /\ time \in 0 .. MaxTime
    /\ sdlStart \in SDLStart
    /\ inFrame \in BOOLEAN
    /\ m_startTick \in Int32 /\ m_lastTick \in Int32 /\ m_deltaTime \in Int32
    /\ frameStart \in 0 .. time
    /\ lastUpdateTime \in 0 .. time
    /\ serverMs \in 0 .. MaxTime
    /\ ticks \in Nat

(* m_deltaTime is not read before the first startFrame. *)
ClockInit ==
    /\ time = 0
    /\ sdlStart \in SDLStart
    /\ inFrame = FALSE
    /\ m_startTick = 0
    /\ m_lastTick = Signed(sdlStart)
    /\ m_deltaTime = 0
    /\ frameStart = 0
    /\ lastUpdateTime = 0
    /\ serverMs = 0
    /\ ticks = 0

-----------------------------------------------------------------------------
(* Time goes on until a loop's next call. *)
Until(t) == t \in time .. MaxTime /\ time' = t

\* Mutant: the time is taken from m_startTick, which is 0 for the first frame.
DeltaFromStart(tick) == IF tick - m_startTick \in Int32 THEN {tick - m_startTick} ELSE Int32

(* The difference of two ints: what comes out when it is not one, in the frame in
   which the ticks pass 2^31, is undefined. *)
DeltaTime(tick) == IF tick - m_lastTick \in Int32 THEN {tick - m_lastTick} ELSE Int32

(* startFrame, and updateSimulation with getDeltaTime. *)
StartFrame(t) ==
    /\ ~inFrame /\ t - frameStart <= MaxBusy + Fractions * (TargetFrameDuration + 1)
    /\ Until(t)
    /\ inFrame' = TRUE
    /\ m_startTick' = Signed(SDLGetTicks(t))
    /\ m_deltaTime' \in DeltaTime(m_startTick')
    /\ m_lastTick' = m_startTick'
    /\ frameStart' = t
    /\ UNCHANGED <<sdlStart, serverClockVars>>

(* What endFrame, called at t, has left to wait: unsigned arithmetic, as
   SDL_GetTicks is. *)
Remains(t) ==
    LET frameDuration == Signed(SDLGetTicks(t) - m_startTick)
    IN IF frameDuration < TargetFrameDuration THEN TargetFrameDuration - frameDuration ELSE 0

(* endFrame called at t, and SDL_Delay. *)
EndFrame(t) ==
    /\ inFrame /\ t \in time .. MaxTime /\ t - frameStart <= MaxBusy
    /\ Until(t + Fractions * Remains(t))
    /\ inFrame' = FALSE
    /\ UNCHANGED <<sdlStart, m_startTick, m_lastTick, m_deltaTime, frameStart, serverClockVars>>

-----------------------------------------------------------------------------
\* Mutant: a tick is rounded up to a whole millisecond.
TickMsUp(elapsed) == Millis(elapsed + Fractions - 1)

TickMs(elapsed) == Millis(elapsed)

(* The top of the server's loop, at t; the first time nothing comes before it. *)
ServerTick(t) ==
    /\ IF ticks = 0 THEN t <= MaxBusy
       ELSE t - lastUpdateTime \in Fractions * SleepMs .. Fractions * SleepMs + MaxBusy
    /\ Until(t)
    /\ lastUpdateTime' = t
    /\ serverMs' = serverMs + TickMs(t - lastUpdateTime)
    /\ ticks' = ticks + 1
    /\ UNCHANGED clientClockVars

ClockNext ==
    \E t \in time .. MaxTime : StartFrame(t) \/ EndFrame(t) \/ ServerTick(t)

ClockSpec == ClockInit /\ [][ClockNext]_clockVars

-----------------------------------------------------------------------------
(* A frame's delta is exactly the milliseconds since the last one began, so none
   is lost or counted twice from frame to frame, although the ticks are kept as
   ints, are negative for half of the time and go through 0 again.  Not so in the
   one frame in which they pass 2^31: its delta is undefined. *)
ClientTimeExact ==
    [][~inFrame /\ inFrame' /\ m_startTick' - m_lastTick \in Int32 =>
          m_deltaTime' = Millis(frameStart') - Millis(frameStart)]_clockVars

(* The server's game never runs ahead of the time, and falls behind it by less
   than a millisecond in each tick: its projectiles are slower than those the
   clients show, by what each of its ticks is cut. *)
ServerTimeLags ==
    /\ Fractions * serverMs <= lastUpdateTime
    /\ lastUpdateTime <= Fractions * serverMs + ticks * (Fractions - 1)
=============================================================================
