----------------------------- MODULE DimThrottle -----------------------------
(***************************************************************************)
(* Live dimming from the page (transmitDim in app/page.tsx): a slider sets *)
(* a level on every pixel of a drag, and only the first and then one per   *)
(* interval goes to the controller.  All channels share one throttle.      *)
(***************************************************************************)
EXTENDS Naturals, Sequences, SequencesExt

CONSTANTS
    Channels,    \* the channels, in the order of data.channels
    Levels,      \* levels a slider may be set to
    SetsMax      \* bound of the model: levels set by the operator

ThrottleAssumption ==
    /\ Channels \in Seq(Nat \ {0}) /\ Channels # <<>>
    /\ {0, 100} \subseteq Levels /\ Levels \subseteq 0..100 /\ SetsMax \in Nat

VARIABLES
    shown,     \* the level of each channel on the page
    sent,      \* history: the level last sent for each
    pending,   \* the setting waiting for the timer, or NoSetting
    timer,     \* whether the timer runs
    flashes,   \* the levels flashes in progress will return to
    latest,    \* history: the setting transmitDim was last called with
    sets       \* history: levels set so far

throttleVars == <<shown, sent, pending, timer, flashes, latest, sets>>

ChannelSet == {Channels[n] : n \in DOMAIN Channels}
Setting(c, level) == [channel |-> c, level |-> level]
NoSetting == Setting(0, 0)
SettingRecords == [channel : ChannelSet, level : Levels]

ThrottleTypeOK ==
    /\ {shown, sent} \subseteq [ChannelSet -> Levels]
    /\ {pending, latest} \subseteq SettingRecords \cup {NoSetting}
    /\ timer \in BOOLEAN /\ flashes \subseteq SettingRecords /\ sets \in 0..SetsMax

ThrottleInit ==
    /\ shown = [c \in ChannelSet |-> 0] /\ sent = shown
    /\ pending = NoSetting /\ latest = NoSetting /\ timer = FALSE
    /\ flashes = {} /\ sets = 0

-----------------------------------------------------------------------------
\* setChannelLevel for each of these settings in turn: the first of them is
\* sent if the throttle is idle, the last one is kept for the timer.
Transmit(settings) ==
    LET final == Last(settings)
        first == Head(settings)
    IN  /\ shown' = FoldLeft(LAMBDA old, s : [old EXCEPT ![s.channel] = s.level],
                             shown, settings)
        /\ latest' = final
        /\ IF timer
           THEN pending' = final /\ UNCHANGED <<sent, timer>>
           ELSE /\ sent' = [sent EXCEPT ![first.channel] = first.level]
                /\ pending' = IF Len(settings) > 1 THEN final ELSE NoSetting
                /\ timer' = TRUE

\* Faulty variant: an interval ends the cycle, whatever is waiting.
IntervalEndsCycle ==
    /\ timer
    /\ timer' = FALSE
    /\ UNCHANGED <<shown, sent, pending, flashes, latest, sets>>

\* flush, by the timer: it sends what is waiting, or stops the cycle.
IntervalEnds ==
    /\ timer
    /\ IF pending = NoSetting
       THEN timer' = FALSE /\ UNCHANGED <<sent, pending>>
       ELSE /\ sent' = [sent EXCEPT ![pending.channel] = pending.level]
            /\ pending' = NoSetting
            /\ UNCHANGED timer
    /\ UNCHANGED <<shown, flashes, latest, sets>>

Counted == sets < SetsMax /\ sets' = sets + 1

\* A slider or Toggle.
SetLevel(c, level) == Counted /\ Transmit(<<Setting(c, level)>>) /\ UNCHANGED flashes

\* All On and All Off.
SetAll(level) ==
    /\ Counted
    /\ Transmit([n \in DOMAIN Channels |-> Setting(Channels[n], level)])
    /\ UNCHANGED flashes

\* flashChannel: to the other end of the range, and back after a while.
Flash(c) ==
    /\ Counted
    /\ flashes' = flashes \cup {Setting(c, shown[c])}
    /\ Transmit(<<Setting(c, IF shown[c] >= 50 THEN 0 ELSE 100)>>)

FlashEnds(s) ==
    /\ flashes' = flashes \ {s}
    /\ Transmit(<<s>>)
    /\ UNCHANGED sets

ThrottleNext ==
    \/ IntervalEnds
    \/ \E c \in ChannelSet : Flash(c) \/ \E level \in Levels : SetLevel(c, level)
    \/ \E level \in {0, 100} : SetAll(level)
    \/ \E s \in flashes : FlashEnds(s)

ThrottleSpec == ThrottleInit /\ [][ThrottleNext]_throttleVars
ThrottleFairness == WF_throttleVars(IntervalEnds)

-----------------------------------------------------------------------------
(* Properties *)

\* However settings, flashes and intervals interleave, once the throttle is
\* idle the controller has been sent the setting made last.
LatestIsSent == ~timer /\ latest # NoSetting => sent[latest.channel] = latest.level

\* page.tsx: the final resting value is always transmitted.  That holds of
\* the channel set last only.
RestingLevelSent == ~timer => sent = shown
=============================================================================
