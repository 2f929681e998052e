-------------------------- MODULE CommandPrograms --------------------------
(***************************************************************************)
(* internal/cli: what every command asks of the receiver, in which order.  *)
(*                                                                         *)
(* A command is a set of programs, one for each class of arguments, flags  *)
(* and replies its handler tells apart, and a program is a sequence of     *)
(* steps that CommandRun executes.  The values sent (a volume, a name, a   *)
(* frequency) are left out, and so is what is printed: what a program      *)
(* keeps is which requests are made, which of them change the receiver,    *)
(* what is checked before, which errors are let pass and how often a       *)
(* request may be made.                                                    *)
(***************************************************************************)
EXTENDS Naturals, Sequences

-----------------------------------------------------------------------------
(* Errors are sets of classes: what errors.Is and errors.As would find in  *)
(* the chain.                                                              *)

Errors == {"canceled",    \* context.Canceled
           "cancelled",   \* cancelledError
           "nodevice", "noreceiver", "unreachable", "transport",
           "code",        \* a response_code, and "not YNCA"
           "undefined", "restricted", "validation", "powertimeout", "usage",
           "noreply",     \* ynca.ErrNoReply
           "other"}

-----------------------------------------------------------------------------
(* Requests.  label names a request that changes the receiver; to is what  *)
(* it does to the one switch the command is about (the zone's power, its   *)
(* mute, or seeking), and shrug the errors the operation lets pass.        *)

Get             == [label |-> "", to |-> "none", shrug |-> {}]
GetSwitch       == [Get EXCEPT !.to = "look"]
Probe           == [Get EXCEPT !.to = "probe"]
Lenient(r, set) == [r EXCEPT !.shrug = set]
Put(label)      == [Get EXCEPT !.label = label]
Turn(to)        == [Put("set") EXCEPT !.to = to]

(* Steps.  An operation has a protocol, its requests, whether it runs      *)
(* under rediscovery, when its error is let pass ("no", "always", "live",  *)
(* "cancelled", "lost", "alive") and how many steps are skipped then.      *)

Yxc(reqs) == [do |-> "ask", via |-> "yxc", reqs |-> reqs, again |-> TRUE,
              soft |-> "no", jump |-> 1, refresh |-> FALSE]
Ynca(reqs) == [Yxc(reqs) EXCEPT !.via = "ynca"]
Once(reqs) == [Ynca(reqs) EXCEPT !.again = FALSE]
Soft(step, when) == [step EXCEPT !.soft = when]

SetUp           == [do |-> "setup"]
Show            == [do |-> "show"]
Refuse(error)   == [do |-> "refuse", error |-> error]
UnlessHas(need) == [do |-> "unlesshas", need |-> need]
Demand(need, error) == [do |-> "demand", need |-> need, error |-> error]

\* loadFeatures: the device id first, then the features.
Identify(soft)       == [Yxc(<<Get>>) EXCEPT !.do = "identify", !.soft = soft,
                                             !.jump = 2]
Fetch(refresh, soft) == [Yxc(<<Get>>) EXCEPT !.do = "fetch", !.soft = soft,
                                             !.refresh = refresh]
Load(refresh, soft)  == <<Identify(soft), Fetch(refresh, soft)>>

\* validateAgainstFeatures: a miss is believed only after a refresh.
Validated(refresh, need, error) ==
    Load(refresh, "no") \o <<UnlessHas(need), Fetch(TRUE, "no"), Demand(need, error)>>

\* A feature set offers the thing asked for: the zone or range, the value
\* in it, or no range that excludes the value.  "bare" has no such range or
\* zone, "ranged" has one without the value, "full" one with it.
FeatureSets == {"bare", "ranged", "full"}
Offering == [range |-> {"ranged", "full"}, value |-> {"full"},
             inside |-> {"bare", "full"}]

Shown(programs) == {p \o <<Show>> : p \in programs}
Bad(errors)     == {<<Refuse(e)>> : e \in errors}

-----------------------------------------------------------------------------
(* Single requests over YXC (pkg/yxc/zone.go, netusb.go, tuner.go).        *)

ZoneStatus == <<Yxc(<<Get>>)>>
ZoneSet    == <<Yxc(<<Put("set")>>)>>
SwitchSet(to) == <<Yxc(<<Turn(to)>>)>>
EnableSet  == ZoneSet
NetUSBRead == <<Yxc(<<Get>>)>>
NetUSBSet  == <<Yxc(<<Put("set")>>)>>
TunerRead  == <<Yxc(<<Get>>)>>
TunerSet   == <<Yxc(<<Put("set")>>)>>

\* yxc.Client.SetInput
SetInputOps == {<<Yxc(<<Put("prepare"), Put("set")>>)>>, <<Yxc(<<Put("set")>>)>>}

SleepCmd == Bad({"usage", "validation"}) \cup Shown({ZoneSet})

NetUSBInfoCmd  == Shown({NetUSBRead})
NetUSBVerbCmd  == Shown({NetUSBSet})
TunerStatusCmd == Shown({TunerRead})
PresetListCmd  == Shown({NetUSBRead})
RawCmd         == Bad({"usage"}) \cup Shown({<<Yxc(<<r>>)>> : r \in {Get, Put("set")}})

\* Any transport error, rediscovery's included, is taken for the reboot.
RebootCmd ==
    Bad({"usage"}) \cup Shown({<<Soft(Yxc(<<Put("set")>>), "lost")>>})

\* The toggle writes the opposite of what it read.
MuteCmd ==
    Bad({"usage"})
    \cup Shown({SwitchSet(to) : to \in {"on", "off"}}
               \cup {<<Yxc(<<GetSwitch>>)>> \o SwitchSet("inverse")})

-----------------------------------------------------------------------------
(* Commands that consult the features.                                     *)

\* Only the absolute form reads the range, and it parses the number last.
VolumeCmd ==
    Bad({"usage"}) \cup Shown({ZoneSet})
    \cup LET absolute == Load(FALSE, "no") \o <<Demand("range", "other")>>
         IN  {absolute \o <<Refuse("usage")>>} \cup Shown({absolute \o ZoneSet})

InputListing(refresh) == Load(refresh, "no") \o <<Soft(Yxc(<<Get>>), "live")>>
InputCmd ==
    Shown({InputListing(r) : r \in BOOLEAN}
          \cup {Validated(r, "value", "validation") \o set :
                    r \in BOOLEAN, set \in SetInputOps})

SoundCmd ==
    Shown({Load(r, "no") : r \in BOOLEAN}
          \cup {Validated(r, "value", "validation") \o ZoneSet : r \in BOOLEAN})
DecoderCmd == SoundCmd

\* A missing zone is refreshed once; a scene out of range is not.
SceneCmd ==
    Bad({"usage"})
    \cup Shown({Validated(r, "range", "usage") \o <<Demand("value", e)>> \o ZoneSet :
                    r \in BOOLEAN, e \in {"usage", "validation"}})

ToneCmd ==
    Bad({"usage"})
    \cup Shown({EnableSet}
               \cup {Validated(r, "range", "other") \o <<Demand("value", "validation")>>
                         \o EnableSet : r \in BOOLEAN})

ZoneSwitchCmd ==
    Bad({"usage"})
    \cup Shown({Load(r, "always") \o <<Demand("value", "usage")>> \o EnableSet :
                    r \in BOOLEAN})

\* validateTunerFreq, validateNetUSBPreset, tunerPresetMax: unknown is let pass.
Capped == Load(FALSE, "always") \o <<Demand("inside", "validation")>>

TunerFreqCmd    == Bad({"usage"}) \cup Shown({Capped \o TunerSet})
PresetRecallCmd == Bad({"usage", "validation"}) \cup Shown({Capped \o NetUSBSet})

\* resolveTunerBand: the band given, or the receiver's, or else fm.
TunerBand == {<<>>, <<Soft(Yxc(<<Get>>), "always")>>}

TunerPresetCmd ==
    Bad({"usage"}) \cup Shown({band \o Capped \o TunerSet : band \in TunerBand})
TunerPresetsCmd ==
    Bad({"usage"}) \cup Shown({band \o TunerRead : band \in TunerBand})

StatusCmd == Shown({ZoneStatus \o Load(FALSE, "always")})
InfoCmd   == Shown({ZoneStatus \o Load(r, "always") : r \in BOOLEAN})

-----------------------------------------------------------------------------
(* Commands of several steps.                                              *)

\* waitForPowerOn; a toggle that found the zone on does not wait.
WaitForPowerOn == [Yxc(<<GetSwitch>>) EXCEPT !.do = "wait"]
UnlessWasOn    == [do |-> "unlesson"]

PowerCmd ==
    Bad({"usage"})
    \cup Shown({SwitchSet("boot") \o <<WaitForPowerOn>>,
                <<Yxc(<<GetSwitch>>)>> \o SwitchSet("toggle") \o <<UnlessWasOn, WaitForPowerOn>>}
               \cup {SwitchSet(to) : to \in {"boot", "off", "toggle"}})

\* runFastSeek: a start that failed is an error unless it was cancelled, and
\* the end is sent after the bracket whatever ended it.
Hold    == [do |-> "hold"]
Release == [Yxc(<<[Turn("off") EXCEPT !.label = "end"]>>) EXCEPT !.do = "release"]
FastSeekCmd ==
    Shown({<<Soft(Yxc(<<Turn("on")>>), "cancelled"), Hold, Release>>})

-----------------------------------------------------------------------------
(* Commands over YNCA.                                                     *)

Settle        == Ynca(<<Probe>>)
YncaSet(reqs) == <<Settle, Once(reqs)>>
YncaChange    == YncaSet(<<Put("set")>>)

\* pkg/ynca: what the functions of its files send.  A read-out takes its first
\* answer as decisive; the rest is left out if refused.
YncaZoneSet       == YncaChange
YncaSwitchSet(to) == YncaSet(<<Turn(to)>>)
YncaBasic         == <<Probe, Get>>
YncaFeatureSet    == YncaChange
YncaSceneNames    == <<Get>>
YncaTunerSet      == YncaChange
YncaTunerRead     == <<Get, Lenient(Get, Errors)>>
YncaNowPlaying    == <<Get, Lenient(Get, Errors)>>
YncaPlayback      == YncaChange

\* The toggles read and write on the one connection, outside rediscovery.
YncaPowerCmd ==
    Bad({"usage"})
    \cup Shown({YncaSwitchSet(to) : to \in {"on", "off"}}
               \cup {YncaSet(<<GetSwitch, Turn("inverse")>>)})
YncaSystemPowerCmd == YncaPowerCmd

\* A wrong argument is found only inside the operation.
YncaMuteCmd ==
    {<<Settle, Refuse("usage")>>}
    \cup Shown({YncaSwitchSet(to) : to \in {"on", "off"}}
               \cup {YncaSet(<<GetSwitch, Turn("inverse")>>)})

YncaRawCmd      == Bad({"usage"}) \cup {<<>>, YncaChange}
YncaStatusCmd   == Shown({<<Ynca(YncaBasic)>>})
YncaVolumeCmd   == Bad({"usage"}) \cup Shown({YncaZoneSet})
YncaInputCmd    == Bad({"usage"}) \cup Shown({<<>>, YncaZoneSet})
YncaSoundCmd    == YncaInputCmd
YncaDecoderCmd  == {<<Settle, Refuse("other")>>} \cup Shown({<<>>, YncaFeatureSet})
YncaDSPCmd      == Bad({"usage"}) \cup Shown({YncaFeatureSet})
YncaSleepCmd    == Bad({"usage", "validation"}) \cup Shown({YncaFeatureSet})
YncaSceneCmd    == Bad({"usage"}) \cup Shown({<<Ynca(YncaSceneNames)>>, YncaFeatureSet})
YncaTunerBandCmd   == Bad({"usage"}) \cup Shown({YncaTunerSet})
YncaTunerFMCmd     == YncaTunerBandCmd
YncaTunerAMCmd     == YncaTunerBandCmd
YncaTunerPresetCmd == YncaTunerBandCmd
YncaToneCmd ==
    Bad({"usage"}) \cup Shown({YncaSet(<<Put("bass"), Put("treble")>>), YncaFeatureSet})

YncaTunerStatusCmd == Shown({<<Ynca(YncaTunerRead)>>})

\* resolveYncaSource: a source given is mapped, otherwise the input is read.
YncaSource == {<<>>, <<Get>>}
NotASource == {IF reqs = <<>> THEN <<Refuse("usage")>> ELSE <<Ynca(reqs), Refuse("usage")>> :
                   reqs \in YncaSource}
YncaNowPlayingCmd ==
    NotASource
    \cup Shown({<<Ynca(source \o YncaNowPlaying)>> : source \in YncaSource})
YncaTransportCmd ==
    NotASource
    \cup Shown({(IF source = <<>> THEN <<>> ELSE <<Ynca(source)>>) \o YncaPlayback :
                    source \in YncaSource})

\* Model, version, then one request per subunit whose refusal is an answer.
YncaInfoCmd ==
    Shown({<<Ynca(<<Get, Lenient(Probe, Errors),
                    Lenient(Get, {"undefined", "restricted"})>>)>>})

\* A line that fails is noted and the next is sent, without the pause that
\* would notice Ctrl-C, unless the receiver is gone.
Pause    == [do |-> "pause"]
DumpLine == <<[Soft(Once(<<Get>>), "alive") EXCEPT !.jump = 2], Pause>>
YncaDumpCmd ==
    Bad({"usage", "other"})
    \cup {<<Settle, Refuse("other")>>, <<Settle>> \o DumpLine \o DumpLine}

\* Every line is sent, and its error printed, until the input ends.
ReplLine    == Soft(Once(<<Put("set")>>), "always")
YncaReplCmd == {<<Settle>>, <<Settle, ReplLine>>}

\* Neither of these reaches the receiver.
YncaListCmd == Bad({"usage"}) \cup Shown({<<>>})
YncaDiffCmd == Bad({"other"}) \cup Shown({<<>>})

-----------------------------------------------------------------------------
\* Wrong flags or arguments end a command before its set-up, with either
\* class: cobra's messages are recognised by their text.
Misused == Bad({"usage", "other"})

\* needsDevice
Offline == YncaListCmd \cup YncaDiffCmd \cup Misused

YxcCommands ==
    UNION {SleepCmd, NetUSBInfoCmd, NetUSBVerbCmd, TunerStatusCmd, PresetListCmd,
           RawCmd, RebootCmd, MuteCmd, VolumeCmd, InputCmd, SoundCmd, DecoderCmd,
           SceneCmd, ToneCmd, ZoneSwitchCmd, TunerFreqCmd, PresetRecallCmd,
           TunerPresetCmd, TunerPresetsCmd, StatusCmd, InfoCmd, PowerCmd, FastSeekCmd}
YncaCommands ==
    UNION {YncaPowerCmd, YncaSystemPowerCmd, YncaMuteCmd, YncaRawCmd, YncaStatusCmd,
           YncaVolumeCmd, YncaInputCmd, YncaSoundCmd, YncaDecoderCmd, YncaDSPCmd,
           YncaSleepCmd, YncaSceneCmd, YncaTunerBandCmd, YncaTunerFMCmd,
           YncaTunerAMCmd, YncaTunerPresetCmd, YncaToneCmd, YncaTunerStatusCmd,
           YncaNowPlayingCmd, YncaTransportCmd, YncaInfoCmd, YncaDumpCmd, YncaReplCmd}

Programs == {<<SetUp>> \o p : p \in YxcCommands \cup YncaCommands} \cup Offline

-----------------------------------------------------------------------------
(* What every program keeps to.  Programs has no parameter and is finite,  *)
(* so that TLC, which evaluates the assumption below, decides it.          *)

Operations == {"ask", "wait", "release", "identify", "fetch"}
Labels     == {"prepare", "set", "end", "bass", "treble"}

Request == [label : Labels \cup {""},
            to : {"none", "look", "probe", "on", "off", "boot", "toggle", "inverse"},
            shrug : SUBSET Errors]

\* A step has what its kind needs.  A change is asked for by a step that is
\* no poll, its refusal is never an answer, and over YNCA it is not run again
\* by rediscovery; nor is a refusal of the features an answer.
Formed(s) ==
    /\ s.do \in {"setup", "show", "refuse", "demand", "unlesshas", "unlesson", "hold", "pause"}
                \cup Operations
    /\ s.do \in {"refuse", "demand"} => s.error \in {"usage", "validation", "other"}
    /\ s.do \in {"demand", "unlesshas"} => s.need \in {"range", "value", "inside"}
    /\ s.do \in Operations =>
          /\ s.via \in {"yxc", "ynca"}
          /\ s.again \in BOOLEAN /\ s.refresh \in BOOLEAN
          /\ s.soft \in {"no", "always", "live", "cancelled", "lost", "alive"}
          /\ s.jump \in 1..2
          /\ s.reqs \in Seq(Request) /\ Len(s.reqs) \in 1..3
          /\ \A j \in 1..Len(s.reqs) : s.reqs[j].label # "" =>
                /\ s.do \in {"ask", "release"}
                /\ s.reqs[j].shrug = {}
                /\ s.via = "ynca" => ~s.again
          /\ s.do = "fetch" => \A j \in 1..Len(s.reqs) : s.reqs[j].shrug = {}

\* The request j of step i of p is the change l.
Place(p, i, j, l) ==
    /\ i \in 1..Len(p) /\ p[i].do \in Operations
    /\ j \in 1..Len(p[i].reqs) /\ p[i].reqs[j].label = l

Sequenced(p) ==
    /\ Len(p) \in Nat \ {0} /\ DOMAIN p = 1..Len(p)
    /\ \A i \in 1..Len(p) : Formed(p[i]) /\ (p[i].do = "setup" => i = 1)

\* A change is asked for in one place.
EachOnce(p) ==
    \A l \in Labels, i1, i2 \in 1..Len(p), j1, j2 \in 1..3 :
        Place(p, i1, j1, l) /\ Place(p, i2, j2, l) => i1 = i2 /\ j1 = j2

\* What may be skipped changes nothing.
Skips(s) == s.do \in {"unlesshas", "unlesson"} \/ (s.do \in Operations /\ s.jump = 2)
SkipsNoChange(p) ==
    \A i \in 1..Len(p) : i + 1 \in 1..Len(p) /\ Skips(p[i]) => p[i + 1].do \notin {"ask", "release"}

\* Arguments are refused before anything is changed.
RefusesFirst(p) ==
    \A i \in 1..Len(p) :
        p[i].do \in {"refuse", "demand"} /\ p[i].error \in {"usage", "validation"} =>
            \A k \in 1..(i - 1), j \in 1..3, l \in Labels : ~Place(p, k, j, l)

\* prepareInputChange before setInput, bass before treble, in one operation.
Ordered(p) ==
    \A i \in 1..Len(p), j \in 1..3 :
        /\ Place(p, i, j, "set") =>
              \A k \in 1..Len(p), n \in 1..3 : Place(p, k, n, "prepare") => k = i /\ n < j
        /\ Place(p, i, j, "treble") => \E n \in 1..(j - 1) : Place(p, i, n, "bass")

\* A toggle reads before it writes, and writes nothing else.
Inverts(p, i, j) ==
    i \in 1..Len(p) /\ p[i].do \in Operations /\ j \in 1..Len(p[i].reqs) /\ p[i].reqs[j].to = "inverse"
Toggles(p) ==
    \A i \in 1..Len(p), j \in 1..3 : Inverts(p, i, j) =>
        /\ p[i].do = "ask" /\ p[i].soft = "no" /\ p[i].reqs[j].label = "set"
        /\ \A k \in 1..Len(p) : p[k].do \in Operations => \A n \in 1..Len(p[k].reqs) :
              /\ p[k].reqs[n].to \in {"none", "look", "probe", "inverse"}
              /\ p[k].reqs[n].to = "look" => k < i \/ (k = i /\ n < j /\ ~p[i].again)

\* A fast seek: start, bracket, end.
Seeks(p) ==
    \A i \in 1..Len(p) : p[i].do = "release" =>
        /\ i = 4 /\ Len(p) = 5
        /\ p[1].do = "setup"
        /\ p[2].do = "ask" /\ p[2].soft = "cancelled" /\ Len(p[2].reqs) = 1
        /\ p[2].jump = 1 /\ p[2].reqs[1].to = "on" /\ p[2].reqs[1].shrug = {}
        /\ p[3].do = "hold"
        /\ p[4].soft = "no" /\ Len(p[4].reqs) = 1 /\ p[4].reqs[1].label = "end"
        /\ p[4].reqs[1].to = "off" /\ p[4].reqs[1].shrug = {}
        /\ p[5].do = "show"

\* A feature that is missing is believed missing after a reload, which only the
\* first may fail.
Refreshes(p) ==
    \A i \in 1..Len(p) : p[i].do = "demand" =>
        /\ i \in 2..(Len(p) - 1)
        /\ p[i - 1].do = "fetch" /\ p[i - 1].refresh =>
              \/ \A k \in 1..(i - 2) : p[k].do # "fetch"
              \/ /\ p[i - 1].soft = "no"
                 /\ i > 2 /\ p[i - 2].do = "unlesshas" /\ p[i - 2].need = p[i].need

ASSUME ProgramsAssumption ==
    \A p \in Programs :
        /\ Sequenced(p) /\ EachOnce(p) /\ SkipsNoChange(p) /\ RefusesFirst(p)
        /\ Ordered(p) /\ Toggles(p) /\ Seeks(p) /\ Refreshes(p)

=============================================================================
