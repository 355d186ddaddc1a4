----------------------------- MODULE SoundList -----------------------------
(***************************************************************************)
(* The sounds that play over a call: the list audio_portaudio.c keeps      *)
(* under sound_lock, newest first, the audio callback that mixes it into   *)
(* each buffer, and the phone (iax2.c) that starts and stops the tones of  *)
(* its lines.  Samples are counted, their values are left out.  Each       *)
(* operation runs under sound_lock from its first access to its last.      *)
(*                                                                         *)
(* pa_stop_sound's loop moves on by storing the next node in the link it   *)
(* stands on, which unlinks what it should only pass.  The phone stops     *)
(* by the number of a line and not by the one pa_play_sound returned.      *)
(***************************************************************************)
EXTENDS Integers, Sequences, FiniteSets

CONSTANTS
    Lines,          \* the phone's lines, which it stops sounds by
    FileLen,        \* the samples of a sound file
    ToneLen, ToneRepeat,    \* those of the built-in tone, and its repetitions
    Frames,         \* the samples of one buffer
    MaxId           \* bound: sounds played

(* The code does not test for a file with no samples in it, which would be *)
(* mixed without end with sound_lock held.                                 *)
SoundsAssumption ==
    /\ Lines \subseteq Nat
    /\ ToneRepeat \in Nat /\ MaxId \in Nat
    /\ {FileLen, ToneLen, Frames} \subseteq Nat \ {0}

ASSUME SoundsAssumption

Ring(line)  == <<"ring", line>>     \* the sound of callinfo[line]
CallWaiting == <<"waiting">>
RingBack    == <<"back">>           \* rb_sound
Rings       == {Ring(line) : line \in Lines}
Sounds      == Rings \cup {CallWaiting, RingBack}

(* What a sound was loaded from, and how it plays then. *)
Endless == -1
Clip    == [file |-> [len |-> FileLen, repeat |-> Endless],
            tone |-> [len |-> ToneLen, repeat |-> ToneRepeat],
            none |-> [len |-> 0, repeat |-> 0]]

VARIABLES
    loaded,         \* of each sound, from the file, the tone or from nothing
    sounds,         \* the list, newest first
    nextSoundId,
    released,       \* the sounds whose data the library has freed
    played          \* history: what the last buffer played to its end

vars == <<loaded, sounds, nextSoundId, released, played>>

Length(sound) == Clip[loaded[sound]].len
Times(sound)  == Clip[loaded[sound]].repeat

(* A file that can be seen and not opened gives way to the tone, but not   *)
(* for rb_sound; one that cannot be seen leaves the sound empty.           *)
Ringload ==
    /\ loaded \in [Sounds -> DOMAIN Clip]
    /\ loaded[CallWaiting] = "tone"
    /\ loaded[RingBack] # "tone"

(* A struct iaxc_sound; heard is history, the samples mixed so far. *)
Entry == [id : 1..MaxId, sound : Sounds, channel : {0, 1}, pos : Nat,
          repeat : Nat \cup {Endless}, heard : Nat]

(* Mutant: the numbers of sounds begin with 0. *)
Init_fromZero == Ringload /\ sounds = <<>> /\ nextSoundId = 0 /\ released = {} /\ played = {}

Init == Ringload /\ sounds = <<>> /\ nextSoundId = 1 /\ released = {} /\ played = {}

-----------------------------------------------------------------------------
(* Mutant: the numbers are not moved on. *)
PlaySound_sameId(sound, ring) ==
    /\ nextSoundId <= MaxId
    /\ nextSoundId' = nextSoundId
    /\ sounds' = <<[id |-> nextSoundId, sound |-> sound, channel |-> ring, pos |-> 0,
                    repeat |-> Times(sound), heard |-> 0]>> \o sounds
    /\ played' = {}
    /\ UNCHANGED <<loaded, released>>

PlaySound(sound, ring) ==
    /\ nextSoundId <= MaxId
    /\ nextSoundId' = nextSoundId + 1
    /\ sounds' = <<[id |-> nextSoundId, sound |-> sound, channel |-> ring, pos |-> 0,
                    repeat |-> Times(sound), heard |-> 0]>> \o sounds
    /\ played' = {}
    /\ UNCHANGED <<loaded, released>>

Malloced(S) == {s \in S : loaded[s] # "none"}

With(id) == {k \in DOMAIN sounds : sounds[k].id = id}

(* The sounds in front of the one that is stopped go with it, and the      *)
(* whole list when there is none; only the one found has its data freed.   *)
StopSound(id) ==
    /\ \/ /\ With(id) = {}
          /\ sounds' = <<>> /\ released' = released
       \/ \E k \in With(id) :
             /\ \A j \in With(id) : k <= j
             /\ sounds' = SubSeq(sounds, k + 1, Len(sounds))
             /\ released' = released \cup Malloced({sounds[k].sound})
    /\ played' = {}
    /\ UNCHANGED <<loaded, nextSoundId>>

-----------------------------------------------------------------------------
(* Mutant: sounds that are to repeat for ever end as well. *)
Ended_endless(s) == s.pos = Length(s.sound) /\ s.repeat <= 0

(* Mutant: the last repetition is left out. *)
Ended_early(s) == s.pos = Length(s.sound) /\ s.repeat \in {0, 1}

Ended(s) == s.pos = Length(s.sound) /\ s.repeat = 0
Again(s) == [s EXCEPT !.pos = 0, !.repeat = IF @ = Endless THEN Endless ELSE @ - 1]
Heard(s) == [s EXCEPT !.pos = @ + 1, !.heard = IF s.repeat = Endless THEN @ ELSE @ + 1]

(* One more sample of a sound, unless it is at its end; the code takes a   *)
(* run of them at a time.                                                  *)
Sample(s) ==
    IF Ended(s) THEN s
    ELSE Heard(IF s.pos = Length(s.sound) THEN Again(s) ELSE s)

(* The sound when n samples of the buffer are filled. *)
After(n, s) ==
    LET at[k \in 0..Frames] == IF k = 0 THEN s ELSE Sample(at[k - 1])
    IN  at[n]

(* A sound leaves when it has come to its end with room left in the        *)
(* buffer; one that just fills the buffer leaves with the next.            *)
Leaves(s) == Ended(After(Frames - 1, s))

(* The pointer moves on after a removal too: the sound after the one that  *)
(* was removed is not looked at.                                           *)
Visit(mix, k, channel) ==
    LET s == sounds[k] IN
    IF mix.skip \/ s.channel # channel
    THEN [mix EXCEPT !.list = Append(@, s), !.skip = FALSE]
    ELSE IF Leaves(s)
         THEN [mix EXCEPT !.over = @ \cup {After(Frames, s)}, !.skip = TRUE]
         ELSE [mix EXCEPT !.list = Append(@, After(Frames, s))]

MixFrom(channel) ==
    LET mix[k \in 0..Len(sounds)] ==
            IF k = 0 THEN [list |-> <<>>, over |-> {}, skip |-> FALSE]
            ELSE Visit(mix[k - 1], k, channel)
    IN  mix[Len(sounds)]

MixSounds(channel) ==
    LET mix == MixFrom(channel) IN
    /\ sounds # <<>>
    /\ sounds' = mix.list
    /\ played' = mix.over
    /\ released' = released \cup Malloced({s.sound : s \in mix.over})
    /\ UNCHANGED <<loaded, nextSoundId>>

-----------------------------------------------------------------------------
(* The phone.  A line's ring and the waiting tone go to the ring device. *)
RingStart(line) ==
    \/ PlaySound(CallWaiting, 1)
    \/ PlaySound(Ring(line), 1)
RingBackStart   == PlaySound(RingBack, 0)
RingStop(line)  == StopSound(line)        \* ringstop and ringbackstop

Next ==
    \/ \E line \in Lines : RingStart(line)
    \/ RingBackStart
    \/ \E line \in Lines : RingStop(line)
    \/ \E channel \in {0, 1} : MixSounds(channel)

Spec == Init /\ [][Next]_vars

-----------------------------------------------------------------------------
(* Every entry is a sound within its data; the list is in the order the    *)
(* sounds were played, newest first, under numbers not handed out again.   *)
TypeOK ==
    /\ loaded \in [Sounds -> DOMAIN Clip]
    /\ nextSoundId \in 1..(MaxId + 1)
    /\ released \subseteq Sounds
    /\ sounds \in Seq(Entry)
    /\ \A k \in DOMAIN sounds :
          /\ sounds[k].pos <= Length(sounds[k].sound)
          /\ sounds[k].id < nextSoundId
          /\ \A j \in 1..(k - 1) : sounds[k].id < sounds[j].id

(* A sound that comes to its end was heard in full: its samples once and   *)
(* once more for each repetition, whatever the buffers it was cut into and *)
(* the sounds it played among (pa_mix_sounds).                             *)
PlayedOut ==
    \A s \in played :
        /\ Times(s.sound) # Endless
        /\ s.heard = (Times(s.sound) + 1) * Length(s.sound)

(* A tone that was stopped is not heard: once ringstop or ringbackstop is  *)
(* done (iax2.c:165-178) neither the line's ring nor the ring-back tone is *)
(* on the list, however often and among whatever they were started.  The   *)
(* number given to pa_stop_sound is the line's and not the sound's; that   *)
(* the tone stops all the same rests on numbers that start with 1 and are  *)
(* handed out to the front of the list, and on the loop that unlinks what  *)
(* it passes.  Whether other sounds play on is left open.                  *)
ToneStops ==
    [][\A line \in Lines : RingStop(line) =>
          \A k \in DOMAIN sounds' : sounds'[k].sound \notin {Ring(line), RingBack}]_vars

(* The phone plays its own sounds again after the library has freed their  *)
(* data; of those that never end by themselves this befalls one at most,   *)
(* the one that was played first of all.                                   *)
RingsSurvive ==
    Cardinality({s \in released : Times(s) = Endless}) <= 1
=============================================================================
