------------------------------ MODULE VoiceNote ------------------------------
(***************************************************************************)
(* The voice-note recorder of the Nosternity dashboard                     *)
(* (apps/nosternity/assets/src/voice-note.js).  The page is one thread;    *)
(* the hazard is in its callbacks: a microphone permission, a recogniser,  *)
(* a recorder, a timer or a transcription may answer long after the        *)
(* session that asked was cancelled and another one started.  Every await  *)
(* of the code is a session that waits at a `step`, and every callback is  *)
(* an action that may come at any time after it was registered.            *)
(*                                                                         *)
(* Abstracted: levels, durations and sizes (a clip is quiet or voiced, too *)
(* large or not), wording, layout and the counter `sequence`, whose values *)
(* the code never compares: sessions are told apart by identity.           *)
(***************************************************************************)
EXTENDS Naturals, FiniteSets

CONSTANTS Langs,       \* the languages of the language menu
          OnDevice,    \* those the browser can recognise on the device
          FirstLang,   \* the language selected when the page loads
          MaxSessions, \* bound: sessions of one mounted recorder (Press leaves room for a transcription)
          MaxProbes    \* bound: on-device probes of one mounted recorder

ASSUME VoiceAssumption ==
  /\ FirstLang \in Langs
  /\ OnDevice \subseteq Langs
  /\ MaxSessions \in Nat
  /\ MaxProbes \in Nat

None  == 0
Ids   == 1 .. MaxSessions
Modes == {"auto", "server", "browser"}

VARIABLES current,   \* the session that owns the recorder, or None
          used,      \* the sessions started so far are 1 .. used
          sess,      \* every session object, a dead one included: late callbacks hold it
          clip,      \* the session whose recording is on review, or None
          urls,      \* the clips whose object URL is not revoked
          text,      \* the transcript field: the clip it is of, and who wrote it
          retry,     \* the retry button is shown
          page,      \* the menus, and whether the recorder was destroyed
          server,    \* the node's transcription option: "asked", "on", "off"
          local,     \* on-device recognition was confirmed
          probe,     \* the number of the last probe
          probes     \* the probes that have not answered

media   == <<current, used, sess, clip, urls, text, retry>>
setting == <<page, server, local, probe, probes>>
vars    == <<media, setting>>

Phases == {"unused", "over", "requesting", "recording", "finishing", "transcribing"}
Steps  == {"none", "permission", "resume", "recognition", "fetch"}
Unused == [phase |-> "unused", step |-> "none", mode |-> "auto", lang |-> FirstLang,
           mic |-> "none", recorder |-> "none", recog |-> "none", ok |-> FALSE, done |-> FALSE,
           reason |-> "none", of |-> None]
NoText == [of |-> None, by |-> "nobody"]

Session == [phase : Phases, step : Steps, mode : Modes, lang : Langs,
            mic : {"none", "live", "stopped"},
            recorder : {"none", "on", "stopping", "off"},
            recog : {"none", "on", "cut", "ended"},
            ok : BOOLEAN, done : BOOLEAN,
            reason : {"none", "release", "silence", "no-speech", "limit"},
            of : Ids \cup {None}]

TypeOK ==
  /\ current \in Ids \cup {None} /\ clip \in Ids \cup {None}
  /\ used \in 0 .. MaxSessions
  /\ sess \in [Ids -> Session]
  /\ urls \subseteq Ids
  /\ text \in [of : Ids \cup {None}, by : {"nobody", "user", "server", "recogniser"}]
  /\ retry \in BOOLEAN
  /\ page \in [lang : Langs, mode : Modes, disposed : BOOLEAN]
  /\ server \in {"asked", "on", "off"}
  /\ local \in BOOLEAN
  /\ probe \in 0 .. MaxProbes + 1
  /\ probes \subseteq [id : 1 .. MaxProbes, lang : Langs]

Init ==
  /\ current = None /\ used = 0 /\ clip = None /\ urls = {}
  /\ sess = [s \in Ids |-> Unused]
  /\ text = NoText /\ retry = FALSE
  /\ page = [lang |-> FirstLang, mode |-> "auto", disposed |-> FALSE]
  /\ server = "asked" /\ local = FALSE /\ probe = 0 /\ probes = {}

-----------------------------------------------------------------------------
(* What every path shares: releasing a session, forgetting the clip.       *)

Release(r) == [r EXCEPT !.mic = IF @ = "live" THEN "stopped" ELSE @]

(* A session that is over: what its late callbacks could still read stays  *)
(* (the pending await, the recorder, the recogniser); the rest is dropped. *)
Over(r) == [Unused EXCEPT !.phase = "over", !.step = r.step, !.mic = r.mic,
                          !.recorder = r.recorder, !.recog = r.recog, !.of = r.of]

(* cancel: the recogniser and the fetch are aborted, which they report     *)
(* later; a running recorder is stopped, which it reports later.           *)
Dropped(r) == Release(Over([r EXCEPT !.recorder = IF @ = "on" THEN "stopping" ELSE @]))

(* Mutant: the object URL is not revoked                                   *)
ClearClipKeepingUrl ==
  /\ urls' = urls
  /\ clip' = None /\ text' = NoText /\ retry' = FALSE

ClearClip ==
  /\ urls' = urls \ {clip}
  /\ clip' = None /\ text' = NoText /\ retry' = FALSE

CancelIn(table) ==
  /\ sess' = IF current = None THEN table ELSE [table EXCEPT ![current] = Dropped(@)]
  /\ current' = None
  /\ ClearClip
  /\ UNCHANGED used

Keep == UNCHANGED <<clip, urls, text, retry>>
Note(table) == sess' = table /\ UNCHANGED <<current, used>> /\ Keep

-----------------------------------------------------------------------------
(* Starting: permission, then a resumed audio context, then recording.     *)

Press ==
  /\ ~page.disposed /\ current = None /\ used + 1 < MaxSessions
  /\ ClearClip
  /\ used' = used + 1 /\ current' = used'
  /\ sess' = [sess EXCEPT ![used'] =
       [Unused EXCEPT !.phase = "requesting", !.step = "permission",
                      !.mode = page.mode, !.lang = page.lang]]
  /\ UNCHANGED setting

Alive(s) == current = s /\ ~page.disposed

(* Mutant: the permission is not compared with the session on screen       *)
PermissionKept(s) ==
  /\ sess[s].step = "permission"
  /\ Note([sess EXCEPT ![s] = [@ EXCEPT !.step = "resume", !.mic = "live"]])
  /\ UNCHANGED setting

PermissionGranted(s) ==
  /\ sess[s].step = "permission"
  /\ Note([sess EXCEPT ![s] = IF Alive(s)
             THEN [@ EXCEPT !.step = "resume", !.mic = "live"]
             ELSE [@ EXCEPT !.step = "none", !.mic = "stopped"]])
  /\ UNCHANGED setting

(* The permission, the devices, the audio context or the recorder failed:  *)
(* the catch of start.                                                     *)
StartFails(s) ==
  /\ sess[s].step \in {"permission", "resume"}
  /\ LET over == [sess EXCEPT ![s].step = "none"]
     IN IF current = s THEN CancelIn(over) ELSE Note(over)
  /\ UNCHANGED setting

(* recognize: which recogniser, if any, hears this session.                *)
Recognises(r) == r.mode # "server" /\ (r.mode = "auto" => local)
Recognising(r) ==
  IF Recognises(r) THEN [r EXCEPT !.recog = "on", !.ok = TRUE] ELSE r

RecordingBegins(s) ==
  /\ sess[s].step = "resume"
  /\ Note([sess EXCEPT ![s] = IF Alive(s)
             THEN Recognising([@ EXCEPT !.step = "none", !.phase = "recording", !.recorder = "on"])
             ELSE [@ EXCEPT !.step = "none"]])
  /\ UNCHANGED setting

-----------------------------------------------------------------------------
(* While recording: the silence gate, the recogniser, the recorder.        *)

Recording(s) == current = s /\ sess[s].phase = "recording"

(* Mutant: an end in the middle of the recording counts as a good one      *)
RecogniserEndsQuietly(s) ==
  /\ sess[s].recog = "on"
  /\ \E failed \in BOOLEAN :
       Note([sess EXCEPT ![s] = [@ EXCEPT
         !.recog = IF Recording(s) THEN "cut" ELSE "ended",
         !.ok = sess[s].ok /\ ~failed,
         !.done = TRUE]])
  /\ UNCHANGED setting

(* onend, onerror: an end while recording voids what was heard so far.     *)
RecogniserEnds(s) ==
  /\ sess[s].recog = "on"
  /\ \E failed \in BOOLEAN :
       Note([sess EXCEPT ![s] = [@ EXCEPT
         !.recog = IF Recording(s) THEN "cut" ELSE "ended",
         !.ok = sess[s].ok /\ ~failed /\ sess[s].phase # "recording",
         !.done = TRUE]])
  /\ UNCHANGED setting

RecorderData(s) ==
  /\ sess[s].recorder \in {"on", "stopping"}
  /\ \E oversize \in BOOLEAN :
       IF current # s THEN Note(sess)
       ELSE IF oversize THEN CancelIn(sess)
       ELSE Note(sess)
  /\ UNCHANGED setting

RecorderFails(s) ==
  /\ sess[s].recorder \in {"on", "stopping"} /\ current = s
  /\ CancelIn([sess EXCEPT ![s].recorder = "off"])
  /\ UNCHANGED setting

(* stop: while the permission is pending it discards, while recording it   *)
(* asks the recorder to stop and lets the microphone go at once.           *)
Stop(reason) ==
  LET s == current IN
  /\ s # None
  /\ IF sess[s].phase = "requesting" THEN CancelIn(sess)
     ELSE /\ sess[s].phase = "recording"
          /\ Note([sess EXCEPT ![s] = Release([@ EXCEPT
               !.phase = "finishing", !.reason = reason, !.recorder = "stopping"])])
  /\ UNCHANGED setting

Lift == ~page.disposed /\ Stop("release")
GateCloses(reason) == current # None /\ sess[current].phase = "recording" /\ Stop(reason)
HardLimit == GateCloses("limit")

-----------------------------------------------------------------------------
(* Finishing and transcribing.                                             *)

(* transcribe(), called with the clip c on review and no session current.  *)
Transcribe(c, table) ==
  IF server # "on"
  THEN /\ current' = None /\ sess' = table /\ retry' = TRUE /\ UNCHANGED used
  ELSE /\ used' = used + 1 /\ current' = used' /\ retry' = FALSE
       /\ sess' = [table EXCEPT ![used'] =
            [Unused EXCEPT !.phase = "transcribing", !.step = "fetch", !.of = c]]

(* The rest of finish, after the recogniser's last word or its timeout.    *)
(* Whether the clip is worth keeping (speech was heard, data arrived), and *)
(* whether the recogniser heard words in it, is decided here.              *)
Wrap(s, table) ==
  \/ CancelIn(table)
  \/ /\ table[s].reason # "no-speech"
     /\ clip' = s /\ urls' = urls \cup {s}
     /\ \/ /\ table[s].ok
           /\ text' = [of |-> s, by |-> "recogniser"]
           /\ current' = None /\ sess' = [table EXCEPT ![s] = Over(@)]
           /\ UNCHANGED <<used, retry>>
        \/ Transcribe(s, [table EXCEPT ![s] = Over(@)]) /\ UNCHANGED text

RecorderStops(s) ==
  /\ sess[s].recorder \in {"on", "stopping"}
  /\ LET off == [sess EXCEPT ![s].recorder = "off"] IN
     IF current # s THEN Note(off)
     ELSE IF sess[s].phase = "recording" THEN CancelIn(off)
     ELSE IF sess[s].recog # "none" /\ ~sess[s].done
     THEN Note([off EXCEPT ![s].step = "recognition"])
     ELSE Wrap(s, off)
  /\ UNCHANGED setting

(* Mutant: no timeout for the recogniser                                   *)
RecognitionAwaitedForever(s) ==
  /\ sess[s].step = "recognition" /\ sess[s].done
  /\ LET woken == [sess EXCEPT ![s].step = "none"]
     IN IF Alive(s) THEN Wrap(s, woken) ELSE Note(woken)
  /\ UNCHANGED setting

(* The recogniser's last word or, after 1500 ms, its absence.              *)
RecognitionAwaited(s) ==
  /\ sess[s].step = "recognition"
  /\ \E late \in BOOLEAN :
       /\ late \/ sess[s].done
       /\ LET woken == [sess EXCEPT ![s] = [@ EXCEPT !.step = "none", !.ok = sess[s].ok /\ ~late]]
          IN IF Alive(s) THEN Wrap(s, woken) ELSE Note(woken)
  /\ UNCHANGED setting

(* Mutant: the answer is written whoever is current                        *)
AnsweredLate(s, by) ==
  /\ sess[s].step = "fetch"
  /\ sess' = [sess EXCEPT ![s].step = "none"]
  /\ current' = IF current = s THEN None ELSE current
  /\ text' = IF by = "server" THEN [of |-> sess[s].of, by |-> by] ELSE text
  /\ retry' = (retry \/ by # "server")
  /\ UNCHANGED <<used, clip, urls>> /\ UNCHANGED setting

(* The answer of /api/nosternity/voice/transcribe: a transcript, an error, *)
(* or the abort of the 65 s timer.                                         *)
Answered(s, by) ==
  /\ sess[s].step = "fetch"
  /\ sess' = [sess EXCEPT ![s] = Over([@ EXCEPT !.step = "none"])]
  /\ IF Alive(s)
     THEN /\ current' = None
          /\ text' = IF by = "server" THEN [of |-> sess[s].of, by |-> by] ELSE text
          /\ retry' = (retry \/ by # "server")
     ELSE UNCHANGED <<current, text, retry>>
  /\ UNCHANGED <<used, clip, urls>> /\ UNCHANGED setting

Transcribed(s) == Answered(s, "server")
TranscriptionFails(s) == Answered(s, "nobody")

Retry ==
  /\ ~page.disposed /\ retry /\ clip # None /\ current = None /\ used < MaxSessions
  /\ Transcribe(clip, sess)
  /\ UNCHANGED <<clip, urls, text>> /\ UNCHANGED setting

-----------------------------------------------------------------------------
(* The user and the page.                                                  *)

Type ==
  /\ ~page.disposed /\ current = None /\ clip # None
  /\ text' = [of |-> clip, by |-> "user"]
  /\ UNCHANGED <<current, used, sess, clip, urls, retry>> /\ UNCHANGED setting

(* insert: onInsert may throw, and then the transcript stays on review.    *)
Insert ==
  /\ ~page.disposed /\ current = None /\ text # NoText
  /\ ClearClip
  /\ UNCHANGED <<current, used, sess>> /\ UNCHANGED setting

(* cancel button, pointercancel, a hidden tab, pagehide.                   *)
Cancel ==
  /\ ~page.disposed /\ (current # None \/ clip # None)
  /\ CancelIn(sess)
  /\ UNCHANGED setting

(* Mutant: destroy may run twice                                           *)
DestroyTwice ==
  /\ CancelIn(sess)
  /\ page' = [page EXCEPT !.disposed = TRUE]
  /\ probe' = probe + 1
  /\ UNCHANGED <<server, local, probes>>

(* Mutant: destroy does not cancel                                         *)
DestroyBare ==
  /\ ~page.disposed
  /\ page' = [page EXCEPT !.disposed = TRUE]
  /\ probe' = probe + 1
  /\ UNCHANGED media /\ UNCHANGED <<server, local, probes>>

Destroy ==
  /\ ~page.disposed
  /\ CancelIn(sess)
  /\ page' = [page EXCEPT !.disposed = TRUE]
  /\ probe' = probe + 1
  /\ UNCHANGED <<server, local, probes>>

ProbeLocal(lang) ==
  /\ probe < MaxProbes
  /\ probe' = probe + 1 /\ local' = FALSE
  /\ probes' = probes \cup {[id |-> probe', lang |-> lang]}

ChooseLanguage(lang) ==
  /\ ~page.disposed /\ current = None /\ lang # page.lang
  /\ page' = [page EXCEPT !.lang = lang]
  /\ ProbeLocal(lang)
  /\ UNCHANGED media /\ UNCHANGED server

ChooseMode(mode) ==
  /\ ~page.disposed /\ current = None /\ mode # page.mode
  /\ page' = [page EXCEPT !.mode = mode]
  /\ UNCHANGED media /\ UNCHANGED <<server, local, probe, probes>>

(* The answer to /api/nosternity/voice/options, or its failure.            *)
OptionsAnswer ==
  /\ server = "asked" /\ ~page.disposed
  /\ server' \in {"on", "off"}
  /\ ProbeLocal(page.lang)
  /\ UNCHANGED media /\ UNCHANGED page

(* Mutant: the probe's number is not compared                              *)
ProbeAnswersLate(p) ==
  /\ p \in probes
  /\ probes' = probes \ {p}
  /\ IF page.disposed THEN UNCHANGED local
     ELSE local' \in {FALSE, p.lang \in OnDevice}
  /\ UNCHANGED media /\ UNCHANGED <<page, server, probe>>

ProbeAnswers(p) ==
  /\ p \in probes
  /\ probes' = probes \ {p}
  /\ IF page.disposed \/ p.id # probe THEN UNCHANGED local
     ELSE local' \in {FALSE, p.lang \in OnDevice}
  /\ UNCHANGED media /\ UNCHANGED <<page, server, probe>>

Callbacks(s) ==
  \/ PermissionGranted(s) \/ StartFails(s) \/ RecordingBegins(s)
  \/ RecogniserEnds(s)
  \/ RecorderData(s) \/ RecorderFails(s) \/ RecorderStops(s)
  \/ RecognitionAwaited(s) \/ Transcribed(s) \/ TranscriptionFails(s)

User ==
  \/ Press \/ Lift \/ Retry \/ Type \/ Insert \/ Cancel \/ Destroy
  \/ \E lang \in Langs : ChooseLanguage(lang)
  \/ \E mode \in Modes : ChooseMode(mode)

Next ==
  \/ User
  \/ \E s \in Ids : Callbacks(s)
  \/ GateCloses("silence") \/ GateCloses("no-speech") \/ HardLimit
  \/ OptionsAnswer
  \/ \E p \in probes : ProbeAnswers(p)

Spec == Init /\ [][Next]_vars

(* The code's own timers (the recording limit, 1500 ms for the recogniser, *)
(* 65 s for the transcription) and the recorder's stop event.  Nothing is  *)
(* assumed of the user, the permission, the recogniser or the server.      *)
Fairness ==
  /\ WF_vars(HardLimit)
  /\ \A s \in Ids : /\ WF_vars(RecorderStops(s))
                    /\ WF_vars(RecognitionAwaited(s))
                    /\ WF_vars(TranscriptionFails(s))

FairSpec == Spec /\ Fairness
-----------------------------------------------------------------------------
(* A live microphone belongs to the session on screen, which is still      *)
(* asking or recording: a permission granted after the user let go, a      *)
(* cancelled recording or a destroyed recorder never keeps listening.      *)
MicrophoneIsOwned ==
  \A s \in Ids : sess[s].mic = "live" =>
    /\ Alive(s)
    /\ sess[s].phase \in {"requesting", "recording"}

(* The transcript on review is of the clip on review: the answer of an     *)
(* earlier clip's recogniser or transcription never lands on a later one.  *)
TextIsOfTheClip == text.of # None => text.of = clip

(* A recogniser hears audio only where the user allowed it: never in ECAI  *)
(* mode, and in automatic mode only in a language a probe confirmed to be  *)
(* recognised on the device, whatever the order of the probes' answers.    *)
AudioStaysWhereAllowed ==
  \A s \in Ids : current = s /\ sess[s].recog # "none" =>
    /\ sess[s].mode # "server"
    /\ sess[s].mode = "auto" => sess[s].lang \in OnDevice

(* A recogniser that stopped in the middle of the recording heard only a   *)
(* part of it: its words are never shown as the transcript.                *)
PartIsNotTheWhole ==
  text.by = "recogniser" => sess[text.of].recog # "cut"

(* The words on review are the words of the whole recording on review.      *)
TextIsTheRecording == TextIsOfTheClip /\ PartIsNotTheWhole

(* Object URLs do not leak: none but the one of the clip on review lives.  *)
UrlsAreRevoked == urls \subseteq {clip}

(* A destroyed recorder is quiet: no session, no clip, no transcript, and  *)
(* no late callback brings one back.                                       *)
DestroyedIsQuiet ==
  page.disposed => current = None /\ clip = None /\ text = NoText

(* What a clip or the recorder held is given back when it is gone.         *)
NothingLeftBehind == UrlsAreRevoked /\ DestroyedIsQuiet

(* A recording ends: by its limit, then the recorder's stop event, then    *)
(* the recogniser's timer and the transcription's.                         *)
BusyEnds ==
  \A s \in Ids : (current = s /\ sess[s].phase # "requesting") ~> current # s
=============================================================================
