--------------------------- MODULE VoiceNoteProofs ---------------------------
(***************************************************************************)
(* What VoiceNote promises of a recorder, proved for every number of       *)
(* sessions, probes and languages.  A late callback finds its own session  *)
(* record and nothing else; the safety of the recorder is that everything  *)
(* of value is tied to `current`, so that the strengthening (Sound) says   *)
(* much of the current session and next to nothing of the others.          *)
(***************************************************************************)
EXTENDS VoiceNote, TLAPS

(* What is known of the session r that owns the recorder.                  *)
Owns(r) ==
  /\ r.phase \in {"requesting", "recording", "finishing", "transcribing"}
  /\ r.step \in {"permission", "resume"} => r.phase = "requesting"
  /\ r.step = "recognition" => r.phase = "finishing"
  /\ r.step = "fetch" => r.phase = "transcribing"
  /\ r.recorder # "none" => r.phase \in {"recording", "finishing"}
  /\ r.phase = "requesting" => r.recog = "none" /\ r.lang = page.lang
  /\ r.phase = "transcribing" => r.recog = "none" /\ r.of = clip /\ clip # None
  /\ r.phase # "transcribing" => clip = None /\ text = NoText /\ used < MaxSessions
  /\ r.ok => r.recog # "cut"
  /\ r.recog # "none" => r.mode # "server" /\ (r.mode = "auto" => r.lang \in OnDevice)

Owner == current # None => current <= used /\ ~page.disposed /\ Owns(sess[current])

(* Sessions are used in order; a clip is of one that is over.              *)
Numbered ==
  /\ \A s \in Ids : s > used => sess[s] = Unused
  /\ clip # None => clip <= used /\ clip # current

Written == (text.by = "nobody") <=> (text.of = None)

(* The last probe asked for the language on screen.                        *)
Probing ==
  /\ local => page.lang \in OnDevice
  /\ \A p \in probes : p.id <= probe /\ (p.id = probe => p.lang = page.lang)
  /\ ~page.disposed => probe <= MaxProbes

Sound ==
  /\ TypeOK /\ Owner /\ Numbered /\ Written /\ Probing
  /\ MicrophoneIsOwned /\ TextIsOfTheClip /\ PartIsNotTheWhole /\ UrlsAreRevoked /\ DestroyedIsQuiet

USE VoiceAssumption

-----------------------------------------------------------------------------
(* Session records.                                                        *)

LEMMA UnusedIsSession ==
  /\ Unused \in Session
  /\ Unused.step = "none" /\ Unused.mic = "none" /\ Unused.recorder = "none" /\ Unused.recog = "none"
  BY DEF Unused, Session, Phases, Steps, Modes

LEMMA OverIsSession ==
  ASSUME NEW r \in Session
  PROVE  /\ Over(r) \in Session
         /\ Over(r).mic = r.mic /\ Over(r).step = r.step
         /\ Over(r).recorder = r.recorder /\ Over(r).recog = r.recog
  BY UnusedIsSession, ZenonT(30) DEF Over, Session, Phases

LEMMA DroppedIsSession ==
  ASSUME NEW r \in Session
  PROVE  /\ Dropped(r) \in Session
         /\ Dropped(r).mic # "live" /\ Dropped(r).recog = r.recog
<1> DEFINE c == [r EXCEPT !.recorder = IF @ = "on" THEN "stopping" ELSE @]
<1>1. c \in Session /\ c.recog = r.recog BY DEF Session
<1> HIDE DEF c
<1>2. Over(c) \in Session /\ Over(c).recog = r.recog BY <1>1, OverIsSession
<1>3. Dropped(r) = Release(Over(c)) BY DEF Dropped, c
<1> QED BY <1>2, <1>3 DEF Release, Session

-----------------------------------------------------------------------------
(* The three ways a step changes a session.                                *)

(* A callback that only notes something in its own session.                *)
LEMMA NoteKeeps ==
  ASSUME Sound, NEW s \in Ids, s <= used, NEW r \in Session,
         Note([sess EXCEPT ![s] = r]), UNCHANGED setting,
         s = current => Owns(r),
         r.mic = "live" => Alive(s) /\ r.phase \in {"requesting", "recording"},
         r.recog = "cut" => s = current \/ sess[s].recog = "cut"
  PROVE  Sound'
<1> USE DEF Sound, Note, Keep, setting, None, Ids
<1>1. /\ sess' \in [Ids -> Session] /\ sess'[s] = r
      /\ \A t \in Ids : t # s => sess'[t] = sess[t]
  BY DEF TypeOK
<1>2. TypeOK' BY <1>1 DEF TypeOK
<1>3. Owner'
  <2>1. CASE current = s BY <2>1, <1>1 DEF Owner, Owns, NoText
  <2>2. CASE current # s BY <2>2, <1>1 DEF Owner, Owns, NoText, TypeOK
  <2> QED BY <2>1, <2>2
<1>4. Numbered' BY <1>1 DEF Numbered, TypeOK
<1>5. Written' /\ Probing' BY DEF Written, Probing
<1>6. MicrophoneIsOwned' BY <1>1 DEF MicrophoneIsOwned, Alive
<1>7. TextIsOfTheClip' /\ UrlsAreRevoked' /\ DestroyedIsQuiet'
  BY DEF TextIsOfTheClip, UrlsAreRevoked, DestroyedIsQuiet
<1>8. PartIsNotTheWhole'
  <2> SUFFICES ASSUME text.by = "recogniser" PROVE sess'[text.of].recog # "cut"
    BY DEF PartIsNotTheWhole
  <2>1. text.of = clip /\ clip \in Ids /\ clip # current
    BY DEF Written, TextIsOfTheClip, Numbered, TypeOK
  <2>2. sess[clip].recog # "cut" BY <2>1 DEF PartIsNotTheWhole
  <2> QED BY <2>1, <2>2, <1>1
<1> QED BY <1>2, <1>3, <1>4, <1>5, <1>6, <1>7, <1>8

(* Cancelling: everything of value is given back.                          *)
LEMMA CancelKeeps ==
  ASSUME Sound, NEW table \in [Ids -> Session], CancelIn(table),
         \A t \in Ids : table[t].mic = sess[t].mic /\ (t > used => table[t] = Unused),
         page' \in [lang : Langs, mode : Modes, disposed : BOOLEAN]
  PROVE  /\ sess' \in [Ids -> Session] /\ used' = used
         /\ current' = None /\ clip' = None /\ text' = NoText /\ urls' = {} /\ retry' = FALSE
         /\ Owner' /\ Numbered' /\ Written'
         /\ MicrophoneIsOwned' /\ TextIsOfTheClip' /\ PartIsNotTheWhole' /\ UrlsAreRevoked' /\ DestroyedIsQuiet'
<1> USE DEF Sound, CancelIn, ClearClip, None, Ids
<1>1. sess' \in [Ids -> Session] /\ \A t \in Ids :
        IF t = current THEN sess'[t] = Dropped(table[t]) ELSE sess'[t] = table[t]
  <2>1. CASE current = None BY <2>1
  <2>2. CASE current # None
    <3>1. current \in Ids BY <2>2 DEF TypeOK
    <3>2. Dropped(table[current]) \in Session BY <3>1, DroppedIsSession
    <3> QED BY <2>2, <3>1, <3>2
  <2> QED BY <2>1, <2>2
<1>2. /\ current' = None /\ clip' = None /\ text' = NoText /\ retry' = FALSE /\ used' = used
  OBVIOUS
<1>3. urls' = {} BY DEF UrlsAreRevoked, TypeOK
<1>4. Owner' /\ Written' /\ TextIsOfTheClip' /\ PartIsNotTheWhole' /\ UrlsAreRevoked' /\ DestroyedIsQuiet'
  BY <1>2, <1>3 DEF Owner, Written, TextIsOfTheClip, PartIsNotTheWhole, UrlsAreRevoked, DestroyedIsQuiet, NoText
<1>5. Numbered' BY <1>1, <1>2 DEF Numbered, Owner, TypeOK
<1>6. MicrophoneIsOwned'
  <2> SUFFICES ASSUME NEW t \in Ids PROVE sess'[t].mic # "live"
    BY DEF MicrophoneIsOwned
  <2>1. CASE t = current BY <2>1, <1>1, DroppedIsSession
  <2>2. CASE t # current BY <2>2, <1>1 DEF MicrophoneIsOwned, Alive
  <2> QED BY <2>1, <2>2
<1> QED BY <1>1, <1>2, <1>3, <1>4, <1>5, <1>6

(* Cancelling with the page as it is.                                      *)
LEMMA PlainCancelKeeps ==
  ASSUME Sound, NEW table \in [Ids -> Session], CancelIn(table), UNCHANGED setting,
         \A t \in Ids : table[t].mic = sess[t].mic /\ (t > used => table[t] = Unused)
  PROVE  Sound'
<1>1. page' \in [lang : Langs, mode : Modes, disposed : BOOLEAN] BY DEF Sound, TypeOK, setting
<1>2. Probing' BY DEF Sound, Probing, setting
<1>3. /\ sess' \in [Ids -> Session] /\ used' = used
      /\ current' = None /\ clip' = None /\ text' = NoText /\ urls' = {} /\ retry' = FALSE
      /\ Owner' /\ Numbered' /\ Written'
      /\ MicrophoneIsOwned' /\ TextIsOfTheClip' /\ PartIsNotTheWhole' /\ UrlsAreRevoked' /\ DestroyedIsQuiet'
  BY <1>1, CancelKeeps
<1>4. TypeOK' BY <1>3 DEF Sound, TypeOK, setting, NoText, Ids, None
<1> QED BY <1>2, <1>3, <1>4 DEF Sound

-----------------------------------------------------------------------------
(* What a callback knows of the session it belongs to.                     *)

LEMMA CallbackFacts ==
  ASSUME Sound, NEW s \in Ids, sess[s] # Unused
  PROVE  /\ sess[s] \in Session /\ s <= used
         /\ s = current <=> Alive(s)
         /\ s = current => Owns(sess[s])
         /\ sess[s].mic = "live" => Alive(s) /\ sess[s].phase \in {"requesting", "recording"}
  BY DEF Sound, TypeOK, Owner, Numbered, MicrophoneIsOwned, Alive, Ids, None

LEMMA NothingChangesKeeps ==
  ASSUME Sound, UNCHANGED vars
  PROVE  Sound'
  BY DEF Sound, TypeOK, Owner, Owns, Numbered, Written, Probing, MicrophoneIsOwned, Alive,
         TextIsOfTheClip, PartIsNotTheWhole, UrlsAreRevoked, DestroyedIsQuiet, vars, media, setting

(* An idle recorder may change its settings: only Probing and the types    *)
(* look at them.                                                           *)
LEMMA SettingKeeps ==
  ASSUME Sound, UNCHANGED media,
         page' = page \/ (current = None /\ page' \in [lang : Langs, mode : Modes, disposed : BOOLEAN]
                                         /\ page'.disposed = page.disposed),
         server' \in {"asked", "on", "off"}, local' \in BOOLEAN,
         probe' \in 0 .. MaxProbes + 1, probes' \subseteq [id : 1 .. MaxProbes, lang : Langs],
         Probing'
  PROVE  Sound'
<1> USE DEF Sound, media, None, Ids
<1>1. TypeOK' BY DEF TypeOK
<1>2. page'.disposed = page.disposed OBVIOUS
<1>3. Owner' BY <1>2 DEF Owner, Owns
<1>4. Numbered' /\ Written' /\ TextIsOfTheClip' /\ PartIsNotTheWhole' /\ UrlsAreRevoked'
  BY DEF Numbered, Written, TextIsOfTheClip, PartIsNotTheWhole, UrlsAreRevoked
<1>5. MicrophoneIsOwned' /\ DestroyedIsQuiet' BY <1>2 DEF MicrophoneIsOwned, Alive, DestroyedIsQuiet
<1> QED BY <1>1, <1>3, <1>4, <1>5

-----------------------------------------------------------------------------
(* Starting and recording.                                                 *)

LEMMA PressKeeps ==
  ASSUME Sound, Press
  PROVE  Sound'
<1> DEFINE new == [Unused EXCEPT !.phase = "requesting", !.step = "permission",
                                 !.mode = page.mode, !.lang = page.lang]
<1> USE DEF None, Ids
<1>1. /\ ~page.disposed /\ current = None /\ used + 1 < MaxSessions /\ UNCHANGED setting
      /\ used' = used + 1 /\ current' = used' /\ sess' = [sess EXCEPT ![used'] = new]
      /\ clip' = None /\ text' = NoText /\ urls' = urls \ {clip} /\ retry' = FALSE
  BY DEF Press, ClearClip
<1>2. new \in Session BY UnusedIsSession DEF Session, Phases, Steps, Sound, TypeOK
<1>3. PICK n \in Session : n = new BY <1>2
<1>4. /\ n.phase = "requesting" /\ n.step = "permission" /\ n.lang = page.lang
      /\ n.mic = "none" /\ n.recorder = "none" /\ n.recog = "none" /\ ~n.ok
  BY <1>3 DEF Unused
<1>5. /\ used' \in Ids /\ used' \in 0 .. MaxSessions /\ used' < MaxSessions
      /\ sess' \in [Ids -> Session] /\ sess'[used'] = n
      /\ \A t \in Ids : t # used' => sess'[t] = sess[t]
  BY <1>1, <1>3 DEF Sound, TypeOK
<1>6. urls' = {} BY <1>1 DEF Sound, UrlsAreRevoked, TypeOK
<1>7. TypeOK'
  <2>1. text' \in [of : Ids \cup {None}, by : {"nobody", "user", "server", "recogniser"}]
    BY <1>1 DEF NoText
  <2> HIDE DEF new
  <2> QED BY <1>1, <1>5, <1>6, <2>1 DEF Sound, TypeOK, setting
<1>8. Owner'
  <2>1. page' = page BY <1>1 DEF setting
  <2>2. Owns(n)' BY <1>1, <1>4, <1>5, <2>1 DEF Owns, NoText
  <2> QED BY <1>1, <1>5, <2>1, <2>2 DEF Owner
<1>9. Numbered' BY <1>1, <1>5 DEF Numbered, Sound, TypeOK
<1>10. Written' /\ Probing' /\ TextIsOfTheClip' /\ PartIsNotTheWhole' /\ UrlsAreRevoked' /\ DestroyedIsQuiet'
  BY <1>1, <1>6 DEF Sound, Written, Probing, TextIsOfTheClip, PartIsNotTheWhole, UrlsAreRevoked,
                    DestroyedIsQuiet, NoText, setting
<1>11. MicrophoneIsOwned'
  <2>1. \A t \in Ids : sess[t].mic # "live" BY <1>1 DEF Sound, MicrophoneIsOwned, Alive
  <2>2. ~page'.disposed BY <1>1 DEF setting
  <2> QED BY <1>1, <1>4, <1>5, <2>1, <2>2 DEF MicrophoneIsOwned, Alive
<1> QED BY <1>7, <1>8, <1>9, <1>10, <1>11 DEF Sound

LEMMA PermissionGrantedKeeps ==
  ASSUME Sound, NEW s \in Ids, PermissionGranted(s)
  PROVE  Sound'
<1> DEFINE r == IF Alive(s) THEN [sess[s] EXCEPT !.step = "resume", !.mic = "live"]
                            ELSE [sess[s] EXCEPT !.step = "none", !.mic = "stopped"]
<1>1. sess[s].step = "permission" /\ sess[s] # Unused BY UnusedIsSession DEF PermissionGranted
<1>2. Note([sess EXCEPT ![s] = r]) /\ UNCHANGED setting BY DEF PermissionGranted, Sound, TypeOK
<1>3. /\ sess[s] \in Session /\ s <= used
      /\ s = current <=> Alive(s)
      /\ s = current => Owns(sess[s])
  BY <1>1, CallbackFacts
<1>4. r \in Session /\ r.recog = sess[s].recog BY <1>3 DEF Session, Steps
<1>5. s = current => Owns(r) BY <1>1, <1>3 DEF Owns, Session
<1>6. r.mic = "live" => Alive(s) /\ r.phase \in {"requesting", "recording"} BY <1>1, <1>3 DEF Owns, Session
<1> HIDE DEF r
<1> QED BY <1>2, <1>3, <1>4, <1>5, <1>6, NoteKeeps

(* A session that only leaves the await it was in.                         *)
LEMMA StepEndsKeeps ==
  ASSUME Sound, NEW s \in Ids, sess[s] # Unused, s # current,
         Note([sess EXCEPT ![s].step = "none"]), UNCHANGED setting
  PROVE  Sound'
<1> DEFINE r == [sess[s] EXCEPT !.step = "none"]
<1>1. sess[s] \in Session /\ s <= used /\ sess[s].mic # "live" BY CallbackFacts
<1>2. r \in Session /\ r.mic # "live" /\ r.recog = sess[s].recog BY <1>1 DEF Session, Steps
<1>3. Note([sess EXCEPT ![s] = r]) BY DEF Sound, TypeOK
<1> HIDE DEF r
<1> QED BY <1>1, <1>2, <1>3, NoteKeeps

LEMMA StartFailsKeeps ==
  ASSUME Sound, NEW s \in Ids, StartFails(s)
  PROVE  Sound'
<1> DEFINE over == [sess EXCEPT ![s].step = "none"]
<1>1. sess[s] # Unused BY UnusedIsSession DEF StartFails
<1>2. UNCHANGED setting BY DEF StartFails
<1>3. sess[s] \in Session /\ s <= used BY <1>1, CallbackFacts
<1>4. CASE current = s
  <2>1. CancelIn(over) BY <1>4 DEF StartFails
  <2>2. over \in [Ids -> Session] BY <1>3 DEF Sound, TypeOK, Session, Steps
  <2>3. \A t \in Ids : over[t].mic = sess[t].mic /\ (t > used => over[t] = Unused)
    BY <1>3 DEF Sound, TypeOK, Numbered, Session, Ids
  <2> HIDE DEF over
  <2> QED BY <1>2, <2>1, <2>2, <2>3, PlainCancelKeeps
<1>5. CASE current # s BY <1>1, <1>2, <1>5, StepEndsKeeps DEF StartFails
<1> QED BY <1>4, <1>5

LEMMA RecordingBeginsKeeps ==
  ASSUME Sound, NEW s \in Ids, RecordingBegins(s)
  PROVE  Sound'
<1> DEFINE b == [sess[s] EXCEPT !.step = "none", !.phase = "recording", !.recorder = "on"]
<1> DEFINE r == IF Alive(s) THEN Recognising(b) ELSE [sess[s] EXCEPT !.step = "none"]
<1>1. sess[s].step = "resume" /\ sess[s] # Unused BY UnusedIsSession DEF RecordingBegins
<1>2. Note([sess EXCEPT ![s] = r]) /\ UNCHANGED setting BY DEF RecordingBegins, Sound, TypeOK
<1>3. /\ sess[s] \in Session /\ s <= used
      /\ s = current <=> Alive(s)
      /\ s = current => Owns(sess[s])
      /\ sess[s].mic = "live" => Alive(s)
  BY <1>1, CallbackFacts
<1>4. /\ b \in Session /\ b.phase = "recording" /\ b.step = "none" /\ b.recorder = "on"
      /\ b.mode = sess[s].mode /\ b.lang = sess[s].lang /\ b.recog = sess[s].recog
      /\ b.mic = sess[s].mic /\ b.of = sess[s].of /\ b.ok = sess[s].ok
  BY <1>3, ZenonT(30) DEF Session, Steps, Phases
<1>5. s = current => /\ sess[s].recog = "none" /\ sess[s].lang = page.lang
                     /\ clip = None /\ text = NoText /\ used < MaxSessions
  BY <1>1, <1>3 DEF Owns
<1>6. local => page.lang \in OnDevice BY DEF Sound, Probing
<1> HIDE DEF b
<1>7. s = current => /\ r \in Session /\ r.phase = "recording" /\ r.mic = sess[s].mic
                     /\ Owns(r) /\ r.recog # "cut"
  <2> SUFFICES ASSUME s = current PROVE /\ r \in Session /\ r.phase = "recording" /\ r.mic = sess[s].mic
                                        /\ Owns(r) /\ r.recog # "cut"
    OBVIOUS
  <2>1. r = Recognising(b) BY <1>3
  <2>2. CASE Recognises(b)
    <3>1. b.mode # "server" /\ (b.mode = "auto" => b.lang \in OnDevice)
      BY <2>2, <1>4, <1>5, <1>6 DEF Recognises
    <3>2. r = [b EXCEPT !.recog = "on", !.ok = TRUE] BY <2>1, <2>2 DEF Recognising
    <3> HIDE DEF r
    <3> QED BY <3>1, <3>2, <1>4, <1>5 DEF Owns, Session
  <2>3. CASE ~Recognises(b)
    <3>1. r = b BY <2>1, <2>3 DEF Recognising
    <3> HIDE DEF r
    <3> QED BY <3>1, <1>4, <1>5 DEF Owns, Session
  <2> QED BY <2>2, <2>3
<1>8. s # current => r \in Session /\ r.mic # "live" /\ r.recog = sess[s].recog
  BY <1>3 DEF Session, Steps
<1> HIDE DEF r
<1> QED BY <1>2, <1>3, <1>7, <1>8, NoteKeeps

LEMMA RecogniserEndsKeeps ==
  ASSUME Sound, NEW s \in Ids, RecogniserEnds(s)
  PROVE  Sound'
<1>1. PICK failed \in BOOLEAN :
        Note([sess EXCEPT ![s] = [@ EXCEPT
          !.recog = IF Recording(s) THEN "cut" ELSE "ended",
          !.ok = sess[s].ok /\ ~failed /\ sess[s].phase # "recording",
          !.done = TRUE]])
  BY DEF RecogniserEnds
<1> DEFINE r == [sess[s] EXCEPT
          !.recog = IF Recording(s) THEN "cut" ELSE "ended",
          !.ok = sess[s].ok /\ ~failed /\ sess[s].phase # "recording",
          !.done = TRUE]
<1>2. sess[s].recog = "on" /\ sess[s] # Unused BY UnusedIsSession DEF RecogniserEnds
<1>3. Note([sess EXCEPT ![s] = r]) /\ UNCHANGED setting BY <1>1 DEF RecogniserEnds, Sound, TypeOK
<1>4. /\ sess[s] \in Session /\ s <= used
      /\ s = current => Owns(sess[s])
      /\ sess[s].mic = "live" => Alive(s) /\ sess[s].phase \in {"requesting", "recording"}
  BY <1>2, CallbackFacts
<1>5. /\ r \in Session /\ r.mic = sess[s].mic /\ r.phase = sess[s].phase /\ r.step = sess[s].step
      /\ r.recorder = sess[s].recorder /\ r.of = sess[s].of /\ r.mode = sess[s].mode /\ r.lang = sess[s].lang
      /\ r.recog = "cut" => s = current /\ sess[s].phase = "recording"
      /\ r.recog \in {"cut", "ended"}
      /\ r.ok => sess[s].phase # "recording"
  BY <1>2, <1>4 DEF Session, Recording
<1> HIDE DEF r
<1>6. s = current => Owns(r) BY <1>2, <1>4, <1>5 DEF Owns
<1> QED BY <1>3, <1>4, <1>5, <1>6, NoteKeeps

(* Cancelling from a callback that also notes something about the recorder.*)
LEMMA CancelNotingKeeps ==
  ASSUME Sound, NEW s \in Ids, s <= used, NEW r \in Session, r.mic = sess[s].mic,
         CancelIn([sess EXCEPT ![s] = r]), UNCHANGED setting
  PROVE  Sound'
<1> DEFINE tb == [sess EXCEPT ![s] = r]
<1>1. tb \in [Ids -> Session] BY DEF Sound, TypeOK
<1>2. \A t \in Ids : tb[t].mic = sess[t].mic /\ (t > used => tb[t] = Unused)
  BY DEF Sound, TypeOK, Numbered, Ids
<1>3. CancelIn(tb) OBVIOUS
<1> HIDE DEF tb
<1> QED BY <1>1, <1>2, <1>3, PlainCancelKeeps

LEMMA CancelAloneKeeps ==
  ASSUME Sound, CancelIn(sess), UNCHANGED setting
  PROVE  Sound'
<1>1. sess \in [Ids -> Session] /\ \A t \in Ids : t > used => sess[t] = Unused
  BY DEF Sound, TypeOK, Numbered
<1> QED BY <1>1, PlainCancelKeeps

LEMMA RecorderDataKeeps ==
  ASSUME Sound, NEW s \in Ids, RecorderData(s)
  PROVE  Sound'
<1>1. UNCHANGED setting /\ (CancelIn(sess) \/ Note(sess)) BY DEF RecorderData
<1>2. Note(sess) => UNCHANGED vars BY <1>1 DEF Note, Keep, vars, media
<1> QED BY <1>1, <1>2, CancelAloneKeeps, NothingChangesKeeps

LEMMA RecorderFailsKeeps ==
  ASSUME Sound, NEW s \in Ids, RecorderFails(s)
  PROVE  Sound'
<1> DEFINE r == [sess[s] EXCEPT !.recorder = "off"]
<1>1. sess[s] # Unused BY UnusedIsSession DEF RecorderFails
<1>2. sess[s] \in Session /\ s <= used BY <1>1, CallbackFacts
<1>3. r \in Session /\ r.mic = sess[s].mic BY <1>2 DEF Session
<1>4. CancelIn([sess EXCEPT ![s] = r]) /\ UNCHANGED setting BY DEF RecorderFails, Sound, TypeOK
<1> HIDE DEF r
<1> QED BY <1>2, <1>3, <1>4, CancelNotingKeeps

LEMMA StopKeeps ==
  ASSUME Sound, NEW reason \in {"release", "silence", "no-speech", "limit"}, Stop(reason)
  PROVE  Sound'
<1> DEFINE s == current
           c == [sess[s] EXCEPT !.phase = "finishing", !.reason = reason, !.recorder = "stopping"]
           r == Release(c)
<1>1. s \in Ids /\ UNCHANGED setting BY DEF Stop, Sound, TypeOK, Ids, None
<1>2. CASE sess[s].phase = "requesting" BY <1>1, <1>2, CancelAloneKeeps DEF Stop
<1>3. CASE sess[s].phase # "requesting"
  <2>1. sess[s].phase = "recording" /\ Note([sess EXCEPT ![s] = r])
    BY <1>1, <1>3 DEF Stop, Sound, TypeOK
  <2>2. sess[s] # Unused BY <2>1 DEF Unused
  <2>3. sess[s] \in Session /\ s <= used /\ Owns(sess[s]) BY <1>1, <2>2, CallbackFacts
  <2>4. /\ c \in Session /\ c.phase = "finishing" /\ c.recorder = "stopping" /\ c.step = sess[s].step
        /\ c.recog = sess[s].recog /\ c.ok = sess[s].ok /\ c.mode = sess[s].mode /\ c.lang = sess[s].lang
        /\ c.of = sess[s].of
    BY <2>3 DEF Session, Phases
  <2> HIDE DEF c
  <2>5. /\ r \in Session /\ r.mic # "live" /\ r.phase = "finishing" /\ r.recorder = "stopping"
        /\ r.step = sess[s].step /\ r.recog = sess[s].recog /\ r.ok = sess[s].ok
        /\ r.mode = sess[s].mode /\ r.lang = sess[s].lang /\ r.of = sess[s].of
    BY <2>4 DEF Release, Session
  <2> HIDE DEF r
  <2>6. Owns(r) BY <2>1, <2>3, <2>5 DEF Owns
  <2> HIDE DEF s
  <2>7. s = current BY DEF s
  <2> QED BY <1>1, <2>1, <2>3, <2>5, <2>6, <2>7, NoteKeeps
<1> QED BY <1>2, <1>3

-----------------------------------------------------------------------------
(* Finishing and transcribing.                                             *)

(* A transcription of the clip c, from a recorder that owns nothing.       *)
LEMMA TranscribeFacts ==
  ASSUME TypeOK, ~page.disposed, used < MaxSessions, UNCHANGED setting,
         NEW c \in Ids, c <= used, clip' = c,
         NEW table \in [Ids -> Session], Transcribe(c, table),
         \A t \in Ids : table[t].mic # "live" /\ (t > used => table[t] = Unused)
  PROVE  /\ sess' \in [Ids -> Session] /\ used' \in 0 .. MaxSessions
         /\ current' \in Ids \cup {None} /\ retry' \in BOOLEAN
         /\ \A t \in Ids : t <= used => sess'[t] = table[t]
         /\ Owner' /\ Numbered' /\ MicrophoneIsOwned'
<1> USE DEF None, Ids
<1>1. page' = page /\ used \in 0 .. MaxSessions BY DEF setting, TypeOK
<1>2. CASE server # "on"
  <2>1. current' = None /\ sess' = table /\ used' = used /\ retry' = TRUE
    BY <1>2 DEF Transcribe
  <2>2. Owner' /\ Numbered' /\ MicrophoneIsOwned'
    BY <1>1, <2>1 DEF Owner, Numbered, MicrophoneIsOwned
  <2> QED BY <1>1, <2>1, <2>2
<1>3. CASE server = "on"
  <2> DEFINE new == [Unused EXCEPT !.phase = "transcribing", !.step = "fetch", !.of = c]
  <2>1. /\ used' = used + 1 /\ current' = used' /\ retry' = FALSE
        /\ sess' = [table EXCEPT ![used'] = new]
    BY <1>3 DEF Transcribe
  <2>2. PICK n \in Session : n = new BY UnusedIsSession DEF Session, Phases, Steps
  <2>3. /\ n.phase = "transcribing" /\ n.step = "fetch" /\ n.of = c
        /\ n.mic = "none" /\ n.recorder = "none" /\ n.recog = "none" /\ ~n.ok
    BY <2>2 DEF Unused
  <2>4. /\ used' \in Ids /\ used' \in 0 .. MaxSessions
        /\ sess' \in [Ids -> Session] /\ sess'[used'] = n
        /\ \A t \in Ids : t # used' => sess'[t] = table[t]
    BY <1>1, <2>1, <2>2
  <2> HIDE DEF new
  <2>5. Owns(n)' BY <1>1, <2>3 DEF Owns
  <2>6. Owner' BY <1>1, <2>1, <2>4, <2>5 DEF Owner
  <2>7. Numbered' BY <1>1, <2>1, <2>4 DEF Numbered
  <2>8. MicrophoneIsOwned' BY <2>3, <2>4 DEF MicrophoneIsOwned
  <2>9. \A t \in Ids : t <= used => sess'[t] = table[t] BY <1>1, <2>1, <2>4
  <2>10. current' \in Ids \cup {None} /\ retry' \in BOOLEAN BY <2>1, <2>4
  <2> QED BY <2>4, <2>6, <2>7, <2>8, <2>9, <2>10
<1> QED BY <1>2, <1>3

(* The end of finish, for the session s on screen and its record r.        *)
LEMMA WrapKeeps ==
  ASSUME Sound, NEW s \in Ids, s = current, sess[s].phase = "finishing",
         NEW r \in Session, r.mic = sess[s].mic, r.ok => r.recog # "cut",
         Wrap(s, [sess EXCEPT ![s] = r]), UNCHANGED setting
  PROVE  Sound'
<1> DEFINE tb   == [sess EXCEPT ![s] = r]
           over == [tb EXCEPT ![s] = Over(@)]
<1> USE DEF None, Ids
<1>1. /\ s <= used /\ ~page.disposed /\ clip = None /\ text = NoText /\ used < MaxSessions
      /\ TypeOK /\ urls = {}
  BY DEF Sound, Owner, Owns, UrlsAreRevoked, TypeOK
<1>2. \A t \in Ids : sess[t].mic # "live" BY DEF Sound, MicrophoneIsOwned, Alive
<1>3. tb \in [Ids -> Session] /\ tb[s] = r BY DEF Sound, TypeOK
<1>4. Over(r) \in Session /\ Over(r).mic = r.mic /\ Over(r).recog = r.recog BY OverIsSession
<1>5. over \in [Ids -> Session] /\ over[s] = Over(r) BY <1>3, <1>4
<1>6. \A t \in Ids : over[t].mic # "live" /\ (t > used => over[t] = Unused)
  BY <1>1, <1>2, <1>4, <1>5 DEF Sound, TypeOK, Numbered
<1>7. CASE CancelIn(tb) BY <1>1, <1>7, CancelNotingKeeps
<1>8. CASE ~CancelIn(tb)
  <2>1. /\ clip' = s /\ urls' = {s}
        /\ \/ /\ r.ok /\ text' = [of |-> s, by |-> "recogniser"]
              /\ current' = None /\ sess' = over /\ used' = used /\ retry' = retry
           \/ Transcribe(s, over) /\ text' = NoText
    BY <1>1, <1>3, <1>8 DEF Wrap
  <2>2. Probing' /\ page' = page BY DEF Sound, Probing, setting
  <2> HIDE DEF over
  <2>3. CASE Transcribe(s, over) /\ text' = NoText
    <3>1. /\ sess' \in [Ids -> Session] /\ used' \in 0 .. MaxSessions
          /\ current' \in Ids \cup {None} /\ retry' \in BOOLEAN
          /\ Owner' /\ Numbered' /\ MicrophoneIsOwned'
      BY <1>1, <1>5, <1>6, <2>1, <2>3, TranscribeFacts
    <3>2. /\ Written' /\ TextIsOfTheClip' /\ PartIsNotTheWhole' /\ UrlsAreRevoked' /\ DestroyedIsQuiet'
      BY <1>1, <2>1, <2>2, <2>3
      DEF Written, TextIsOfTheClip, PartIsNotTheWhole, UrlsAreRevoked, DestroyedIsQuiet, NoText
    <3>3. TypeOK' BY <1>1, <2>1, <2>3, <3>1 DEF TypeOK, NoText, setting
    <3> QED BY <2>2, <3>1, <3>2, <3>3 DEF Sound
  <2>4. CASE /\ r.ok /\ text' = [of |-> s, by |-> "recogniser"]
             /\ current' = None /\ sess' = over /\ used' = used /\ retry' = retry
    <3>1. Owner' /\ MicrophoneIsOwned' /\ Numbered'
      BY <1>1, <1>5, <1>6, <2>1, <2>4 DEF Owner, MicrophoneIsOwned, Numbered
    <3>2. /\ Written' /\ TextIsOfTheClip' /\ PartIsNotTheWhole' /\ UrlsAreRevoked' /\ DestroyedIsQuiet'
      BY <1>1, <1>4, <1>5, <2>1, <2>2, <2>4
      DEF Written, TextIsOfTheClip, PartIsNotTheWhole, UrlsAreRevoked, DestroyedIsQuiet
    <3>3. TypeOK' BY <1>1, <1>5, <2>1, <2>4 DEF TypeOK, setting
    <3> QED BY <2>2, <3>1, <3>2, <3>3 DEF Sound
  <2> QED BY <2>1, <2>3, <2>4
<1> QED BY <1>7, <1>8

LEMMA RecorderStopsKeeps ==
  ASSUME Sound, NEW s \in Ids, RecorderStops(s)
  PROVE  Sound'
<1> DEFINE r == [sess[s] EXCEPT !.recorder = "off"]
           w == [sess[s] EXCEPT !.recorder = "off", !.step = "recognition"]
<1>1. sess[s] # Unused /\ sess[s].recorder \in {"on", "stopping"} /\ UNCHANGED setting
  BY UnusedIsSession DEF RecorderStops
<1>2. /\ sess[s] \in Session /\ s <= used
      /\ s = current <=> Alive(s)
      /\ s = current => Owns(sess[s])
      /\ sess[s].mic = "live" => Alive(s) /\ sess[s].phase \in {"requesting", "recording"}
  BY <1>1, CallbackFacts
<1>3. /\ r \in Session /\ r.mic = sess[s].mic /\ r.recog = sess[s].recog /\ r.ok = sess[s].ok
      /\ w \in Session /\ w.mic = sess[s].mic /\ w.recog = sess[s].recog /\ w.ok = sess[s].ok
      /\ w.phase = sess[s].phase /\ w.step = "recognition" /\ w.recorder = "off"
      /\ w.mode = sess[s].mode /\ w.lang = sess[s].lang /\ w.of = sess[s].of
  BY <1>2 DEF Session, Steps
<1>4. /\ [sess EXCEPT ![s].recorder = "off"] = [sess EXCEPT ![s] = r]
      /\ [[sess EXCEPT ![s].recorder = "off"] EXCEPT ![s].step = "recognition"] = [sess EXCEPT ![s] = w]
  BY DEF Sound, TypeOK
<1> HIDE DEF r, w
<1>5. CASE current # s
  <2>1. Note([sess EXCEPT ![s] = r]) BY <1>4, <1>5 DEF RecorderStops
  <2> QED BY <1>1, <1>2, <1>3, <1>5, <2>1, NoteKeeps
<1>6. CASE current = s /\ sess[s].phase = "recording"
  <2>1. CancelIn([sess EXCEPT ![s] = r]) BY <1>4, <1>6 DEF RecorderStops
  <2> QED BY <1>1, <1>2, <1>3, <2>1, CancelNotingKeeps
<1>7. CASE current = s /\ sess[s].phase # "recording"
  <2>1. Owns(sess[s]) /\ sess[s].phase = "finishing" BY <1>1, <1>2, <1>7 DEF Owns
  <2>2. Note([sess EXCEPT ![s] = w]) \/ Wrap(s, [sess EXCEPT ![s] = r])
    BY <1>4, <1>7 DEF RecorderStops
  <2>3. CASE Note([sess EXCEPT ![s] = w])
    <3>1. Owns(w) BY <1>3, <2>1 DEF Owns
    <3> QED BY <1>1, <1>2, <1>3, <1>7, <2>3, <3>1, NoteKeeps
  <2>4. CASE Wrap(s, [sess EXCEPT ![s] = r])
    <3>1. r.ok => r.recog # "cut" BY <1>3, <2>1 DEF Owns
    <3> QED BY <1>1, <1>3, <1>7, <2>1, <2>4, <3>1, WrapKeeps
  <2> QED BY <2>2, <2>3, <2>4
<1> QED BY <1>5, <1>6, <1>7

LEMMA RecognitionAwaitedKeeps ==
  ASSUME Sound, NEW s \in Ids, RecognitionAwaited(s)
  PROVE  Sound'
<1>1. PICK late \in BOOLEAN :
        LET woken == [sess EXCEPT ![s] = [@ EXCEPT !.step = "none", !.ok = sess[s].ok /\ ~late]]
        IN IF Alive(s) THEN Wrap(s, woken) ELSE Note(woken)
  BY DEF RecognitionAwaited
<1> DEFINE r == [sess[s] EXCEPT !.step = "none", !.ok = sess[s].ok /\ ~late]
<1>2. sess[s] # Unused /\ sess[s].step = "recognition" /\ UNCHANGED setting
  BY UnusedIsSession DEF RecognitionAwaited
<1>3. /\ sess[s] \in Session /\ s <= used
      /\ s = current <=> Alive(s)
      /\ s = current => Owns(sess[s])
      /\ sess[s].mic = "live" => Alive(s) /\ sess[s].phase \in {"requesting", "recording"}
  BY <1>2, CallbackFacts
<1>4. /\ r \in Session /\ r.mic = sess[s].mic /\ r.recog = sess[s].recog /\ (r.ok => sess[s].ok)
  BY <1>3 DEF Session, Steps
<1>5. IF Alive(s) THEN Wrap(s, [sess EXCEPT ![s] = r]) ELSE Note([sess EXCEPT ![s] = r])
  BY <1>1 DEF Sound, TypeOK
<1> HIDE DEF r
<1>6. CASE s = current
  <2>1. sess[s].phase = "finishing" /\ (r.ok => r.recog # "cut") BY <1>2, <1>3, <1>4, <1>6 DEF Owns
  <2> QED BY <1>2, <1>3, <1>4, <1>5, <1>6, <2>1, WrapKeeps
<1>7. CASE s # current BY <1>2, <1>3, <1>4, <1>5, <1>7, NoteKeeps
<1> QED BY <1>6, <1>7

LEMMA AnsweredKeeps ==
  ASSUME Sound, NEW s \in Ids, NEW by \in {"server", "nobody"}, Answered(s, by)
  PROVE  Sound'
<1> DEFINE f == [sess[s] EXCEPT !.step = "none"]
           r == Over(f)
<1> USE DEF None, Ids
<1>1. /\ sess[s] # Unused /\ sess[s].step = "fetch" /\ UNCHANGED setting
      /\ used' = used /\ clip' = clip /\ urls' = urls
  BY UnusedIsSession DEF Answered
<1>2. /\ sess[s] \in Session /\ s <= used
      /\ s = current <=> Alive(s)
      /\ s = current => Owns(sess[s])
      /\ sess[s].mic = "live" => Alive(s) /\ sess[s].phase \in {"requesting", "recording"}
  BY <1>1, CallbackFacts
<1>3. f \in Session /\ f.mic = sess[s].mic /\ f.recog = sess[s].recog BY <1>2 DEF Session, Steps
<1>4. sess' = [sess EXCEPT ![s] = r] BY DEF Answered, Sound, TypeOK
<1> HIDE DEF f
<1>5. r \in Session /\ r.mic = sess[s].mic /\ r.recog = sess[s].recog BY <1>3, OverIsSession
<1> HIDE DEF r
<1>6. /\ sess' \in [Ids -> Session] /\ sess'[s] = r
      /\ \A t \in Ids : t # s => sess'[t] = sess[t]
      /\ TypeOK
  BY <1>4, <1>5 DEF Sound, TypeOK
<1>7. page' = page /\ Probing' BY <1>1 DEF Sound, Probing, setting
<1>8. Numbered /\ Written /\ Owner /\ MicrophoneIsOwned /\ TextIsOfTheClip /\ PartIsNotTheWhole
      /\ UrlsAreRevoked /\ DestroyedIsQuiet
  BY DEF Sound
<1>9. CASE s # current
  <2>1. current' = current /\ text' = text /\ retry' = retry BY <1>2, <1>9 DEF Answered
  <2>2. TypeOK' BY <1>1, <1>6, <2>1 DEF TypeOK, setting
  <2>3. Owner' BY <1>1, <1>6, <1>7, <1>8, <1>9, <2>1 DEF Owner, Owns, TypeOK, NoText
  <2>4. Numbered' /\ Written' /\ TextIsOfTheClip' /\ UrlsAreRevoked' /\ DestroyedIsQuiet'
    BY <1>1, <1>2, <1>6, <1>7, <1>8, <2>1
    DEF Numbered, Written, TextIsOfTheClip, UrlsAreRevoked, DestroyedIsQuiet, TypeOK, NoText
  <2>5. MicrophoneIsOwned' BY <1>2, <1>5, <1>6, <1>7, <1>8, <1>9, <2>1 DEF MicrophoneIsOwned, Alive
  <2>6. PartIsNotTheWhole'
    BY <1>5, <1>6, <1>8, <2>1 DEF PartIsNotTheWhole, TypeOK, Written
  <2> QED BY <1>7, <2>2, <2>3, <2>4, <2>5, <2>6 DEF Sound
<1>10. CASE s = current
  <2>1. /\ current' = None /\ retry' \in BOOLEAN
        /\ text' = IF by = "server" THEN [of |-> sess[s].of, by |-> by] ELSE text
    BY <1>2, <1>10 DEF Answered, TypeOK
  <2>2. sess[s].of = clip /\ clip # None /\ sess[s].phase = "transcribing"
    BY <1>1, <1>2, <1>10 DEF Owns
  <2>3. text' \in {text, [of |-> clip, by |-> "server"]} BY <2>1, <2>2
  <2>4. TypeOK' BY <1>1, <1>6, <2>1, <2>3 DEF TypeOK, setting
  <2>5. Owner' /\ Written' /\ TextIsOfTheClip' /\ UrlsAreRevoked'
    BY <1>1, <1>8, <2>1, <2>2, <2>3 DEF Owner, Written, TextIsOfTheClip, UrlsAreRevoked
  <2>6. Numbered' BY <1>1, <1>2, <1>6, <1>8, <2>1 DEF Numbered, TypeOK
  <2>7. MicrophoneIsOwned' BY <1>2, <1>5, <1>6, <1>7, <1>8, <1>10, <2>2 DEF MicrophoneIsOwned, Alive
  <2>8. PartIsNotTheWhole' BY <1>5, <1>6, <1>8, <2>3 DEF PartIsNotTheWhole, TypeOK, Written
  <2>9. DestroyedIsQuiet' BY <1>2, <1>7, <1>10 DEF DestroyedIsQuiet, Alive
  <2> QED BY <1>7, <2>4, <2>5, <2>6, <2>7, <2>8, <2>9 DEF Sound
<1> QED BY <1>9, <1>10

LEMMA RetryKeeps ==
  ASSUME Sound, Retry
  PROVE  Sound'
<1> USE DEF None, Ids
<1>1. /\ ~page.disposed /\ clip # None /\ current = None /\ used < MaxSessions
      /\ Transcribe(clip, sess) /\ clip' = clip /\ urls' = urls /\ text' = text
      /\ UNCHANGED setting
  BY DEF Retry
<1>2. /\ clip \in Ids /\ clip <= used /\ sess \in [Ids -> Session] /\ TypeOK
      /\ \A t \in Ids : sess[t].mic # "live" /\ (t > used => sess[t] = Unused)
  BY <1>1 DEF Sound, TypeOK, Numbered, MicrophoneIsOwned, Alive
<1>3. PICK c \in Ids : c = clip BY <1>2
<1>4. /\ sess' \in [Ids -> Session] /\ used' \in 0 .. MaxSessions
      /\ current' \in Ids \cup {None} /\ retry' \in BOOLEAN
      /\ \A t \in Ids : t <= used => sess'[t] = sess[t]
      /\ Owner' /\ Numbered' /\ MicrophoneIsOwned'
  <2>1. PICK tb \in [Ids -> Session] : tb = sess BY <1>2
  <2> QED BY <1>1, <1>2, <1>3, <2>1, TranscribeFacts
<1>5. page' = page /\ Probing' BY <1>1 DEF Sound, Probing, setting
<1>6. Written' /\ TextIsOfTheClip' /\ UrlsAreRevoked' /\ DestroyedIsQuiet'
  BY <1>1, <1>5 DEF Sound, Written, TextIsOfTheClip, UrlsAreRevoked, DestroyedIsQuiet
<1>7. PartIsNotTheWhole'
  BY <1>1, <1>2, <1>4 DEF Sound, PartIsNotTheWhole, TextIsOfTheClip, Written, TypeOK
<1>8. TypeOK' BY <1>1, <1>2, <1>4 DEF TypeOK, setting
<1> QED BY <1>4, <1>5, <1>6, <1>7, <1>8 DEF Sound

-----------------------------------------------------------------------------
(* The user and the page.                                                  *)

LEMMA TypeKeeps ==
  ASSUME Sound, Type
  PROVE  Sound'
<1> USE DEF None, Ids
<1>1. /\ current = None /\ clip # None /\ text' = [of |-> clip, by |-> "user"]
      /\ UNCHANGED <<current, used, sess, clip, urls, retry>> /\ UNCHANGED setting
      /\ ~page.disposed
  BY DEF Type
<1>2. page' = page /\ Probing' BY <1>1 DEF Sound, Probing, setting
<1>3. TypeOK' BY <1>1 DEF Sound, TypeOK, setting
<1>4. Owner' /\ Numbered' BY <1>1, <1>2 DEF Sound, Owner, Numbered
<1>5. Written' /\ TextIsOfTheClip' /\ PartIsNotTheWhole' /\ UrlsAreRevoked' /\ DestroyedIsQuiet'
  BY <1>1, <1>2 DEF Sound, Written, TextIsOfTheClip, PartIsNotTheWhole, UrlsAreRevoked, DestroyedIsQuiet
<1>6. MicrophoneIsOwned' BY <1>1, <1>2 DEF Sound, MicrophoneIsOwned, Alive
<1> QED BY <1>2, <1>3, <1>4, <1>5, <1>6 DEF Sound

LEMMA InsertKeeps ==
  ASSUME Sound, Insert
  PROVE  Sound'
<1>1. CancelIn(sess) /\ UNCHANGED setting BY DEF Insert, CancelIn
<1> QED BY <1>1, CancelAloneKeeps

LEMMA DestroyKeeps ==
  ASSUME Sound, Destroy
  PROVE  Sound'
<1>1. /\ ~page.disposed /\ CancelIn(sess) /\ page' = [page EXCEPT !.disposed = TRUE]
      /\ probe' = probe + 1 /\ UNCHANGED <<server, local, probes>>
  BY DEF Destroy
<1>2. /\ page' \in [lang : Langs, mode : Modes, disposed : BOOLEAN]
      /\ page'.disposed /\ page'.lang = page.lang
  BY <1>1 DEF Sound, TypeOK
<1>3. PICK tb \in [Ids -> Session] : tb = sess BY DEF Sound, TypeOK
<1>4. \A t \in Ids : tb[t].mic = sess[t].mic /\ (t > used => tb[t] = Unused)
  BY <1>3 DEF Sound, Numbered
<1>5. CancelIn(tb) BY <1>1, <1>3
<1>6. /\ sess' \in [Ids -> Session] /\ used' = used
      /\ current' = None /\ clip' = None /\ text' = NoText /\ urls' = {} /\ retry' = FALSE
      /\ Owner' /\ Numbered' /\ Written'
      /\ MicrophoneIsOwned' /\ TextIsOfTheClip' /\ PartIsNotTheWhole' /\ UrlsAreRevoked' /\ DestroyedIsQuiet'
  BY <1>2, <1>4, <1>5, CancelKeeps
<1>7. probe \in 0 .. MaxProbes /\ probe' \in 0 .. MaxProbes + 1
  BY <1>1 DEF Sound, Probing, TypeOK
<1>8. Probing' BY <1>1, <1>2, <1>7 DEF Sound, Probing, TypeOK
<1>9. TypeOK' BY <1>1, <1>2, <1>6, <1>7 DEF Sound, TypeOK, NoText, None, Ids
<1> QED BY <1>6, <1>8, <1>9 DEF Sound

LEMMA SettingsKeep ==
  ASSUME Sound,
         \/ \E lang \in Langs : ChooseLanguage(lang)
         \/ \E mode \in Modes : ChooseMode(mode)
         \/ OptionsAnswer
         \/ \E p \in probes : ProbeAnswers(p)
  PROVE  Sound'
<1>0. /\ page \in [lang : Langs, mode : Modes, disposed : BOOLEAN]
      /\ server \in {"asked", "on", "off"} /\ local \in BOOLEAN
      /\ probe \in 0 .. MaxProbes + 1 /\ probes \subseteq [id : 1 .. MaxProbes, lang : Langs]
      /\ Probing
  BY DEF Sound, TypeOK
<1>1. ASSUME NEW lang \in Langs, probe < MaxProbes, ProbeLocal(lang), page'.lang = lang
      PROVE  /\ probe' \in 0 .. MaxProbes + 1 /\ local' \in BOOLEAN
             /\ probes' \subseteq [id : 1 .. MaxProbes, lang : Langs]
             /\ Probing'
  <2>1. probe' = probe + 1 /\ local' = FALSE /\ probes' = probes \cup {[id |-> probe', lang |-> lang]}
    BY <1>1 DEF ProbeLocal
  <2>2. probe' \in 1 .. MaxProbes BY <1>0, <1>1, <2>1
  <2>3. \A p \in probes' : p.id <= probe' /\ (p.id = probe' => p.lang = lang)
    BY <1>0, <2>1 DEF Probing
  <2>4. probes' \subseteq [id : 1 .. MaxProbes, lang : Langs] BY <1>0, <2>1, <2>2
  <2>5. local' \in BOOLEAN /\ ~local' BY <2>1, Zenon
  <2>6. ~page'.disposed => probe' <= MaxProbes BY <2>2
  <2>7. Probing' BY <1>1, <2>3, <2>5, <2>6, Zenon DEF Probing
  <2> QED BY <2>2, <2>4, <2>5, <2>7
<1>2. ASSUME NEW lang \in Langs, ChooseLanguage(lang) PROVE Sound'
  <2>1. /\ current = None /\ UNCHANGED media /\ server' = server /\ ProbeLocal(lang) /\ probe < MaxProbes
        /\ page' \in [lang : Langs, mode : Modes, disposed : BOOLEAN]
        /\ page'.lang = lang /\ page'.disposed = page.disposed
    BY <1>0, <1>2 DEF ChooseLanguage, ProbeLocal
  <2>2. /\ probe' \in 0 .. MaxProbes + 1 /\ local' \in BOOLEAN
        /\ probes' \subseteq [id : 1 .. MaxProbes, lang : Langs] /\ Probing'
    BY <1>1, <2>1
  <2> QED BY <1>0, <2>1, <2>2, SettingKeeps
<1>3. ASSUME NEW mode \in Modes, ChooseMode(mode) PROVE Sound'
  <2>1. /\ current = None /\ UNCHANGED media /\ UNCHANGED <<server, local, probe, probes>>
        /\ page' \in [lang : Langs, mode : Modes, disposed : BOOLEAN]
        /\ page'.lang = page.lang /\ page'.disposed = page.disposed
    BY <1>0, <1>3 DEF ChooseMode
  <2>2. Probing' BY <1>0, <2>1 DEF Probing
  <2> QED BY <1>0, <2>1, <2>2, SettingKeeps
<1>4. ASSUME OptionsAnswer PROVE Sound'
  <2>1. /\ UNCHANGED media /\ page' = page /\ server' \in {"asked", "on", "off"}
        /\ ProbeLocal(page.lang) /\ probe < MaxProbes
    BY <1>4 DEF OptionsAnswer, ProbeLocal
  <2>2. PICK lang \in Langs : lang = page.lang BY <1>0
  <2>3. /\ probe' \in 0 .. MaxProbes + 1 /\ local' \in BOOLEAN
        /\ probes' \subseteq [id : 1 .. MaxProbes, lang : Langs] /\ Probing'
    BY <1>1, <2>1, <2>2
  <2> QED BY <2>1, <2>3, SettingKeeps
<1>5. ASSUME NEW p \in probes, ProbeAnswers(p) PROVE Sound'
  <2>1. /\ UNCHANGED media /\ UNCHANGED <<page, server, probe>> /\ probes' = probes \ {p}
        /\ local' = local \/ (p.id = probe /\ local' \in {FALSE, p.lang \in OnDevice})
    BY <1>5 DEF ProbeAnswers
  <2>2. local' \in BOOLEAN /\ (local' => page'.lang \in OnDevice)
    <3>1. CASE local' = local BY <1>0, <2>1, <3>1, Zenon DEF Probing
    <3>2. CASE p.id = probe /\ local' \in {FALSE, p.lang \in OnDevice}
      <4>1. p.lang = page'.lang BY <1>0, <2>1, <3>2 DEF Probing
      <4>2. local' = FALSE \/ local' = (p.lang \in OnDevice) BY <3>2
      <4>3. CASE local' = FALSE BY <4>3, Zenon
      <4>4. CASE local' = (p.lang \in OnDevice)
        <5>1. (p.lang \in OnDevice) \in BOOLEAN OBVIOUS
        <5>2. local' \in BOOLEAN BY <4>4, <5>1, Zenon
        <5>3. local' => p.lang \in OnDevice BY <4>4, Zenon
        <5> QED BY <4>1, <5>2, <5>3, Zenon
      <4> QED BY <4>2, <4>3, <4>4
    <3> QED BY <2>1, <3>1, <3>2
  <2>3. /\ \A q \in probes' : q.id <= probe' /\ (q.id = probe' => q.lang = page'.lang)
        /\ ~page'.disposed => probe' <= MaxProbes
    <3>1. page' = page /\ probe' = probe /\ \A q \in probes' : q \in probes BY <2>1, Zenon
    <3> QED BY <1>0, <3>1, Zenon DEF Probing
  <2>4. Probing' BY <2>2, <2>3, Zenon DEF Probing
  <2> QED BY <1>0, <2>1, <2>2, <2>4, SettingKeeps
<1> QED BY <1>2, <1>3, <1>4, <1>5

-----------------------------------------------------------------------------
(* The theorems.                                                           *)

LEMMA InitIsSound == Init => Sound
<1> SUFFICES ASSUME Init PROVE Sound OBVIOUS
<1> USE DEF Init, None, Ids, NoText
<1>1. \A s \in Ids : sess[s] = Unused OBVIOUS
<1>2. TypeOK
  <2>1. sess \in [Ids -> Session] BY UnusedIsSession
  <2>2. local \in BOOLEAN BY Zenon
  <2>3. page \in [lang : Langs, mode : Modes, disposed : BOOLEAN] BY DEF Modes
  <2>4. /\ current = None /\ used = 0 /\ clip = None /\ urls = {} /\ text = NoText /\ retry \in BOOLEAN
        /\ server = "asked" /\ probe = 0 /\ probes = {}
    BY Zenon
  <2> HIDE DEF Init
  <2> QED BY <2>1, <2>2, <2>3, <2>4 DEF TypeOK
<1>3. Owner /\ Numbered /\ Written /\ Probing BY <1>1 DEF Owner, Numbered, Written, Probing
<1>4. MicrophoneIsOwned BY <1>1, UnusedIsSession DEF MicrophoneIsOwned
<1>5. TextIsOfTheClip /\ PartIsNotTheWhole /\ UrlsAreRevoked /\ DestroyedIsQuiet
  BY DEF TextIsOfTheClip, PartIsNotTheWhole, UrlsAreRevoked, DestroyedIsQuiet
<1> QED BY <1>2, <1>3, <1>4, <1>5 DEF Sound

LEMMA CallbacksKeep ==
  ASSUME Sound, NEW s \in Ids, Callbacks(s)
  PROVE  Sound'
<1>1. CASE Transcribed(s) BY <1>1, AnsweredKeeps DEF Transcribed
<1>2. CASE TranscriptionFails(s) BY <1>2, AnsweredKeeps DEF TranscriptionFails
<1> QED BY <1>1, <1>2, PermissionGrantedKeeps, StartFailsKeeps, RecordingBeginsKeeps, RecogniserEndsKeeps,
           RecorderDataKeeps, RecorderFailsKeeps, RecorderStopsKeeps, RecognitionAwaitedKeeps
        DEF Callbacks

LEMMA UserKeeps ==
  ASSUME Sound, User
  PROVE  Sound'
<1>1. CASE Lift BY <1>1, StopKeeps DEF Lift
<1>2. CASE Cancel BY <1>2, CancelAloneKeeps DEF Cancel
<1> QED BY <1>1, <1>2, PressKeeps, RetryKeeps, TypeKeeps, InsertKeeps, DestroyKeeps, SettingsKeep DEF User

LEMMA NextKeepsSound == Sound /\ [Next]_vars => Sound'
<1> SUFFICES ASSUME Sound, [Next]_vars PROVE Sound' OBVIOUS
<1>1. CASE UNCHANGED vars BY <1>1, NothingChangesKeeps
<1>2. CASE User BY <1>2, UserKeeps
<1>3. ASSUME NEW s \in Ids, Callbacks(s) PROVE Sound' BY <1>3, CallbacksKeep
<1>4. CASE GateCloses("silence") \/ GateCloses("no-speech") \/ HardLimit
  BY <1>4, StopKeeps DEF GateCloses, HardLimit
<1>5. CASE OptionsAnswer \/ \E p \in probes : ProbeAnswers(p) BY <1>5, SettingsKeep
<1> QED BY <1>1, <1>2, <1>3, <1>4, <1>5 DEF Next

LEMMA AlwaysSound == Spec => []Sound
  BY InitIsSound, NextKeepsSound, PTL DEF Spec

(* Types, for every number of sessions, probes and languages.              *)
THEOREM RecorderTypeCorrect == Spec => []TypeOK
<1>1. Sound => TypeOK BY DEF Sound
<1> QED BY <1>1, AlwaysSound, PTL

(* No microphone stays live behind the user's back: however late a         *)
(* permission is granted, it is released unless its session still asks for *)
(* it.                                                                     *)
THEOREM MicrophoneAlwaysOwned == Spec => []MicrophoneIsOwned
<1>1. Sound => MicrophoneIsOwned BY DEF Sound
<1> QED BY <1>1, AlwaysSound, PTL

(* The words on review are of the recording on review, all of it, whatever *)
(* the order of the late answers.                                          *)
THEOREM TextAlwaysTheRecording == Spec => []TextIsTheRecording
<1>1. Sound => TextIsTheRecording BY DEF Sound, TextIsTheRecording
<1> QED BY <1>1, AlwaysSound, PTL

(* No recogniser hears a session in a language or a mode that was not      *)
(* allowed, whatever the order of the probes' answers.                     *)
THEOREM AudioAlwaysStays == Spec => []AudioStaysWhereAllowed
<1>1. Sound => AudioStaysWhereAllowed
  BY DEF Sound, Owner, Owns, AudioStaysWhereAllowed, None, Ids
<1> QED BY <1>1, AlwaysSound, PTL

(* Object URLs are revoked with their clips, and a destroyed recorder      *)
(* holds nothing.                                                          *)
THEOREM NothingEverLeftBehind == Spec => []NothingLeftBehind
<1>1. Sound => NothingLeftBehind BY DEF Sound, NothingLeftBehind
<1> QED BY <1>1, AlwaysSound, PTL
=============================================================================
