------------------------------ MODULE VoiceInput ------------------------------
(* Voice input and output of the page: the handlers useVoice.ts installs on the  *)
(* browser's speech recognition and synthesis, and what ChatPanel.tsx does with a *)
(* final transcript.  The browser (external) decides when a result, an error or   *)
(* the end of a recognition arrives, also after stop().                           *)
EXTENDS Naturals

CONSTANTS MaxStarts,  \* bound: times the microphone is opened
          MaxTimers   \* bound: UNDERSTANDING timers armed

VARIABLES
  voState,    \* voiceState of the store
  voMic,      \* isListening
  voEngine,   \* the browser's recognition: "off", "on", "stopping"
  voSpeech,   \* the browser's synthesis: "silent", "asked", "sounding"
  voHeard,    \* transcripts the recognition still may deliver: "none", "maybe"
  voTimers,   \* armed timers that end UNDERSTANDING
  voDraft,    \* whether a transcript waits in the composer
  voBusy,     \* whether the agent is at work (the page's agent state)
  voStarts    \* times the microphone was opened

voVars == <<voState, voMic, voEngine, voSpeech, voHeard, voTimers, voDraft, voBusy, voStarts>>
voAgent == <<voDraft, voBusy>>

VoiceInit ==
  /\ voState = "MIC_OFF" /\ voMic = FALSE /\ voEngine = "off" /\ voSpeech = "silent" /\ voHeard = "none"
  /\ voTimers = 0 /\ voDraft = FALSE /\ voBusy = FALSE /\ voStarts = 0

(* ----- The microphone ------------------------------------------------------------ *)
(* startListening: start() of a recognition that has not ended throws, after the  *)
(* speech was cancelled.                                                          *)
StartListening ==
  /\ ~voMic /\ voStarts < MaxStarts /\ voStarts' = voStarts + 1 /\ voSpeech' = "silent"
  /\ IF voEngine = "off"
     THEN voEngine' = "on" /\ voMic' = TRUE /\ voState' = "LISTENING" /\ voHeard' = "maybe"
     ELSE /\ voState' = (IF voState = "SPEAKING" THEN "MIC_OFF" ELSE voState)
          /\ UNCHANGED <<voEngine, voMic, voHeard>>
  /\ UNCHANGED <<voTimers, voAgent>>
(* stop() lets the recognition deliver what it has heard so far.                  *)
StopListening ==
  /\ voMic /\ voMic' = FALSE /\ voState' = "MIC_OFF"
  /\ voEngine' = (IF voEngine = "on" THEN "stopping" ELSE voEngine)
  /\ UNCHANGED <<voSpeech, voHeard, voTimers, voAgent, voStarts>>

Hears == voEngine # "off" /\ voHeard = "maybe" /\ UNCHANGED <<voEngine, voSpeech, voBusy, voStarts>>
Interim == Hears /\ voState' = "VOICE_DETECTED" /\ UNCHANGED <<voMic, voHeard, voTimers, voDraft>>
(* onFinalTranscript: an empty one, one for an agent at rest, one for a busy one. *)
FinalEmpty == Hears /\ voState' = "MIC_OFF" /\ voMic' = FALSE /\ voHeard' = "none" /\ UNCHANGED <<voTimers, voDraft>>
FinalSent ==
  /\ Hears /\ ~voBusy /\ voTimers < MaxTimers
  /\ voState' = "UNDERSTANDING" /\ voTimers' = voTimers + 1
  /\ voDraft' = FALSE /\ voMic' = FALSE /\ voHeard' = "none"
FinalDrafted ==
  Hears /\ voBusy /\ voState' = "MIC_OFF" /\ voDraft' = TRUE /\ voMic' = FALSE /\ voHeard' = "none" /\ UNCHANGED voTimers
UnderstandingEnds ==
  /\ voTimers > 0 /\ voTimers' = voTimers - 1
  /\ voState' = (IF voState = "UNDERSTANDING" THEN "MIC_OFF" ELSE voState)
  /\ UNCHANGED <<voMic, voEngine, voSpeech, voHeard, voAgent, voStarts>>

(* onerror; "aborted" has no message and leaves the state.                        *)
RecognitionFails(message) ==
  /\ voEngine # "off" /\ voHeard = "maybe" /\ voHeard' = "none" /\ voMic' = FALSE
  /\ voState' = (IF message THEN "ERROR" ELSE voState)
  /\ UNCHANGED <<voEngine, voSpeech, voTimers, voAgent, voStarts>>
\* Mutant: onend only knows LISTENING.
EndsListening ==
  /\ voEngine # "off" /\ voEngine' = "off" /\ voMic' = FALSE /\ voHeard' = "none"
  /\ voState' = (IF voState = "LISTENING" THEN "MIC_OFF" ELSE voState)
  /\ UNCHANGED <<voSpeech, voTimers, voAgent, voStarts>>
RecognitionEnds ==
  /\ voEngine # "off" /\ voEngine' = "off" /\ voMic' = FALSE /\ voHeard' = "none"
  /\ voState' = (IF voState \in {"LISTENING", "VOICE_DETECTED"} THEN "MIC_OFF" ELSE voState)
  /\ UNCHANGED <<voSpeech, voTimers, voAgent, voStarts>>

(* ----- Speech --------------------------------------------------------------------- *)
Recognition == <<voMic, voEngine, voHeard, voTimers, voAgent, voStarts>>
(* The effect on messages speaks every reply, whatever the microphone does.       *)
Speak == voSpeech' = "asked" /\ UNCHANGED <<voState, Recognition>>
SpeechStarts == voSpeech = "asked" /\ voSpeech' = "sounding" /\ voState' = "SPEAKING" /\ UNCHANGED Recognition
SpeechEnds ==
  /\ voSpeech = "sounding" /\ voSpeech' = "silent"
  /\ voState' = (IF voState = "SPEAKING" THEN "MIC_OFF" ELSE voState) /\ UNCHANGED Recognition
StopSpeaking ==
  /\ voSpeech' = "silent" /\ voState' = (IF voState = "SPEAKING" THEN "MIC_OFF" ELSE voState)
  /\ UNCHANGED Recognition
AgentTurns == voBusy' = ~voBusy /\ UNCHANGED <<voState, voMic, voEngine, voSpeech, voHeard, voTimers, voDraft, voStarts>>

VoiceNext ==
  \/ StartListening \/ StopListening \/ Interim \/ FinalEmpty \/ FinalSent \/ FinalDrafted
  \/ UnderstandingEnds \/ \E message \in BOOLEAN : RecognitionFails(message)
  \/ RecognitionEnds \/ Speak \/ SpeechStarts \/ SpeechEnds \/ StopSpeaking \/ AgentTurns

VoiceSpec == VoiceInit /\ [][VoiceNext]_voVars
-----------------------------------------------------------------------------
\* The page never shows a live microphone after the recognition has ended,
\* whatever order result, error, stop and end arrive in.
MicShownIsReal ==
  /\ voState \in {"LISTENING", "VOICE_DETECTED"} => voEngine # "off"
  /\ voMic => voEngine = "on"

\* UNDERSTANDING always has a timer that ends it.
UnderstandingPasses == voState = "UNDERSTANDING" => voTimers > 0

\* What the voice button shows is so, and passes (useVoice.ts).
VoiceIsReal == MicShownIsReal /\ UnderstandingPasses
=============================================================================
