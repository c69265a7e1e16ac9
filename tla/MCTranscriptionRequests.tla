----------------------- MODULE MCTranscriptionRequests -----------------------
(* Constants for the runs of TranscriptionRequests. *)
EXTENDS TranscriptionRequests

\* Four attempts, not six, when nothing takes any time: time decides nothing.
NoPauses == <<0, 0, 0>>
AtOnce == [r \in Routes |-> 0]

\* DEFAULT_BACKOFF_SECONDS
DefaultBackoffSeconds == <<2, 4, 8, 16, 32>>

\* The timeouts of the probe (60) and of ffmpeg (1800), and five minutes for the
\* download of up to 4 GB and the upload of the converted audio.  Content
\* Understanding is given the URL at once.
LongPreparation == [fast |-> 2160, batch |-> 2160, contentUnderstanding |-> 0]

\* SPEECH_READ_SAS_TTL_MINUTES and AZURE_BATCH_TRANSCRIPTION_SOURCE_SAS_TTL_MINUTES
DefaultReadTtl == [fast |-> 5400, batch |-> 90000, contentUnderstanding |-> 5400]
=============================================================================
