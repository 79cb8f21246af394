--------------------------- MODULE TransferProofs ---------------------------
(***************************************************************************)
(* Type correctness, the safety invariants of Transfer, and that a Start   *)
(* is accepted, for any share and any bounds on what the user does.        *)
(***************************************************************************)
EXTENDS Transfer, SequenceTheorems, TLAPS

LEMMA RemoveAtType ==
    ASSUME NEW S, NEW s \in Seq(S), NEW i \in DOMAIN s
    PROVE  RemoveAt(s, i) \in Seq(S)
<1>1. i \in 1..Len(s)
  OBVIOUS
<1>2. SubSeq(s, 1, i - 1) \in Seq(S)
  BY <1>1, SubSeqProperties
<1>3. SubSeq(s, i + 1, Len(s)) \in Seq(S)
  BY <1>1, SubSeqProperties
<1>. QED
  BY <1>2, <1>3, ConcatProperties DEF RemoveAt

LEMMA TellType ==
    ASSUME NEW S, NEW q \in Seq(S), NEW m \in S, linkUp \in BOOLEAN
    PROVE  Tell(q, m) \in Seq(S)
BY DEF Tell

LEMMA Constants ==
    /\ Size \in Seq(Nat \ {0})
    /\ Len(Size) \in Nat \ {0}
    /\ Files = 1..Len(Size)
    /\ \A f \in Files : Size[f] \in Nat \ {0}
    /\ FullChunk \in Nat
    /\ \A f \in Files : LastChunk[f] \in Nat
    /\ MaxAttempts \in Nat /\ MaxDownloads \in Nat
    /\ MaxPauses \in Nat /\ MaxGuesses \in Nat
BY TransferAssumption DEF TransferAssumption, Files

----------------------------------------------------------------------------
(* Types                                                                   *)

LinkOK ==
    /\ linkUp \in BOOLEAN
    /\ toUploader \in Seq(UpMessages)
    /\ toDownloader \in Seq(DownMessages)

UpOK ==
    /\ upOpen \in BOOLEAN /\ counted \in BOOLEAN /\ sendingPaused \in BOOLEAN
    /\ status \in Statuses
    /\ sendingFile \in Files \cup {NoFile}

LoopsOK == loops \in Seq(Loops)

\* Every verdict that is awaited has been counted as an attempt.
CountsOK ==
    /\ verdicts \in Nat /\ attempts \in Nat /\ others \in Nat
    /\ verdicts <= attempts /\ attempts <= MaxAttempts /\ others <= MaxDownloads

UserOK ==
    /\ asked \in BOOLEAN /\ info \in BOOLEAN /\ started \in BOOLEAN
    /\ stopped \in BOOLEAN /\ paused \in BOOLEAN
    /\ guesses \in Nat /\ guesses <= MaxGuesses
    /\ pauses \in Nat /\ pauses <= MaxPauses

FilesOK ==
    /\ active \in Files \cup {NoFile}
    /\ expected \in [Files -> Nat]
    /\ received \in [Files -> Nat]
    /\ completed \subseteq Files
    /\ written \in [Files -> Seq(Nat)]

ChunksOK == chain \in Seq(Chunks) /\ decrypting \in Seq(Chunks)

EndsOK == downOpen \in BOOLEAN /\ done \in BOOLEAN /\ closed \subseteq Files

TypeInv ==
    /\ LinkOK /\ UpOK /\ LoopsOK /\ CountsOK
    /\ UserOK /\ FilesOK /\ ChunksOK /\ EndsOK
    /\ cut \in BOOLEAN

InfosOK == composing \in Nat /\ opening \in Nat

LEMMA TypesOK == TypeInv /\ InfosOK => TypeOK
<1>. SUFFICES ASSUME TypeInv, InfosOK PROVE TypeOK
  OBVIOUS
<1>1. {linkUp, upOpen, counted, sendingPaused, downOpen, asked, info, started,
       stopped, paused, done, cut} \subseteq BOOLEAN
  BY DEF TypeInv, LinkOK, UpOK, UserOK, EndsOK
<1>2. verdicts \in 0..MaxAttempts /\ attempts \in 0..MaxAttempts
      /\ others \in 0..MaxDownloads
  BY Constants DEF TypeInv, CountsOK
<1>3. guesses \in 0..MaxGuesses /\ pauses \in 0..MaxPauses
  BY Constants DEF TypeInv, UserOK
<1>4. /\ toUploader \in Seq(UpMessages)
      /\ toDownloader \in Seq(DownMessages)
      /\ loops \in Seq(Loops)
      /\ chain \in Seq(Chunks)
      /\ decrypting \in Seq(Chunks)
  BY DEF TypeInv, LinkOK, LoopsOK, ChunksOK
<1>5. status \in Statuses /\ sendingFile \in Files \cup {NoFile}
  BY DEF TypeInv, UpOK
<1>6. /\ active \in Files \cup {NoFile}
      /\ expected \in [Files -> Nat]
      /\ received \in [Files -> Nat]
      /\ completed \subseteq Files
      /\ written \in [Files -> Seq(Nat)]
      /\ closed \subseteq Files
  BY DEF TypeInv, FilesOK, EndsOK
<1>7. {composing, opening} \subseteq Nat
  BY DEF InfosOK
<1>. QED
  BY <1>1, <1>2, <1>3, <1>4, <1>5, <1>6, <1>7 DEF TypeOK

LEMMA Kept ==
    ASSUME TypeInv
    PROVE  /\ UNCHANGED linkVars => LinkOK'
           /\ UNCHANGED <<upOpen, status, counted, sendingPaused, sendingFile>>
                => UpOK'
           /\ UNCHANGED loops => LoopsOK'
           /\ UNCHANGED <<verdicts, attempts, others>> => CountsOK'
           /\ UNCHANGED userVars => UserOK'
           /\ UNCHANGED fileVars => FilesOK'
           /\ UNCHANGED chunkVars => ChunksOK'
           /\ UNCHANGED <<downOpen, done, closed>> => EndsOK'
           /\ UNCHANGED cut => (cut \in BOOLEAN)'
<1>1. UNCHANGED linkVars => LinkOK'
  BY DEF TypeInv, LinkOK, linkVars
<1>2. UNCHANGED <<upOpen, status, counted, sendingPaused, sendingFile>> => UpOK'
  BY DEF TypeInv, UpOK
<1>3. UNCHANGED loops => LoopsOK'
  BY DEF TypeInv, LoopsOK
<1>4. UNCHANGED <<verdicts, attempts, others>> => CountsOK'
  BY DEF TypeInv, CountsOK
<1>5. UNCHANGED userVars => UserOK'
  BY DEF TypeInv, UserOK, userVars
<1>6. UNCHANGED fileVars => FilesOK'
  BY DEF TypeInv, FilesOK, fileVars
<1>7. UNCHANGED chunkVars => ChunksOK'
  BY DEF TypeInv, ChunksOK, chunkVars
<1>8. UNCHANGED <<downOpen, done, closed>> => EndsOK'
  BY DEF TypeInv, EndsOK
<1>9. UNCHANGED cut => (cut \in BOOLEAN)'
  BY DEF TypeInv
<1>. QED
  BY <1>1, <1>2, <1>3, <1>4, <1>5, <1>6, <1>7, <1>8, <1>9

LEMMA MessageTypes ==
    /\ \A t \in {"RequestInfo", "Pause", "Done", "PasswordRequired", "Info",
                 "Error"} : Signal(t) \in UpMessages /\ Signal(t) \in DownMessages
    /\ \A f \in Files, o \in Nat : Start(f, o) \in UpMessages
                                     /\ Chunk(f, o) \in DownMessages
    /\ \A right \in BOOLEAN : UsePassword(right) \in UpMessages
BY DEF Signal, Start, Chunk, UsePassword, UpMessages, DownMessages, Signals,
       Chunks

LEMMA HeadTypes ==
    ASSUME TypeInv
    PROVE  /\ toUploader # << >> => /\ Head(toUploader) \in UpMessages
                                    /\ Tail(toUploader) \in Seq(UpMessages)
           /\ toDownloader # << >> => /\ Head(toDownloader) \in DownMessages
                                      /\ Tail(toDownloader) \in Seq(DownMessages)
           /\ chain # << >> => /\ Head(chain) \in Chunks
                               /\ Tail(chain) \in Seq(Chunks)
           /\ decrypting # << >> => Head(decrypting) \in Chunks
<1>1. /\ toUploader \in Seq(UpMessages)
      /\ toDownloader \in Seq(DownMessages)
      /\ chain \in Seq(Chunks)
      /\ decrypting \in Seq(Chunks)
  BY DEF TypeInv, LinkOK, ChunksOK
<1>. QED
  BY <1>1

\* The connection is closed: what that leaves of the link and of the uploader.
LEMMA CloseTypes ==
    ASSUME TypeInv, NEW last \in Seq(DownMessages), CloseConnection(last)
    PROVE  /\ LinkOK'
           /\ upOpen' \in BOOLEAN /\ sendingPaused' \in BOOLEAN
           /\ status' \in Statuses
<1>1. toDownloader \in Seq(DownMessages)
  BY DEF TypeInv, LinkOK
<1>2. toDownloader' \in Seq(DownMessages)
  BY <1>1, ConcatProperties DEF CloseConnection
<1>3. << >> \in Seq(UpMessages)
  OBVIOUS
<1>4. upOpen' = FALSE /\ linkUp' = FALSE /\ status' = "Closed"
      /\ sendingPaused' = TRUE /\ toUploader' = << >>
  BY DEF CloseConnection
<1>. QED
  BY <1>2, <1>3, <1>4 DEF Statuses, LinkOK

LEMMA AnswerTypes ==
    ASSUME TypeInv, toUploader # << >>, NEW m \in DownMessages,
           Answer(m) \/ Silently
    PROVE  LinkOK' /\ upOpen' \in BOOLEAN
<1>1. toDownloader \in Seq(DownMessages) /\ linkUp \in BOOLEAN
      /\ upOpen \in BOOLEAN
  BY DEF TypeInv, LinkOK, UpOK
<1>2. Tell(toDownloader, m) \in Seq(DownMessages)
  BY <1>1, TellType
<1>3. linkUp' = linkUp /\ upOpen' = upOpen /\ toUploader' = Tail(toUploader)
      /\ (toDownloader' = toDownloader \/ toDownloader' = Tell(toDownloader, m))
  BY DEF Answer, Silently
<1>. QED
  BY <1>1, <1>2, <1>3, HeadTypes DEF LinkOK

LEMMA AskTypes ==
    ASSUME TypeInv, NEW m \in UpMessages, Ask(m)
    PROVE  LinkOK'
<1>1. toUploader \in Seq(UpMessages) /\ linkUp \in BOOLEAN
      /\ toDownloader \in Seq(DownMessages)
  BY DEF TypeInv, LinkOK
<1>2. Tell(toUploader, m) \in Seq(UpMessages)
  BY <1>1, TellType
<1>. QED
  BY <1>1, <1>2 DEF Ask, LinkOK

LEMMA HeardTypes ==
    ASSUME TypeInv, toDownloader # << >>, Heard
    PROVE  LinkOK'
<1>1. linkUp \in BOOLEAN /\ toUploader \in Seq(UpMessages)
  BY DEF TypeInv, LinkOK
<1>2. Tail(toDownloader) \in Seq(DownMessages)
  BY HeadTypes
<1>. QED
  BY <1>1, <1>2 DEF Heard, LinkOK

LEMMA CloseDownloadTypes ==
    ASSUME TypeInv, CloseDownload
    PROVE  LinkOK' /\ downOpen' \in BOOLEAN /\ closed' \subseteq Files
<1>1. closed \subseteq Files /\ toUploader \in Seq(UpMessages)
  BY DEF TypeInv, LinkOK, EndsOK
<1>2. << >> \in Seq(DownMessages)
  OBVIOUS
<1>3. downOpen' = FALSE /\ linkUp' = FALSE /\ toDownloader' = << >>
      /\ toUploader' = toUploader
  BY DEF CloseDownload
<1>4. closed' \subseteq Files
  BY <1>1 DEF CloseDownload, Streams
<1>. QED
  BY <1>1, <1>2, <1>3, <1>4 DEF LinkOK

----------------------------------------------------------------------------
(* Types: the steps of the uploader                                        *)

LEMMA TypeUploaderMessages ==
    ASSUME TypeInv,
           HandleRequestInfo \/ HandlePassword \/ HandleStart \/ HandlePause
             \/ HandleDone
    PROVE  TypeInv'
<1>d. UserOK' /\ FilesOK' /\ ChunksOK' /\ EndsOK' /\ (cut \in BOOLEAN)'
  <2>1. UNCHANGED <<userVars, fileVars, chunkVars, downOpen, done, closed, cut>>
    BY DEF HandleRequestInfo, HandlePassword, HandleStart, HandlePause,
           HandleDone, downVars, downState
  <2>. QED
    BY <2>1, Kept
<1>q. toUploader # << >>
  BY DEF HandleRequestInfo, HandlePassword, HandleStart, HandlePause,
         HandleDone, Receives
<1>m. /\ Signal("PasswordRequired") \in DownMessages
      /\ Signal("Error") \in DownMessages
  BY MessageTypes
<1>e. <<Signal("Error")>> \in Seq(DownMessages) /\ << >> \in Seq(DownMessages)
  BY <1>m
<1>u. /\ counted \in BOOLEAN /\ sendingPaused \in BOOLEAN
      /\ status \in Statuses /\ sendingFile \in Files \cup {NoFile}
  BY DEF TypeInv, UpOK
<1>1. CASE HandleRequestInfo
  <2>1. LinkOK' /\ upOpen' \in BOOLEAN
    BY <1>1, <1>q, <1>m, AnswerTypes DEF HandleRequestInfo, Composes
  <2>2. UNCHANGED <<counted, sendingPaused, sendingFile>>
    BY <1>1 DEF HandleRequestInfo, sendVars
  <2>3. UNCHANGED <<loops, verdicts, attempts, others>>
    BY <1>1 DEF HandleRequestInfo, sendVars, sharedVars
  <2>4. status' \in Statuses
    BY <1>1 DEF HandleRequestInfo, Composes, Statuses
  <2>5. UpOK'
    BY <1>u, <2>1, <2>2, <2>4 DEF UpOK
  <2>. QED
    BY <1>d, <2>1, <2>3, <2>5, Kept DEF TypeInv
<1>2. CASE HandlePassword
  <2>1. UNCHANGED <<counted, sendingFile, loops, others>>
    BY <1>2 DEF HandlePassword
  <2>2. LinkOK' /\ upOpen' \in BOOLEAN
    <3>1. CloseConnection(<<Signal("Error")>>) \/ Silently
      BY <1>2 DEF HandlePassword, Composes
    <3>. QED
      BY <3>1, <1>e, <1>q, <1>m, AnswerTypes, CloseTypes
  <2>3. status' \in Statuses /\ sendingPaused' \in BOOLEAN
    BY <1>2, <1>u DEF HandlePassword, Composes, CloseConnection, Statuses
  <2>4. UpOK'
    BY <1>u, <2>1, <2>2, <2>3 DEF UpOK
  <2>5. CountsOK'
    <3>1. \/ UNCHANGED <<verdicts, attempts>>
          \/ /\ ~LockedOut
             /\ attempts' = attempts + 1 /\ verdicts' = verdicts + 1
      BY <1>2 DEF HandlePassword
    <3>2. CountsOK /\ MaxAttempts \in Nat
      BY Constants DEF TypeInv
    <3>. QED
      BY <2>1, <3>1, <3>2 DEF CountsOK, LockedOut
  <2>. QED
    BY <1>d, <2>1, <2>2, <2>4, <2>5, Kept DEF TypeInv
<1>3. CASE HandleStart
  <2>. DEFINE m == Head(toUploader)
  <2>0. m.file \in Files /\ m.offset \in Nat
    <3>1. m \in UpMessages /\ m.type = "Start"
      BY <1>3, <1>q, HeadTypes DEF HandleStart, Receives
    <3>. QED
      BY <3>1 DEF UpMessages, Signals
  <2>1. UNCHANGED <<counted, verdicts, attempts, others>>
    BY <1>3 DEF HandleStart, sharedVars
  <2>2. LinkOK' /\ upOpen' \in BOOLEAN
    <3>1. CloseConnection(<<Signal("Error")>>) \/ Answer(Signal("Error"))
            \/ Silently
      BY <1>3 DEF HandleStart
    <3>. QED
      BY <3>1, <1>e, <1>q, <1>m, AnswerTypes, CloseTypes
  <2>3. status' \in Statuses /\ sendingPaused' \in BOOLEAN
    BY <1>3, <1>u DEF HandleStart, CloseConnection, Statuses
  <2>4. sendingFile' \in Files \cup {NoFile}
    BY <1>3, <1>u, <2>0 DEF HandleStart
  <2>5. UpOK'
    BY <1>u, <2>1, <2>2, <2>3, <2>4 DEF UpOK
  <2>6. LoopsOK'
    <3>. DEFINE l == [file |-> m.file, offset |-> m.offset, at |-> "scheduled"]
    <3>1. l \in Loops
      BY <2>0 DEF Loops
    <3>2. UNCHANGED loops \/ loops' = Append(loops, l)
      BY <1>3 DEF HandleStart
    <3>3. loops \in Seq(Loops)
      BY DEF TypeInv, LoopsOK
    <3>. QED
      BY <3>1, <3>2, <3>3 DEF LoopsOK
  <2>. QED
    BY <1>d, <2>1, <2>2, <2>5, <2>6, Kept DEF TypeInv
<1>4. CASE HandlePause
  <2>1. LinkOK' /\ upOpen' \in BOOLEAN
    BY <1>4, <1>q, <1>m, AnswerTypes DEF HandlePause
  <2>2. /\ status' = "Paused" /\ sendingPaused' = TRUE
        /\ UNCHANGED <<counted, sendingFile>>
    BY <1>4 DEF HandlePause
  <2>3. UNCHANGED <<loops, verdicts, attempts, others>>
    BY <1>4 DEF HandlePause, sharedVars
  <2>4. UpOK'
    BY <1>u, <2>1, <2>2 DEF UpOK, Statuses
  <2>. QED
    BY <1>d, <2>1, <2>3, <2>4, Kept DEF TypeInv
<1>5. CASE HandleDone
  <2>1. LinkOK' /\ upOpen' \in BOOLEAN
    BY <1>5, <1>q, <1>m, <1>e, AnswerTypes, CloseTypes DEF HandleDone
  <2>2. UNCHANGED <<sendingFile, loops, verdicts, attempts, others>>
    BY <1>5 DEF HandleDone, sharedVars
  <2>3. status' \in Statuses /\ sendingPaused' \in BOOLEAN /\ counted' \in BOOLEAN
    BY <1>5, <1>u DEF HandleDone, CloseConnection, Statuses
  <2>4. UpOK'
    BY <1>u, <2>1, <2>2, <2>3 DEF UpOK
  <2>. QED
    BY <1>d, <2>1, <2>2, <2>4, Kept DEF TypeInv
<1>. QED
  BY <1>1, <1>2, <1>3, <1>4, <1>5

LEMMA TypeUploaderRest ==
    ASSUME TypeInv,
           SendInfo \/ HandleVerdict \/ SeeClose \/ OthersAttempt
             \/ OthersComplete \/ Fail
    PROVE  TypeInv'
<1>d. UserOK' /\ FilesOK' /\ ChunksOK' /\ EndsOK' /\ LoopsOK'
  <2>1. UNCHANGED <<userVars, fileVars, chunkVars, downOpen, done, closed, loops>>
    BY DEF SendInfo, HandleVerdict, SeeClose, OthersAttempt, OthersComplete,
           Fail, downVars, downState, upState, sendVars
  <2>. QED
    BY <2>1, Kept
<1>m. /\ Signal("PasswordRequired") \in DownMessages
      /\ Signal("Info") \in DownMessages
      /\ <<Signal("Error")>> \in Seq(DownMessages)
      /\ << >> \in Seq(DownMessages)
  BY MessageTypes
<1>u. /\ upOpen \in BOOLEAN /\ counted \in BOOLEAN /\ sendingPaused \in BOOLEAN
      /\ status \in Statuses /\ sendingFile \in Files \cup {NoFile}
      /\ CountsOK
  BY DEF TypeInv, UpOK
<1>1. CASE HandleVerdict
  <2>1. UNCHANGED <<counted, sendingFile, attempts, others>>
        /\ UNCHANGED cut
    BY <1>1 DEF HandleVerdict, sharedVars, downVars
  <2>2. CountsOK'
    <3>1. verdicts > 0 /\ verdicts' = verdicts - 1
      BY <1>1 DEF HandleVerdict
    <3>. QED
      BY <1>u, <2>1, <3>1 DEF CountsOK
  <2>3. CASE CloseConnection(<<Signal("Error")>>)
    <3>1. UpOK'
      BY <1>u, <1>m, <2>1, <2>3, CloseTypes DEF UpOK
    <3>. QED
      BY <1>d, <1>m, <2>1, <2>2, <2>3, <3>1, CloseTypes, Kept DEF TypeInv
  <2>4. CASE ~CloseConnection(<<Signal("Error")>>)
    <3>1. /\ status' \in {"InvalidPassword", "LockedOut"}
          /\ UNCHANGED <<linkUp, toUploader, upOpen, sendingPaused>>
          /\ \/ UNCHANGED toDownloader
             \/ toDownloader' = Tell(toDownloader, Signal("PasswordRequired"))
      BY <1>1, <2>4 DEF HandleVerdict, linkVars
    <3>2. UpOK'
      BY <1>u, <2>1, <3>1 DEF UpOK, Statuses
    <3>3. LinkOK
      BY DEF TypeInv
    <3>4. Tell(toDownloader, Signal("PasswordRequired")) \in Seq(DownMessages)
      BY <1>m, <3>3, TellType DEF LinkOK
    <3>5. LinkOK'
      BY <3>1, <3>3, <3>4 DEF LinkOK
    <3>. QED
      BY <1>d, <2>1, <2>2, <3>2, <3>5, Kept DEF TypeInv
  <2>. QED
    BY <2>3, <2>4
<1>2. CASE SeeClose
  <2>1. LinkOK' /\ upOpen' \in BOOLEAN /\ status' \in Statuses
        /\ sendingPaused' \in BOOLEAN
    BY <1>2, <1>m, CloseTypes DEF SeeClose
  <2>2. UNCHANGED <<counted, sendingFile>>
        /\ UNCHANGED <<verdicts, attempts, others>> /\ UNCHANGED cut
    BY <1>2 DEF SeeClose, sharedVars, downVars
  <2>3. UpOK'
    BY <1>u, <2>1, <2>2 DEF UpOK
  <2>. QED
    BY <1>d, <2>1, <2>2, <2>3, Kept DEF TypeInv
<1>3. CASE OthersAttempt \/ OthersComplete
  <2>1. UNCHANGED <<upOpen, status, counted, sendingPaused, sendingFile>>
        /\ UNCHANGED linkVars /\ UNCHANGED cut
    BY <1>3 DEF OthersAttempt, OthersComplete, sendVars, downVars
  <2>2. CASE OthersAttempt
    <3>1. /\ attempts < MaxAttempts /\ attempts' = attempts + 1
          /\ UNCHANGED <<verdicts, others>>
      BY <2>2 DEF OthersAttempt
    <3>2. CountsOK'
      BY <1>u, <3>1, Constants DEF CountsOK
    <3>. QED
      BY <1>d, <2>1, <3>2, Kept DEF TypeInv
  <2>3. CASE OthersComplete
    <3>1. /\ others < MaxDownloads /\ others' = others + 1
          /\ UNCHANGED <<verdicts, attempts>>
      BY <2>3 DEF OthersComplete
    <3>2. CountsOK'
      BY <1>u, <3>1, Constants DEF CountsOK
    <3>. QED
      BY <1>d, <2>1, <3>2, Kept DEF TypeInv
  <2>. QED
    BY <1>3, <2>2, <2>3
<1>4. CASE Fail
  <2>1. /\ UNCHANGED <<upOpen, status, counted, sendingPaused, sendingFile>>
        /\ UNCHANGED <<verdicts, attempts, others>>
        /\ UNCHANGED <<toUploader, toDownloader>>
        /\ linkUp' = FALSE /\ cut' = TRUE
    BY <1>4 DEF Fail, upState, sendVars, sharedVars
  <2>2. LinkOK'
    BY <2>1 DEF TypeInv, LinkOK
  <2>. QED
    BY <1>d, <2>1, <2>2, Kept DEF TypeInv
<1>5. CASE SendInfo
  <2>1. /\ UNCHANGED <<upOpen, status, counted, sendingPaused, sendingFile>>
        /\ UNCHANGED <<verdicts, attempts, others>>
        /\ UNCHANGED <<linkUp, toUploader>> /\ UNCHANGED cut
        /\ toDownloader' = Tell(toDownloader, Signal("Info"))
    BY <1>5 DEF SendInfo, sendVars, sharedVars, downVars
  <2>2. LinkOK
    BY DEF TypeInv
  <2>3. Tell(toDownloader, Signal("Info")) \in Seq(DownMessages)
    BY <1>m, <2>2, TellType DEF LinkOK
  <2>4. LinkOK'
    BY <2>1, <2>2, <2>3 DEF LinkOK
  <2>. QED
    BY <1>d, <2>1, <2>4, Kept DEF TypeInv
<1>. QED
  BY <1>1, <1>2, <1>3, <1>4, <1>5

LEMMA AdvancedType ==
    ASSUME NEW l \in Loops
    PROVE  Advanced(l) \in Loops
<1>. DEFINE o == l.offset + 1
<1>1. l.offset \in Nat /\ o \in Nat
  BY DEF Loops
<1>2. [l EXCEPT !.offset = o] \in Loops
  BY <1>1 DEF Loops
<1>3. [[l EXCEPT !.offset = o] EXCEPT !.at = "scheduled"] \in Loops
  BY <1>2 DEF Loops
<1>. QED
  BY <1>1, <1>3 DEF Advanced

LEMMA TypeLoops ==
    ASSUME TypeInv, NEW i \in DOMAIN loops,
           BeginChunk(i) \/ EncryptedChunk(i) \/ SendChunk(i) \/ ChunkFails(i)
    PROVE  TypeInv'
<1>d. UserOK' /\ FilesOK' /\ ChunksOK' /\ EndsOK' /\ CountsOK'
  <2>1. UNCHANGED <<userVars, fileVars, chunkVars, downOpen, done, closed,
                    verdicts, attempts, others>>
    BY DEF BeginChunk, EncryptedChunk, SendChunk, ChunkFails, downVars,
           downState, sharedVars
  <2>. QED
    BY <2>1, Kept
<1>0. loops \in Seq(Loops) /\ loops[i] \in Loops
  BY DEF TypeInv, LoopsOK
<1>1. loops[i].file \in Files /\ loops[i].offset \in Nat
  BY <1>0 DEF Loops
<1>2. RemoveAt(loops, i) \in Seq(Loops)
  BY <1>0, RemoveAtType
<1>3. \A at \in {"reading", "sending"} :
        [loops EXCEPT ![i].at = at] \in Seq(Loops)
  BY <1>0, <1>1 DEF Loops
<1>4. [loops EXCEPT ![i] = Advanced(loops[i])] \in Seq(Loops)
  <2>1. Advanced(loops[i]) \in Loops
    BY <1>0, AdvancedType
  <2>. QED
    BY <2>1, <1>0
<1>5. LoopsOK'
  BY <1>2, <1>3, <1>4 DEF BeginChunk, EncryptedChunk, SendChunk, ChunkFails,
     EndLoop, LoopGoes, LoopsOK
<1>u. /\ upOpen \in BOOLEAN /\ counted \in BOOLEAN /\ sendingPaused \in BOOLEAN
      /\ status \in Statuses /\ sendingFile \in Files \cup {NoFile}
  BY DEF TypeInv, UpOK
<1>6. CASE BeginChunk(i) \/ EncryptedChunk(i)
  <2>1. UNCHANGED <<upOpen, status, counted, sendingPaused, sendingFile>>
        /\ UNCHANGED linkVars /\ UNCHANGED cut
    BY <1>6 DEF BeginChunk, EncryptedChunk, downVars
  <2>. QED
    BY <1>d, <1>5, <2>1, Kept DEF TypeInv
<1>7. CASE SendChunk(i)
  <2>1. /\ UNCHANGED <<linkUp, toUploader, upOpen, counted, sendingPaused>>
        /\ UNCHANGED cut
    BY <1>7 DEF SendChunk, downVars
  <2>2. LinkOK'
    <3>1. Chunk(loops[i].file, loops[i].offset) \in DownMessages
      BY <1>1, MessageTypes
    <3>2. LinkOK
      BY DEF TypeInv
    <3>3. Tell(toDownloader, Chunk(loops[i].file, loops[i].offset))
            \in Seq(DownMessages)
      BY <3>1, <3>2, TellType DEF LinkOK
    <3>4. \/ UNCHANGED toDownloader
          \/ toDownloader' = Tell(toDownloader, Chunk(loops[i].file, loops[i].offset))
      BY <1>7 DEF SendChunk
    <3>. QED
      BY <2>1, <3>2, <3>3, <3>4 DEF LinkOK
  <2>3. sendingFile' \in Files \cup {NoFile} /\ status' \in Statuses
    BY <1>7, <1>u DEF SendChunk, FileAfter, Statuses
  <2>4. UpOK'
    BY <1>u, <2>1, <2>3 DEF UpOK
  <2>. QED
    BY <1>d, <1>5, <2>1, <2>2, <2>4, Kept DEF TypeInv
<1>8. CASE ChunkFails(i)
  <2>1. <<Signal("Error")>> \in Seq(DownMessages)
    BY MessageTypes
  <2>2. /\ CloseConnection(<<Signal("Error")>>) /\ cut' = TRUE
        /\ UNCHANGED <<counted, sendingFile>>
    BY <1>8 DEF ChunkFails
  <2>3. UpOK'
    BY <1>u, <2>1, <2>2, CloseTypes DEF UpOK
  <2>. QED
    BY <1>d, <1>5, <2>1, <2>2, <2>3, CloseTypes DEF TypeInv
<1>. QED
  BY <1>6, <1>7, <1>8

----------------------------------------------------------------------------
(* Types: the steps of the downloader and the user                         *)

LEMMA TypeDownloaderMessages ==
    ASSUME TypeInv,
           HandlePasswordRequired \/ HandleInfo \/ OpenInfo \/ HandleChunk
             \/ HandleError \/ StopCloses \/ SeeDisconnect
    PROVE  TypeInv'
<1>u. UpOK' /\ LoopsOK' /\ CountsOK' /\ FilesOK' /\ (cut \in BOOLEAN)'
  <2>1. UNCHANGED <<upVars, fileVars>>
    BY DEF HandlePasswordRequired, HandleInfo, OpenInfo, HandleChunk,
           HandleError, StopCloses, SeeDisconnect
  <2>. QED
    BY <2>1, Kept DEF upVars, upState, sendVars, sharedVars
<1>1. CASE HandlePasswordRequired \/ HandleInfo
  <2>1. LinkOK'
    BY <1>1, HeardTypes DEF HandlePasswordRequired, HandleInfo, Hears
  <2>2. /\ info' \in BOOLEAN /\ asked' \in BOOLEAN
        /\ UNCHANGED <<started, stopped, paused, guesses, pauses>>
    BY <1>1 DEF HandlePasswordRequired, HandleInfo, TypeInv, UserOK
  <2>3. UserOK'
    BY <2>2 DEF TypeInv, UserOK
  <2>4. UNCHANGED <<chunkVars, downOpen, done, closed>>
    BY <1>1 DEF HandlePasswordRequired, HandleInfo
  <2>. QED
    BY <1>u, <2>1, <2>3, <2>4, Kept DEF TypeInv
<1>2. CASE HandleChunk
  <2>1. LinkOK'
    BY <1>2, HeardTypes DEF HandleChunk, Hears
  <2>2. Head(toDownloader) \in Chunks
    <3>1. Head(toDownloader) \in DownMessages /\ Head(toDownloader).type = "Chunk"
      BY <1>2, HeadTypes DEF HandleChunk, Hears
    <3>. QED
      BY <3>1 DEF DownMessages, Signals
  <2>3. ChunksOK'
    <3>1. chain \in Seq(Chunks) /\ decrypting \in Seq(Chunks)
      BY DEF TypeInv, ChunksOK
    <3>2. UNCHANGED decrypting
            /\ (UNCHANGED chain \/ chain' = Append(chain, Head(toDownloader)))
      BY <1>2 DEF HandleChunk
    <3>. QED
      BY <2>2, <3>1, <3>2 DEF ChunksOK
  <2>4. UNCHANGED <<userVars, downOpen, done, closed>>
    BY <1>2 DEF HandleChunk
  <2>. QED
    BY <1>u, <2>1, <2>3, <2>4, Kept DEF TypeInv
<1>3. CASE HandleError \/ StopCloses \/ SeeDisconnect
  <2>1. UNCHANGED <<userVars, chunkVars, done>>
    BY <1>3 DEF HandleError, StopCloses, SeeDisconnect
  <2>2. CASE CloseDownload
    <3>1. EndsOK'
      BY <2>1, <2>2, CloseDownloadTypes DEF TypeInv, EndsOK
    <3>. QED
      BY <1>u, <2>1, <2>2, <3>1, CloseDownloadTypes, Kept DEF TypeInv
  <2>3. CASE ~CloseDownload
    <3>1. Heard /\ UNCHANGED <<downOpen, closed>> /\ toDownloader # << >>
      BY <1>3, <2>3 DEF HandleError, StopCloses, SeeDisconnect, Hears
    <3>. QED
      BY <1>u, <2>1, <3>1, HeardTypes, Kept DEF TypeInv
  <2>. QED
    BY <2>2, <2>3
<1>4. CASE OpenInfo
  <2>1. /\ info' = TRUE /\ asked' = FALSE
        /\ UNCHANGED <<started, stopped, paused, guesses, pauses>>
        /\ UNCHANGED linkVars /\ UNCHANGED chunkVars
        /\ UNCHANGED <<downOpen, done, closed>>
    BY <1>4 DEF OpenInfo
  <2>2. UserOK'
    BY <2>1 DEF TypeInv, UserOK
  <2>. QED
    BY <1>u, <2>1, <2>2, Kept DEF TypeInv
<1>. QED
  BY <1>1, <1>2, <1>3, <1>4

LEMMA TypeUser ==
    ASSUME TypeInv,
           \/ \E right \in BOOLEAN : SubmitPassword(right)
           \/ StartDownload \/ PauseDownload \/ ResumeDownload \/ StopDownload
    PROVE  TypeInv'
<1>u. UpOK' /\ LoopsOK' /\ CountsOK' /\ ChunksOK' /\ (cut \in BOOLEAN)'
  <2>1. UNCHANGED <<upVars, chunkVars>>
    BY DEF SubmitPassword, StartDownload, PauseDownload, ResumeDownload,
           StopDownload
  <2>. QED
    BY <2>1, Kept DEF upVars, upState, sendVars, sharedVars
<1>0. UserOK /\ EndsOK /\ FilesOK
  BY DEF TypeInv
<1>1. ASSUME NEW right \in BOOLEAN, SubmitPassword(right)
      PROVE  TypeInv'
  <2>1. UsePassword(right) \in UpMessages
    BY MessageTypes
  <2>2. /\ guesses < MaxGuesses /\ guesses' = guesses + 1
        /\ UNCHANGED <<asked, info, started, stopped, paused, pauses>>
        /\ UNCHANGED <<downOpen, done, closed>> /\ UNCHANGED fileVars
    BY <1>1 DEF SubmitPassword
  <2>3. UserOK'
    BY <1>0, <2>2, Constants DEF UserOK
  <2>4. LinkOK'
    BY <1>1, <2>1, AskTypes DEF SubmitPassword
  <2>. QED
    BY <1>u, <2>2, <2>3, <2>4, Kept DEF TypeInv
<1>2. CASE StartDownload
  <2>1. 1 \in Files /\ Start(1, 0) \in UpMessages
    BY Constants, MessageTypes
  <2>2. /\ started' = TRUE /\ active' = 1
        /\ UNCHANGED <<asked, guesses, info, stopped, paused, pauses>>
        /\ UNCHANGED <<expected, received, completed, written>>
        /\ UNCHANGED <<downOpen, done, closed>>
    BY <1>2 DEF StartDownload
  <2>3. UserOK' /\ FilesOK'
    BY <1>0, <2>1, <2>2 DEF UserOK, FilesOK
  <2>4. LinkOK'
    BY <1>2, <2>1, AskTypes DEF StartDownload
  <2>. QED
    BY <1>u, <2>2, <2>3, <2>4, Kept DEF TypeInv
<1>3. CASE PauseDownload
  <2>1. Signal("Pause") \in UpMessages
    BY MessageTypes
  <2>2. /\ pauses < MaxPauses /\ pauses' = pauses + 1 /\ paused' = TRUE
        /\ UNCHANGED <<asked, info, started, stopped, guesses>>
        /\ UNCHANGED <<downOpen, done, closed>> /\ UNCHANGED fileVars
    BY <1>3 DEF PauseDownload
  <2>3. UserOK'
    BY <1>0, <2>2, Constants DEF UserOK
  <2>4. LinkOK'
    BY <1>3, <2>1, AskTypes DEF PauseDownload
  <2>. QED
    BY <1>u, <2>2, <2>3, <2>4, Kept DEF TypeInv
<1>4. CASE ResumeDownload
  <2>1. /\ paused' = FALSE
        /\ UNCHANGED <<asked, info, started, stopped, guesses, pauses>>
        /\ UNCHANGED <<downOpen, done, closed>> /\ UNCHANGED fileVars
    BY <1>4 DEF ResumeDownload
  <2>2. UserOK'
    BY <1>0, <2>1 DEF UserOK
  <2>3. LinkOK'
    <3>1. CASE active = NoFile
      BY <1>4, <3>1, Kept DEF ResumeDownload
    <3>2. CASE active # NoFile
      <4>1. active \in Files /\ expected[active] \in Nat
        BY <1>0, <3>2 DEF FilesOK
      <4>2. Start(active, expected[active]) \in UpMessages
        BY <4>1, MessageTypes
      <4>. QED
        BY <1>4, <3>2, <4>2, AskTypes DEF ResumeDownload
    <3>. QED
      BY <3>1, <3>2
  <2>. QED
    BY <1>u, <2>1, <2>2, <2>3, Kept DEF TypeInv
<1>5. CASE StopDownload
  <2>1. Signal("Pause") \in UpMessages
    BY MessageTypes
  <2>2. /\ stopped' = TRUE /\ paused' = FALSE /\ closed' = Files
        /\ UNCHANGED <<asked, info, started, guesses, pauses>>
        /\ UNCHANGED <<downOpen, done>> /\ UNCHANGED fileVars
    BY <1>5 DEF StopDownload, Streams
  <2>3. UserOK' /\ EndsOK'
    BY <1>0, <2>2 DEF UserOK, EndsOK
  <2>4. LinkOK'
    BY <1>5, <2>1, AskTypes DEF StopDownload
  <2>. QED
    BY <1>u, <2>2, <2>3, <2>4, Kept DEF TypeInv
<1>. QED
  BY <1>1, <1>2, <1>3, <1>4, <1>5

LEMMA TypeChunks ==
    ASSUME TypeInv, CheckChunk \/ WriteChunk \/ Settle
    PROVE  TypeInv'
<1>u. UpOK' /\ LoopsOK' /\ CountsOK' /\ UserOK' /\ (cut \in BOOLEAN)'
  <2>1. UNCHANGED <<upVars, userVars>>
    BY DEF CheckChunk, WriteChunk, Settle
  <2>. QED
    BY <2>1, Kept DEF upVars, upState, sendVars, sharedVars
<1>0. /\ chain \in Seq(Chunks) /\ decrypting \in Seq(Chunks)
      /\ downOpen \in BOOLEAN /\ closed \subseteq Files /\ done \in BOOLEAN
  BY DEF TypeInv, ChunksOK, EndsOK
<1>f. /\ active \in Files \cup {NoFile}
      /\ expected \in [Files -> Nat]
      /\ received \in [Files -> Nat]
      /\ completed \subseteq Files
      /\ written \in [Files -> Seq(Nat)]
  BY DEF TypeInv, FilesOK
<1>1. CASE CheckChunk
  <2>. DEFINE c == Head(chain)
  <2>0. chain # << >> /\ chain' = Tail(chain)
        /\ UNCHANGED <<active, expected, completed, written, done>>
    BY <1>1 DEF CheckChunk
  <2>1. c \in Chunks /\ c.file \in Files /\ Tail(chain) \in Seq(Chunks)
    <3>1. c \in Chunks /\ Tail(chain) \in Seq(Chunks)
      BY <2>0, HeadTypes
    <3>. QED
      BY <3>1 DEF Chunks
  <2>2. FilesOK'
    <3>1. \/ UNCHANGED received
          \/ received' = [received EXCEPT ![c.file] = @ + Bytes(c)]
      BY <1>1 DEF CheckChunk
    <3>2. received \in [Files -> Nat] /\ Bytes(c) \in Nat
      BY <1>f, <2>1, Constants DEF Bytes
    <3>3. received' \in [Files -> Nat]
      BY <2>1, <3>1, <3>2
    <3>. QED
      BY <1>f, <2>0, <3>3 DEF FilesOK
  <2>3. ChunksOK'
    <3>1. UNCHANGED decrypting \/ decrypting' = <<c>>
      BY <1>1 DEF CheckChunk
    <3>2. <<c>> \in Seq(Chunks)
      BY <2>1
    <3>. QED
      BY <1>0, <2>0, <2>1, <3>1, <3>2 DEF ChunksOK
  <2>4. LinkOK' /\ EndsOK'
    <3>1. UNCHANGED <<linkVars, downOpen, closed>> \/ CloseDownload
      BY <1>1 DEF CheckChunk
    <3>. QED
      BY <1>0, <2>0, <3>1, CloseDownloadTypes, Kept DEF EndsOK
  <2>. QED
    BY <1>u, <2>2, <2>3, <2>4 DEF TypeInv
<1>2. CASE WriteChunk
  <2>. DEFINE c == Head(decrypting)
              f == c.file
  <2>0. c \in Chunks /\ f \in Files /\ c.offset \in Nat
    <3>1. decrypting # << >>
      BY <1>2 DEF WriteChunk
    <3>. QED
      BY <3>1, HeadTypes DEF Chunks
  <2>1. expected' \in [Files -> Nat]
    <3>1. UNCHANGED expected
            \/ expected' = [expected EXCEPT ![f] = c.offset + 1]
      BY <1>2 DEF WriteChunk, fileVars
    <3>2. expected \in [Files -> Nat]
      BY <1>f
    <3>. QED
      BY <2>0, <3>1, <3>2
  <2>2. UNCHANGED <<received, downOpen, chain, done>> /\ decrypting' = << >>
    BY <1>2 DEF WriteChunk, fileVars
  <2>3. written' \in [Files -> Seq(Nat)]
    <3>1. UNCHANGED written
            \/ written' = [written EXCEPT ![f] = Append(@, c.offset)]
      BY <1>2 DEF WriteChunk, fileVars
    <3>2. Append(written[f], c.offset) \in Seq(Nat)
      BY <1>f, <2>0
    <3>. QED
      BY <1>f, <3>1, <3>2
  <2>4. completed' \subseteq Files /\ closed' \subseteq Files
    <3>1. UNCHANGED completed \/ completed' = completed \cup {f}
      BY <1>2 DEF WriteChunk, fileVars
    <3>2. UNCHANGED closed \/ closed' = closed \cup {f}
      BY <1>2 DEF WriteChunk
    <3>. QED
      BY <1>0, <1>f, <2>0, <3>1, <3>2
  <2>5. active' \in Files \cup {NoFile}
    <3>1. UNCHANGED active \/ active' = NextFile(f)
      BY <1>2 DEF WriteChunk, fileVars
    <3>2. NextFile(f) \in Files \cup {NoFile}
      BY <2>0, Constants DEF NextFile
    <3>. QED
      BY <1>f, <3>1, <3>2
  <2>6. LinkOK'
    <3>1. UNCHANGED linkVars \/ (f # Len(Size) /\ Ask(Start(f + 1, 0)))
      BY <1>2 DEF WriteChunk
    <3>2. f # Len(Size) => f + 1 \in Files
      BY <2>0, Constants
    <3>3. f # Len(Size) => Start(f + 1, 0) \in UpMessages
      BY <3>2, MessageTypes
    <3>. QED
      BY <3>1, <3>3, AskTypes, Kept
  <2>7. FilesOK'
    <3>1. received' \in [Files -> Nat]
      BY <1>f, <2>2
    <3>. QED
      BY <2>1, <2>3, <2>4, <2>5, <3>1 DEF FilesOK
  <2>8. EndsOK' /\ ChunksOK'
    BY <1>0, <2>2, <2>4 DEF EndsOK, ChunksOK
  <2>. QED
    BY <1>u, <2>6, <2>7, <2>8 DEF TypeInv
<1>3. CASE Settle
  <2>1. Signal("Done") \in UpMessages
    BY MessageTypes
  <2>2. LinkOK'
    <3>1. UNCHANGED linkVars \/ Ask(Signal("Done"))
      BY <1>3 DEF Settle
    <3>. QED
      BY <2>1, <3>1, AskTypes, Kept
  <2>3. /\ UNCHANGED fileVars /\ UNCHANGED chunkVars
        /\ UNCHANGED <<downOpen, closed>> /\ done' = TRUE
    BY <1>3 DEF Settle
  <2>4. EndsOK'
    BY <1>0, <2>3 DEF EndsOK
  <2>. QED
    BY <1>u, <2>2, <2>3, <2>4, Kept DEF TypeInv
<1>. QED
  BY <1>1, <1>2, <1>3

LEMMA TypeInitially == Init => TypeInv
<1>. SUFFICES ASSUME Init PROVE TypeInv
  OBVIOUS
<1>1. LinkOK
  <2>1. <<Signal("RequestInfo")>> \in Seq(UpMessages)
    BY MessageTypes
  <2>. QED
    BY <2>1 DEF Init, LinkOK
<1>2. UpOK /\ LoopsOK
  <2>1. /\ upOpen = TRUE /\ status = "Pending" /\ counted = FALSE
        /\ sendingPaused = FALSE /\ sendingFile = NoFile /\ loops = << >>
    BY DEF Init
  <2>2. upOpen \in BOOLEAN /\ counted \in BOOLEAN /\ sendingPaused \in BOOLEAN
    BY <2>1, Zenon
  <2>3. status \in Statuses /\ sendingFile \in Files \cup {NoFile}
        /\ loops \in Seq(Loops)
    BY <2>1 DEF Statuses
  <2>. QED
    BY <2>2, <2>3 DEF UpOK, LoopsOK
<1>3. CountsOK /\ UserOK
  <2>1. /\ verdicts = 0 /\ attempts = 0 /\ others = 0
        /\ guesses = 0 /\ pauses = 0
        /\ asked = FALSE /\ info = FALSE /\ started = FALSE
        /\ stopped = FALSE /\ paused = FALSE
    BY DEF Init
  <2>2. MaxAttempts \in Nat /\ MaxDownloads \in Nat
        /\ MaxPauses \in Nat /\ MaxGuesses \in Nat
    BY Constants
  <2>3. /\ asked \in BOOLEAN /\ info \in BOOLEAN /\ started \in BOOLEAN
        /\ stopped \in BOOLEAN /\ paused \in BOOLEAN
    BY <2>1, Zenon
  <2>. QED
    BY <2>1, <2>2, <2>3 DEF CountsOK, UserOK
<1>4. FilesOK
  BY DEF Init, FilesOK
<1>5. ChunksOK /\ EndsOK /\ cut \in BOOLEAN
  <2>1. /\ chain = << >> /\ decrypting = << >> /\ closed = {}
        /\ downOpen = TRUE /\ done = FALSE /\ cut = FALSE
    BY DEF Init
  <2>2. downOpen \in BOOLEAN /\ done \in BOOLEAN /\ cut \in BOOLEAN
    BY <2>1, Zenon
  <2>. QED
    BY <2>1, <2>2 DEF ChunksOK, EndsOK
<1>. QED
  BY <1>1, <1>2, <1>3, <1>4, <1>5 DEF TypeInv

LEMMA TypeStep == TypeInv /\ [Next]_vars => TypeInv'
<1>. SUFFICES ASSUME TypeInv, [Next]_vars PROVE TypeInv'
  OBVIOUS
<1>1. CASE Next
  BY <1>1, TypeUploaderMessages, TypeUploaderRest, TypeLoops,
     TypeDownloaderMessages, TypeUser, TypeChunks
     DEF Next, Uploader, Downloader, User, Others, Faults
<1>2. CASE UNCHANGED vars
  <2>1. UNCHANGED linkVars /\ UNCHANGED upState /\ UNCHANGED downState
        /\ UNCHANGED cut
    BY <1>2 DEF vars
  <2>. QED
    BY <2>1, Kept DEF TypeInv, upState, downState, sendVars, sharedVars
<1>. QED
  BY <1>1, <1>2

LEMMA AlwaysTyped == Spec => []TypeInv
<1>. QED
  BY TypeInitially, TypeStep, PTL DEF Spec

\* An Info is only sent when it was being prepared, and only opened when it
\* was received.
LEMMA InfosStep == InfosOK /\ [Next]_vars => InfosOK'
<1>. SUFFICES ASSUME InfosOK, [Next]_vars PROVE InfosOK'
  OBVIOUS
<1>. USE DEF InfosOK
<1>1. CASE Uploader \/ Others \/ Faults
  <2>1. opening' = opening
    BY <1>1 DEF Uploader, Others, Faults, HandleRequestInfo, HandlePassword,
       SendInfo, HandleVerdict, HandleStart, HandlePause, HandleDone, SeeClose,
       BeginChunk, EncryptedChunk, SendChunk, OthersAttempt, OthersComplete,
       Fail, ChunkFails, downVars, downState, userVars
  <2>2. CASE SendInfo
    BY <2>1, <2>2 DEF SendInfo
  <2>3. CASE ~SendInfo
    <3>1. composing' \in {composing, composing + 1}
      BY <1>1, <2>3 DEF Uploader, Others, Faults, HandleRequestInfo,
         HandlePassword, Composes, HandleVerdict, HandleStart, HandlePause,
         HandleDone, SeeClose, BeginChunk, EncryptedChunk, SendChunk,
         OthersAttempt, OthersComplete, Fail, ChunkFails, upState
    <3>. QED
      BY <2>1, <3>1
  <2>. QED
    BY <2>2, <2>3
<1>2. CASE Downloader \/ User \/ ResumeDownload
  <2>1. composing' = composing
    BY <1>2 DEF Downloader, User, HandlePasswordRequired, HandleInfo, OpenInfo,
       HandleChunk, HandleError, CheckChunk, WriteChunk, Settle, SeeDisconnect,
       StopCloses, SubmitPassword, StartDownload, PauseDownload, StopDownload,
       ResumeDownload, upVars, upState
  <2>2. CASE OpenInfo
    BY <2>1, <2>2 DEF OpenInfo
  <2>3. CASE ~OpenInfo
    <3>1. opening' \in {opening, opening + 1}
      BY <1>2, <2>3 DEF Downloader, User, HandlePasswordRequired, HandleInfo,
         HandleChunk, HandleError, CheckChunk, WriteChunk, Settle,
         SeeDisconnect, StopCloses, SubmitPassword, StartDownload,
         PauseDownload, StopDownload, ResumeDownload, userVars
    <3>. QED
      BY <2>1, <3>1
  <2>. QED
    BY <2>2, <2>3
<1>3. CASE UNCHANGED vars
  BY <1>3 DEF vars, upState, downState, userVars
<1>. QED
  BY <1>1, <1>2, <1>3 DEF Next

LEMMA AlwaysInfos == Spec => []InfosOK
<1>1. Init => InfosOK
  BY DEF Init, InfosOK
<1>. QED
  BY <1>1, InfosStep, PTL DEF Spec

\* Every variable keeps its type, whatever the network and the user do.
THEOREM TypeCorrect == Spec => []TypeOK
<1>. QED
  BY TypesOK, AlwaysTyped, AlwaysInfos, PTL

----------------------------------------------------------------------------
(* What the downloader has written                                         *)

\* The files before the active one are complete, the rest are not begun.
InTurn ==
    /\ ~started => /\ completed = {}
                   /\ decrypting = << >>
                   /\ \A f \in Files : written[f] = << >>
    /\ started => \/ active \in Files /\ completed = 1..(active - 1)
                  \/ active = NoFile /\ completed = Files
    /\ \A f \in Files : written[f] # << >> => f \in completed \/ f = active
    /\ \A f \in completed : Whole(f)

\* What is expected follows what an open stream holds, and is short of its end.
Accounted ==
    /\ \A f \in Files \ closed :
         expected[f] = Len(written[f]) /\ expected[f] < Size[f]
    /\ WrittenIsPrefix

\* The chunk being decrypted is the next one of the active file.
DecryptsNext ==
    decrypting # << >> =>
        /\ active \in Files
        /\ Head(decrypting).file = active
        /\ Head(decrypting).offset = expected[active]

\* Only a stop or a close ends the stream of a file that is not complete.
ClosedIsComplete == downOpen /\ ~stopped => closed \subseteq completed

Received == InTurn /\ Accounted /\ DecryptsNext /\ ClosedIsComplete

\* Done is said, and counted, of a download that is complete.
SaidDone ==
    /\ counted => completed = Files
    /\ \A i \in DOMAIN toUploader :
         toUploader[i].type = "Done" => completed = Files

SafeInv == TypeInv /\ Received /\ SaidDone

LEMMA SafeInitially == Init => SafeInv
<1>. SUFFICES ASSUME Init PROVE SafeInv
  OBVIOUS
<1>1. \A f \in Files : Size[f] \in Nat /\ 0 < Size[f]
  BY Constants
<1>2. \A f \in Files : written[f] = << >> /\ expected[f] = 0
  BY DEF Init
<1>3. InTurn
  BY <1>2 DEF Init, InTurn
<1>4. Accounted
  BY <1>1, <1>2 DEF Init, Accounted, WrittenIsPrefix
<1>5. DecryptsNext /\ ClosedIsComplete
  BY DEF Init, DecryptsNext, ClosedIsComplete
<1>6. SaidDone
  BY DEF Init, SaidDone, Signal
<1>. QED
  BY <1>3, <1>4, <1>5, <1>6, TypeInitially DEF SafeInv, Received

\* A step that leaves the downloader's files alone leaves the invariant alone.
LEMMA ReceivedStays ==
    ASSUME TypeInv, Received, UNCHANGED <<started, fileVars, decrypting>>,
           closed \subseteq closed', closed' \subseteq Files,
           (downOpen' /\ ~stopped') => (downOpen /\ ~stopped /\ closed' = closed)
    PROVE  Received'
<1>. USE DEF fileVars
<1>1. InTurn'
  BY DEF Received, InTurn, Whole
<1>2. Accounted'
  BY DEF Received, Accounted, WrittenIsPrefix
<1>3. DecryptsNext'
  BY DEF Received, DecryptsNext
<1>4. ClosedIsComplete'
  BY DEF Received, ClosedIsComplete
<1>. QED
  BY <1>1, <1>2, <1>3, <1>4 DEF Received

\* What may happen to the messages for the uploader, and to its count.
Queued(m) == linkUp /\ toUploader' = Append(toUploader, m)
Dequeued == toUploader # << >> /\ toUploader' = Tail(toUploader)

LEMMA SaidDoneStays ==
    ASSUME TypeInv, SaidDone,
           completed = Files => completed' = Files,
           \/ UNCHANGED toUploader
           \/ toUploader' = << >>
           \/ Dequeued
           \/ \E m \in UpMessages :
                Queued(m) /\ (m.type = "Done" => completed' = Files),
           \/ UNCHANGED counted
           \/ toUploader # << >> /\ Head(toUploader).type = "Done"
    PROVE  SaidDone'
<1>0. toUploader \in Seq(UpMessages)
  BY DEF TypeInv, LinkOK
<1>1. counted' => completed' = Files
  <2>1. toUploader # << >> =>
          1 \in DOMAIN toUploader /\ Head(toUploader) = toUploader[1]
    BY <1>0
  <2>2. toUploader # << >> /\ Head(toUploader).type = "Done" => completed = Files
    BY <2>1 DEF SaidDone
  <2>3. counted => completed = Files
    BY DEF SaidDone
  <2>. QED
    BY <2>2, <2>3
<1>2. ASSUME NEW i \in DOMAIN toUploader', toUploader'[i].type = "Done"
      PROVE  completed' = Files
  <2>1. CASE UNCHANGED toUploader
    BY <1>2, <2>1 DEF SaidDone
  <2>2. CASE toUploader' = << >>
    BY <1>2, <2>2
  <2>3. CASE Dequeued
    <3>1. i + 1 \in DOMAIN toUploader /\ toUploader'[i] = toUploader[i + 1]
      BY <1>0, <2>3, <1>2 DEF Dequeued
    <3>. QED
      BY <1>2, <3>1 DEF SaidDone
  <2>4. ASSUME NEW m \in UpMessages, Queued(m), m.type = "Done" => completed' = Files
        PROVE  completed' = Files
    <3>1. \/ i \in DOMAIN toUploader /\ toUploader'[i] = toUploader[i]
          \/ toUploader'[i] = m
      BY <1>0, <2>4, <1>2 DEF Queued
    <3>. QED
      BY <1>2, <2>4, <3>1 DEF SaidDone
  <2>. QED
    BY <2>1, <2>2, <2>3, <2>4
<1>. QED
  BY <1>1, <1>2 DEF SaidDone

LEMMA TellsUploader ==
    ASSUME NEW m, Ask(m)
    PROVE  UNCHANGED toUploader \/ Queued(m)
BY DEF Ask, Tell, Queued

LEMMA SafeUploader ==
    ASSUME SafeInv, Uploader \/ Others \/ Faults
    PROVE  Received' /\ SaidDone'
<1>. USE DEF SafeInv
<1>1. /\ UNCHANGED downState
      /\ UNCHANGED toUploader \/ toUploader' = << >> \/ Dequeued
      /\ \/ UNCHANGED counted
         \/ toUploader # << >> /\ Head(toUploader).type = "Done"
  <2>. USE DEF downVars, Dequeued
  <2>1. CASE HandleRequestInfo
    BY <2>1 DEF HandleRequestInfo, Composes, Receives, Answer, Silently
  <2>2. CASE HandlePassword
    BY <2>2 DEF HandlePassword, Composes, Receives, Silently, CloseConnection
  <2>3. CASE HandleVerdict
    BY <2>3 DEF HandleVerdict, CloseConnection, linkVars
  <2>4. CASE HandleStart
    BY <2>4 DEF HandleStart, Receives, Answer, Silently, CloseConnection
  <2>5. CASE HandlePause
    BY <2>5 DEF HandlePause, Receives, Silently
  <2>6. CASE HandleDone
    BY <2>6 DEF HandleDone, Receives, Silently, CloseConnection
  <2>7. CASE SeeClose
    BY <2>7 DEF SeeClose, CloseConnection
  <2>8. ASSUME NEW i \in DOMAIN loops,
               BeginChunk(i) \/ EncryptedChunk(i) \/ SendChunk(i) \/ ChunkFails(i)
        PROVE  UNCHANGED <<downState, counted>>
                 /\ (UNCHANGED toUploader \/ toUploader' = << >>)
    BY <2>8 DEF BeginChunk, EncryptedChunk, SendChunk, ChunkFails, linkVars,
                CloseConnection
  <2>9. CASE Others
    BY <2>9 DEF Others, OthersAttempt, OthersComplete, linkVars
  <2>10. CASE Fail
    BY <2>10 DEF Fail, upState
  <2>11. CASE SendInfo
    BY <2>11 DEF SendInfo
  <2>. QED
    BY <2>1, <2>2, <2>3, <2>4, <2>5, <2>6, <2>7, <2>8, <2>9, <2>10, <2>11
       DEF Uploader, Faults
<1>2. UNCHANGED <<started, fileVars, decrypting, closed, downOpen, stopped>>
      /\ UNCHANGED completed
  BY <1>1 DEF downState, userVars, chunkVars, fileVars
<1>3. Received'
  BY <1>2, ReceivedStays DEF TypeInv, EndsOK
<1>4. SaidDone'
  BY <1>1, <1>2, SaidDoneStays
<1>. QED
  BY <1>3, <1>4

LEMMA Closing ==
    ASSUME SafeInv, CloseDownload, UNCHANGED <<started, fileVars, decrypting, counted>>
    PROVE  Received' /\ SaidDone'
<1>. USE DEF SafeInv
<1>1. /\ closed \subseteq closed' /\ closed' \subseteq Files /\ ~downOpen'
      /\ UNCHANGED toUploader
  BY DEF CloseDownload, Streams, TypeInv, EndsOK
<1>2. UNCHANGED completed
  BY DEF fileVars
<1>. QED
  BY <1>1, <1>2, ReceivedStays, SaidDoneStays

LEMMA SafeDownloaderMessages ==
    ASSUME SafeInv,
           HandlePasswordRequired \/ HandleInfo \/ OpenInfo \/ HandleChunk
             \/ HandleError \/ StopCloses \/ SeeDisconnect
    PROVE  Received' /\ SaidDone'
<1>. USE DEF SafeInv
<1>0. /\ UNCHANGED <<started, fileVars, decrypting, counted, stopped>>
      /\ UNCHANGED completed
  BY DEF HandlePasswordRequired, HandleInfo, OpenInfo, HandleChunk, HandleError,
         StopCloses, SeeDisconnect, userVars, fileVars, chunkVars, upVars, upState
<1>1. CASE CloseDownload
  BY <1>0, <1>1, Closing
<1>2. CASE UNCHANGED <<toUploader, downOpen, closed>>
  <2>1. Received'
    BY <1>0, <1>2, ReceivedStays DEF TypeInv, EndsOK
  <2>2. SaidDone'
    BY <1>0, <1>2, SaidDoneStays
  <2>. QED
    BY <2>1, <2>2
<1>. QED
  BY <1>1, <1>2 DEF HandlePasswordRequired, HandleInfo, OpenInfo, HandleChunk,
     HandleError, StopCloses, SeeDisconnect, Heard, linkVars

LEMMA SafeUser ==
    ASSUME SafeInv,
           \/ \E right \in BOOLEAN : SubmitPassword(right)
           \/ StartDownload \/ PauseDownload \/ ResumeDownload \/ StopDownload
    PROVE  Received' /\ SaidDone'
<1>. USE DEF SafeInv
<1>0. UNCHANGED <<completed, counted>>
  BY DEF SubmitPassword, StartDownload, PauseDownload, ResumeDownload,
         StopDownload, fileVars, upVars, upState
<1>1. SaidDone'
  <2>1. \E m \in UpMessages :
          m.type # "Done" /\ (UNCHANGED linkVars \/ Ask(m))
    <3>1. ASSUME NEW right \in BOOLEAN, SubmitPassword(right)
          PROVE  \E m \in UpMessages : m.type # "Done" /\ Ask(m)
      <4>1. UsePassword(right) \in UpMessages /\ UsePassword(right).type # "Done"
        BY MessageTypes DEF UsePassword
      <4>. QED
        BY <3>1, <4>1 DEF SubmitPassword
    <3>2. Signal("Pause") \in UpMessages /\ Signal("Pause").type # "Done"
      BY MessageTypes DEF Signal
    <3>3. \A f \in Files, o \in Nat :
            Start(f, o) \in UpMessages /\ Start(f, o).type # "Done"
      BY MessageTypes DEF Start
    <3>4. CASE StartDownload
      <4>1. 1 \in Files /\ 0 \in Nat
        BY Constants
      <4>. QED
        BY <3>3, <3>4, <4>1 DEF StartDownload
    <3>5. CASE PauseDownload \/ StopDownload
      BY <3>2, <3>5 DEF PauseDownload, StopDownload
    <3>6. CASE ResumeDownload
      <4>1. CASE active = NoFile
        BY <3>2, <3>6, <4>1 DEF ResumeDownload
      <4>2. CASE active # NoFile
        <5>1. active \in Files /\ expected[active] \in Nat
          BY <4>2 DEF TypeInv, FilesOK
        <5>. QED
          BY <3>3, <3>6, <4>2, <5>1 DEF ResumeDownload
      <4>. QED
        BY <4>1, <4>2
    <3>. QED
      BY <3>1, <3>4, <3>5, <3>6
  <2>2. PICK m \in UpMessages : m.type # "Done" /\ (UNCHANGED linkVars \/ Ask(m))
    BY <2>1
  <2>3. UNCHANGED toUploader \/ Queued(m)
    BY <2>2, TellsUploader DEF linkVars
  <2>. QED
    BY <1>0, <2>2, <2>3, SaidDoneStays
<1>2. CASE StartDownload
  <2>1. /\ ~started /\ started' /\ active' = 1 /\ stopped' = stopped
        /\ UNCHANGED <<expected, received, completed, written, decrypting,
                       closed, downOpen>>
    BY <1>2 DEF StartDownload, chunkVars
  <2>2. 1 \in Files
    BY Constants
  <2>3. InTurn'
    BY <2>1, <2>2 DEF Received, InTurn
  <2>4. Accounted'
    BY <2>1 DEF Received, Accounted, WrittenIsPrefix
  <2>5. DecryptsNext'
    BY <2>1 DEF Received, InTurn, DecryptsNext
  <2>6. ClosedIsComplete'
    BY <2>1 DEF Received, ClosedIsComplete
  <2>. QED
    BY <1>1, <2>3, <2>4, <2>5, <2>6 DEF Received
<1>3. CASE ~StartDownload
  <2>1. /\ UNCHANGED <<started, fileVars, decrypting>>
        /\ \/ UNCHANGED <<downOpen, closed, stopped>>
           \/ closed' = Files /\ stopped'
    BY <1>3 DEF SubmitPassword, PauseDownload, ResumeDownload, StopDownload,
                chunkVars, Streams
  <2>2. closed \subseteq closed' /\ closed' \subseteq Files
    BY <2>1 DEF TypeInv, EndsOK
  <2>. QED
    BY <1>1, <2>1, <2>2, ReceivedStays
<1>. QED
  BY <1>2, <1>3

LEMMA SafeSettle ==
    ASSUME SafeInv, Settle
    PROVE  Received' /\ SaidDone'
<1>. USE DEF SafeInv
<1>1. UNCHANGED <<started, fileVars, decrypting, downOpen, stopped, closed,
                  counted, completed>>
  BY DEF Settle, userVars, chunkVars, upVars, upState, fileVars
<1>2. PeerSet => completed = Files
  BY DEF Settle, PeerSet, Received, ClosedIsComplete, TypeInv, EndsOK, FilesOK
<1>3. Signal("Done") \in UpMessages
  BY MessageTypes
<1>4. \/ UNCHANGED toUploader
      \/ Queued(Signal("Done")) /\ completed' = Files
  BY <1>1, <1>2, TellsUploader DEF Settle, linkVars
<1>5. SaidDone'
  BY <1>1, <1>3, <1>4, SaidDoneStays
<1>6. Received'
  BY <1>1, ReceivedStays DEF TypeInv, EndsOK
<1>. QED
  BY <1>5, <1>6

LEMMA SafeCheckChunk ==
    ASSUME SafeInv, CheckChunk
    PROVE  Received' /\ SaidDone'
<1>. USE DEF SafeInv
<1>. DEFINE c == Head(chain)
<1>0. /\ UNCHANGED <<started, active, expected, completed, written, stopped,
                     counted>>
      /\ decrypting = << >>
  BY DEF CheckChunk, userVars, upVars, upState
<1>1. c \in Chunks /\ c.file \in Files /\ c.offset \in Nat
  BY HeadTypes DEF CheckChunk, Chunks
<1>2. CASE UNCHANGED <<linkVars, downOpen, closed, received, decrypting>>
  <2>1. Received'
    BY <1>0, <1>2, ReceivedStays DEF TypeInv, EndsOK, fileVars
  <2>2. SaidDone'
    BY <1>0, <1>2, SaidDoneStays DEF linkVars
  <2>. QED
    BY <2>1, <2>2
<1>3. CASE CloseDownload /\ UNCHANGED <<received, decrypting>>
  BY <1>0, <1>3, Closing DEF fileVars
<1>4. CASE /\ ~Ignored(c) /\ InOrder(c)
           /\ decrypting' = <<c>>
           /\ UNCHANGED <<linkVars, downOpen, closed>>
  <2>1. started /\ c.file = active /\ active \in Files
    <3>1. started /\ (active = NoFile \/ c.file <= active) /\ c.file \notin completed
      BY <1>4 DEF Ignored, Requested
    <3>2. \/ active \in Files /\ completed = 1..(active - 1)
          \/ active = NoFile /\ completed = Files
      BY <3>1 DEF Received, InTurn
    <3>3. active \in Files /\ completed = 1..(active - 1)
      BY <1>1, <3>1, <3>2
    <3>4. c.file \in 1..Len(Size) /\ active \in 1..Len(Size) /\ active # NoFile
      BY <1>1, <3>3, Constants DEF NoFile
    <3>5. c.file <= active /\ c.file \notin 1..(active - 1)
      BY <3>1, <3>3, <3>4
    <3>6. c.file = active
      BY <3>4, <3>5, Constants
    <3>. QED
      BY <3>1, <3>3, <3>6
  <2>4. InTurn'
    BY <1>0, <2>1 DEF Received, InTurn, Whole
  <2>5. Accounted'
    BY <1>0, <1>4 DEF Received, Accounted, WrittenIsPrefix
  <2>6. DecryptsNext'
    BY <1>0, <1>4, <2>1 DEF DecryptsNext, InOrder
  <2>7. ClosedIsComplete'
    BY <1>0, <1>4 DEF Received, ClosedIsComplete
  <2>8. SaidDone'
    BY <1>0, <1>4, SaidDoneStays DEF linkVars
  <2>. QED
    BY <2>4, <2>5, <2>6, <2>7, <2>8 DEF Received
<1>. QED
  BY <1>2, <1>3, <1>4 DEF CheckChunk

\* The rest of WriteChunk when the chunk goes into the stream of its file.
LEMMA SafeWrite ==
    ASSUME SafeInv, WriteChunk, NEW c, NEW f, c = Head(decrypting), f = c.file,
           ~Interrupted, f \notin closed
    PROVE  Received' /\ SaidDone'
<1>. USE DEF SafeInv
<1>0. /\ expected \in [Files -> Nat]
      /\ written \in [Files -> Seq(Nat)]
      /\ \A g \in Files : Size[g] \in Nat
      /\ completed \subseteq Files
  BY Constants DEF TypeInv, FilesOK
<1>1. /\ started /\ f = active /\ f \in Files /\ f \in 1..Len(Size)
      /\ f \notin completed
      /\ completed = 1..(f - 1)
  <2>1. decrypting # << >>
    BY DEF WriteChunk
  <2>2. started /\ f = active /\ active \in Files
    BY <2>1 DEF Received, DecryptsNext, InTurn
  <2>3. f \in 1..Len(Size) /\ active # NoFile
    BY <2>2, Constants DEF NoFile
  <2>4. completed = 1..(f - 1)
    BY <2>2, <2>3 DEF Received, InTurn
  <2>. QED
    BY <2>2, <2>3, <2>4
<1>2. /\ c.offset = expected[f] /\ expected[f] = Len(written[f])
      /\ c.offset + 1 <= Size[f] /\ c.offset \in Nat
  <2>1. decrypting # << >>
    BY DEF WriteChunk
  <2>2. c.offset = expected[f]
    BY <1>1, <2>1 DEF Received, DecryptsNext
  <2>3. expected[f] = Len(written[f]) /\ expected[f] < Size[f]
    BY <1>1 DEF Received, Accounted
  <2>4. expected[f] \in Nat /\ Size[f] \in Nat
    BY <1>0, <1>1
  <2>. QED
    BY <2>2, <2>3, <2>4
<1>3. /\ decrypting' = << >>
      /\ expected' = [expected EXCEPT ![f] = c.offset + 1]
      /\ written' = [written EXCEPT ![f] = Append(@, c.offset)]
      /\ UNCHANGED <<downOpen, started, stopped, counted>>
  BY DEF WriteChunk, userVars, upVars, upState, fileVars
<1>4. /\ written'[f] = Append(written[f], c.offset)
      /\ Len(written'[f]) = c.offset + 1
      /\ expected'[f] = c.offset + 1
      /\ \A g \in Files : g # f => /\ written'[g] = written[g]
                                   /\ expected'[g] = expected[g]
  <2>1. /\ written'[f] = Append(written[f], c.offset)
        /\ \A g \in Files : g # f => written'[g] = written[g]
    <3>1. written \in [Files -> Seq(Nat)] /\ f \in Files
      BY <1>0, <1>1
    <3>. QED
      BY <1>3, <3>1
  <2>2. /\ expected'[f] = c.offset + 1
        /\ \A g \in Files : g # f => expected'[g] = expected[g]
    <3>1. expected \in [Files -> Nat] /\ f \in Files
      BY <1>0, <1>1
    <3>. QED
      BY <1>3, <3>1
  <2>3. Len(written'[f]) = c.offset + 1
    <3>1. written[f] \in Seq(Nat) /\ Len(written[f]) = c.offset
      BY <1>0, <1>1, <1>2
    <3>. QED
      BY <2>1, <3>1
  <2>. QED
    BY <2>1, <2>2, <2>3
<1>5. Accounted'
  <2>1. closed \subseteq closed' /\ (IsFinal(c) => f \in closed')
    BY DEF WriteChunk
  <2>2. ~IsFinal(c) => c.offset + 1 < Size[f]
    BY <1>0, <1>1, <1>2 DEF IsFinal
  <2>3. \A g \in Files \ closed' :
          expected'[g] = Len(written'[g]) /\ expected'[g] < Size[g]
    BY <1>4, <2>1, <2>2 DEF Received, Accounted
  <2>4. \A i \in DOMAIN written'[f] : written'[f][i] = i - 1
    <3>1. \A i \in DOMAIN written[f] : written[f][i] = i - 1
      BY <1>1 DEF Received, Accounted, WrittenIsPrefix
    <3>2. written[f] \in Seq(Nat)
      BY <1>0, <1>1
    <3>. QED
      BY <3>1, <3>2, <1>2, <1>4
  <2>5. WrittenIsPrefix'
    BY <1>4, <2>4 DEF Received, Accounted, WrittenIsPrefix
  <2>. QED
    BY <2>3, <2>5 DEF Accounted
<1>6. DecryptsNext'
  BY <1>3 DEF DecryptsNext
<1>7. CASE IsFinal(c)
  <2>1. /\ completed' = completed \cup {f} /\ closed' = closed \cup {f}
        /\ active' = NextFile(f)
        /\ IF f = Len(Size) THEN UNCHANGED linkVars ELSE Ask(Start(f + 1, 0))
    BY <1>7 DEF WriteChunk
  <2>2. Len(written'[f]) = Size[f]
    BY <1>0, <1>1, <1>2, <1>4, <1>7 DEF IsFinal
  <2>3. \/ active' \in Files /\ completed' = 1..(active' - 1)
        \/ active' = NoFile /\ completed' = Files
    <3>1. CASE f = Len(Size)
      BY <1>1, <2>1, <3>1, Constants DEF NextFile
    <3>2. CASE f # Len(Size)
      <4>1. active' = f + 1 /\ f + 1 \in Files
        BY <1>1, <2>1, <3>2, Constants DEF NextFile
      <4>. QED
        BY <1>1, <2>1, <4>1
    <3>. QED
      BY <3>1, <3>2
  <2>4. \A g \in completed' : Len(written'[g]) = Size[g]
    BY <1>0, <1>1, <1>4, <2>1, <2>2 DEF Received, InTurn, Whole
  <2>5. \A g \in Files : written'[g] # << >> => g \in completed'
    BY <1>1, <1>4, <2>1 DEF Received, InTurn
  <2>6. InTurn'
    BY <1>1, <1>3, <2>3, <2>4, <2>5 DEF InTurn, Whole
  <2>7. ClosedIsComplete'
    BY <1>3, <2>1 DEF Received, ClosedIsComplete
  <2>8. SaidDone'
    <3>1. completed = Files => completed' = Files
      BY <1>1
    <3>2. f # Len(Size) => f + 1 \in Files
      BY <1>1, Constants
    <3>3. f # Len(Size) => Start(f + 1, 0) \in UpMessages
                             /\ Start(f + 1, 0).type # "Done"
      BY <3>2, MessageTypes DEF Start
    <3>4. UNCHANGED toUploader \/ (f # Len(Size) /\ Queued(Start(f + 1, 0)))
      BY <2>1, TellsUploader DEF linkVars
    <3>. QED
      BY <1>3, <3>1, <3>3, <3>4, SaidDoneStays
  <2>. QED
    BY <1>5, <1>6, <2>6, <2>7, <2>8 DEF Received
<1>8. CASE ~IsFinal(c)
  <2>1. UNCHANGED <<linkVars, completed, closed, active>>
    BY <1>8 DEF WriteChunk
  <2>2. \A g \in completed : Len(written'[g]) = Size[g]
    BY <1>0, <1>1, <1>4 DEF Received, InTurn, Whole
  <2>3. \A g \in Files : written'[g] # << >> => g \in completed \/ g = active
    BY <1>1, <1>4 DEF Received, InTurn
  <2>4. InTurn'
    BY <1>1, <1>3, <2>1, <2>2, <2>3 DEF Received, InTurn, Whole
  <2>5. ClosedIsComplete'
    BY <1>3, <2>1 DEF Received, ClosedIsComplete
  <2>6. SaidDone'
    BY <1>3, <2>1, SaidDoneStays DEF linkVars
  <2>. QED
    BY <1>5, <1>6, <2>4, <2>5, <2>6 DEF Received
<1>. QED
  BY <1>7, <1>8

LEMMA SafeWriteChunk ==
    ASSUME SafeInv, WriteChunk
    PROVE  Received' /\ SaidDone'
<1>. USE DEF SafeInv
<1>. DEFINE c == Head(decrypting)
            f == c.file
<1>0. /\ decrypting # << >> /\ decrypting' = << >>
      /\ UNCHANGED <<started, downOpen, stopped, counted>>
  BY DEF WriteChunk, userVars, upVars, upState
<1>1. CASE ~Interrupted /\ f \notin closed
  BY <1>1, SafeWrite
<1>2. CASE Interrupted \/ f \in closed
  <2>1. UNCHANGED <<linkVars, closed, active, completed, written>>
    BY <1>2 DEF WriteChunk, fileVars
  <2>2. \/ UNCHANGED expected
        \/ f \in closed /\ expected' = [expected EXCEPT ![f] = c.offset + 1]
    BY <1>2 DEF WriteChunk, fileVars
  <2>3. InTurn'
    BY <1>0, <2>1 DEF Received, InTurn, Whole
  <2>4. Accounted'
    <3>1. expected \in [Files -> Nat]
      BY DEF TypeInv, FilesOK
    <3>2. \A g \in Files \ closed : expected'[g] = expected[g]
      BY <2>2, <3>1
    <3>. QED
      BY <2>1, <3>2 DEF Received, Accounted, WrittenIsPrefix
  <2>5. DecryptsNext'
    BY <1>0 DEF DecryptsNext
  <2>6. ClosedIsComplete'
    BY <1>0, <2>1 DEF Received, ClosedIsComplete
  <2>7. SaidDone'
    BY <1>0, <2>1, SaidDoneStays DEF linkVars
  <2>. QED
    BY <2>3, <2>4, <2>5, <2>6, <2>7 DEF Received
<1>. QED
  BY <1>1, <1>2

LEMMA SafeStep == SafeInv /\ [Next]_vars => SafeInv'
<1>. SUFFICES ASSUME SafeInv, [Next]_vars PROVE SafeInv'
  OBVIOUS
<1>1. TypeInv'
  BY TypeStep DEF SafeInv
<1>2. Received' /\ SaidDone'
  <2>1. CASE Next
    BY <2>1, SafeUploader, SafeDownloaderMessages, SafeUser, SafeSettle,
       SafeCheckChunk, SafeWriteChunk DEF Next, Downloader, User
  <2>2. CASE UNCHANGED vars
    <3>1. /\ UNCHANGED <<started, fileVars, decrypting, closed, downOpen, stopped>>
          /\ UNCHANGED <<completed, toUploader, counted>>
      BY <2>2 DEF vars, linkVars, upState, downState, userVars, fileVars, chunkVars
    <3>2. Received'
      BY <3>1, ReceivedStays DEF SafeInv, TypeInv, EndsOK
    <3>3. SaidDone'
      BY <3>1, SaidDoneStays DEF SafeInv
    <3>. QED
      BY <3>2, <3>3
  <2>. QED
    BY <2>1, <2>2
<1>. QED
  BY <1>1, <1>2 DEF SafeInv

LEMMA AlwaysSafe == Spec => []SafeInv
<1>. QED
  BY SafeInitially, SafeStep, PTL DEF Spec

\* However the user pauses and resumes and whatever the network does, a stream
\* holds the chunks of its file from the first on, in order, each once
\* (processChunk, expectedOffset).
THEOREM WrittenPrefix == Spec => []WrittenIsPrefix
<1>1. SafeInv => WrittenIsPrefix
  BY DEF SafeInv, Received, Accounted
<1>. QED
  BY <1>1, AlwaysSafe, PTL

\* A file has data only when those before it are whole, and one that is called
\* complete is whole (startNextFileOrFinish, isFinalChunk).
THEOREM InOrderFiles == Spec => []FilesInOrder
<1>1. SafeInv => FilesInOrder
  <2>. SUFFICES ASSUME SafeInv PROVE FilesInOrder
    OBVIOUS
  <2>1. \A f \in completed : Whole(f)
    BY DEF SafeInv, Received, InTurn
  <2>2. ASSUME NEW f \in Files, NEW g \in Files, f < g, written[g] # << >>
        PROVE  f \in completed
    <3>1. started /\ (g \in completed \/ g = active)
      BY <2>2 DEF SafeInv, Received, InTurn
    <3>2. f \in 1..Len(Size) /\ g \in 1..Len(Size) /\ Len(Size) \in Nat
      BY <2>2, Constants
    <3>3. CASE active \in Files /\ completed = 1..(active - 1)
      <4>1. active \in 1..Len(Size)
        BY <3>3, Constants
      <4>. QED
        BY <2>2, <3>1, <3>2, <3>3, <4>1
    <3>4. CASE active = NoFile /\ completed = Files
      BY <3>4
    <3>. QED
      BY <3>1, <3>3, <3>4 DEF SafeInv, Received, InTurn
  <2>. QED
    BY <2>1, <2>2 DEF FilesInOrder
<1>. QED
  BY <1>1, AlwaysSafe, PTL

\* A connection counts against maxDownloads only when the other side has
\* everything (HandleDone, Settle).
THEOREM DeliveredWhenDone == Spec => []DoneIsDelivered
<1>1. SafeInv => DoneIsDelivered
  BY DEF SafeInv, SaidDone, Received, InTurn, DoneIsDelivered
<1>. QED
  BY <1>1, AlwaysSafe, PTL

----------------------------------------------------------------------------
(* A Start that follows no pause is accepted                               *)
(*                                                                         *)
(* As long as nobody pauses, one token passes round the two pages: a Start *)
(* on its way, the chunk loop it makes, the last chunk of the file on its  *)
(* way, the same chunk in the chain or under decryption, and the Start of  *)
(* the next file.                                                          *)

None(q, S) == \A i \in DOMAIN q : q[i] \notin S

AtMostOne(q, S) == \A i, j \in DOMAIN q : q[i] \in S /\ q[j] \in S => i = j

\* Everything of R in q is before everything of S.
Before(q, R, S) == \A i, j \in DOMAIN q : q[i] \in R /\ q[j] \in S => i < j

\* r is q after a step that adds nothing of S.
Calmer(q, r, S) ==
    /\ None(q, S) => None(r, S)
    /\ AtMostOne(q, S) => AtMostOne(r, S)

LEMMA TailFacts ==
    ASSUME NEW T, NEW q \in Seq(T), q # << >>, NEW S, NEW R
    PROVE  /\ Calmer(q, Tail(q), S)
           /\ None(q, S) => Head(q) \notin S
           /\ AtMostOne(q, S) /\ Head(q) \in S => None(Tail(q), S)
           /\ Before(q, R, S) => Before(Tail(q), R, S)
           /\ Before(q, R, S) /\ Head(q) \in S => None(q, R)
<1>1. /\ DOMAIN Tail(q) = 1..(Len(q) - 1) /\ DOMAIN q = 1..Len(q)
      /\ Len(q) \in Nat \ {0}
      /\ \A i \in 1..(Len(q) - 1) : Tail(q)[i] = q[i + 1]
      /\ Head(q) = q[1]
  OBVIOUS
<1>. QED
  BY <1>1 DEF Calmer, None, AtMostOne, Before

LEMMA AppendFacts ==
    ASSUME NEW T, NEW q \in Seq(T), NEW S, NEW R, NEW m
    PROVE  /\ m \notin S => Calmer(q, Append(q, m), S)
           /\ None(q, S) => AtMostOne(Append(q, m), S)
           /\ m \notin R /\ Before(q, R, S) => Before(Append(q, m), R, S)
           /\ None(q, S) /\ m \notin S => Before(Append(q, m), R, S)
<1>1. /\ DOMAIN Append(q, m) = 1..(Len(q) + 1) /\ DOMAIN q = 1..Len(q)
      /\ Len(q) \in Nat
      /\ \A i \in 1..Len(q) : Append(q, m)[i] = q[i]
      /\ Append(q, m)[Len(q) + 1] = m
  OBVIOUS
<1>. QED
  BY <1>1 DEF Calmer, None, AtMostOne, Before

LEMMA EmptyFacts ==
    ASSUME NEW S, NEW R, NEW q
    PROVE  /\ None(<< >>, S) /\ AtMostOne(<< >>, S) /\ Before(<< >>, R, S)
           /\ Calmer(q, << >>, S) /\ Calmer(q, q, S)
BY DEF None, AtMostOne, Before, Calmer

Starts == {m \in UpMessages : m.type = "Start"}
Pauses == {m \in UpMessages : m.type = "Pause"}
Greetings == {m \in UpMessages : m.type = "RequestInfo"}
Infos == {m \in DownMessages : m.type = "Info"}
Finals == {c \in Chunks : IsFinal(c)}

Calling == ~None(toUploader, Starts)
Sending == loops # << >>
Landing == ~None(toDownloader, Finals)
Waiting == ~None(chain, Finals)
Decrypting == ~None(decrypting, Finals)

OneToken ==
    /\ AtMostOne(toUploader, Starts) /\ Len(loops) <= 1
    /\ AtMostOne(toDownloader, Finals) /\ AtMostOne(chain, Finals)
    /\ Calling => ~Sending /\ ~Landing /\ ~Waiting /\ ~Decrypting
    /\ Sending => ~Landing /\ ~Waiting /\ ~Decrypting
    /\ Landing => ~Waiting /\ ~Decrypting
    /\ Waiting => ~Decrypting
    /\ Calling \/ Sending \/ Landing \/ Waiting \/ Decrypting => started

\* The first message is answered before anything else happens.
Greeting ==
    ~None(toUploader, Greetings) =>
        /\ toUploader = <<Signal("RequestInfo")>>
        /\ toDownloader = << >>
        /\ ~asked /\ ~info /\ ~started
        /\ verdicts = 0 /\ composing = 0 /\ opening = 0

\* An Info has been promised, sent, received or read.
Informed ==
    info \/ opening > 0 \/ composing > 0 \/ ~None(toDownloader, Infos)

\* The Pause of stopDownload is the last thing the uploader is told.
StopsLast ==
    /\ ~None(toUploader, Pauses) => stopped
    /\ Before(toUploader, Starts, Pauses)

\* The uploader's state is the one that the next Start finds.
Prepared ==
    upOpen =>
        /\ ~started \/ Calling \/ Landing \/ Waiting \/ Decrypting
             => sendingFile = NoFile
        /\ Informed => status \notin {"Pending", "Authenticating"}
        /\ status = "Paused" \/ sendingPaused => stopped /\ ~Calling
        /\ status = "Uploading" => Sending /\ ~sendingPaused
        /\ status \notin {"LockedOut", "Done", "Closed"}

Unpaused ==
    /\ started => info
    /\ OneToken /\ Greeting /\ StopsLast /\ Prepared

StartInv ==
    /\ TypeInv
    /\ paused => pauses > 0
    /\ pauses = 0 => Unpaused

\* A step that makes no token, and nothing else that the uploader would act on.
UpQuiet ==
    /\ Calmer(toUploader, toUploader', Starts)
    /\ Calmer(toUploader, toUploader', Pauses)
    /\ Calmer(toUploader, toUploader', Greetings)
    /\ Before(toUploader, Starts, Pauses) => Before(toUploader', Starts, Pauses)

DownQuiet ==
    /\ Calmer(toDownloader, toDownloader', Finals)
    /\ Calmer(toDownloader, toDownloader', Infos)

Quiet ==
    /\ UpQuiet
    /\ Calmer(toDownloader, toDownloader', Finals)
    /\ Calmer(chain, chain', Finals)
    /\ Calmer(decrypting, decrypting', Finals)
    /\ Len(loops') <= Len(loops)
    /\ UNCHANGED started
    /\ stopped => stopped'

LEMMA QuietKeeps ==
    ASSUME TypeInv, LoopsOK', Unpaused, Quiet
    PROVE  /\ OneToken' /\ StopsLast'
           /\ Calling' => Calling
           /\ Landing' => Landing
           /\ Waiting' => Waiting
           /\ Decrypting' => Decrypting
           /\ Sending' => Sending
<1>1. /\ Calling' => Calling
      /\ Landing' => Landing
      /\ Waiting' => Waiting
      /\ Decrypting' => Decrypting
  BY DEF Quiet, UpQuiet, Calmer, Calling, Landing, Waiting, Decrypting
<1>2. Sending' => Sending
  BY DEF Quiet, Sending, TypeInv, LoopsOK
<1>3. Len(loops) \in Nat /\ Len(loops') \in Nat
  BY DEF TypeInv, LoopsOK
<1>4. AtMostOne(toUploader', Starts) /\ AtMostOne(toDownloader', Finals)
      /\ AtMostOne(chain', Finals) /\ Len(loops') <= 1
      /\ started' = started
  BY <1>3 DEF Quiet, UpQuiet, Calmer, Unpaused, OneToken
<1>5. OneToken'
  BY <1>1, <1>2, <1>4 DEF Unpaused, OneToken
<1>6. StopsLast'
  BY DEF Unpaused, StopsLast, Quiet, UpQuiet, Calmer
<1>. QED
  BY <1>1, <1>2, <1>5, <1>6

LEMMA InformedStays ==
    ASSUME UNCHANGED <<info, opening, composing>>,
           Calmer(toDownloader, toDownloader', Infos)
    PROVE  Informed' => Informed
BY DEF Informed, Calmer

\* The uploader's connection keeps its state, or is closed.
LEMMA PreparedStays ==
    ASSUME TypeInv, LoopsOK', Unpaused, Quiet,
           \/ ~upOpen'
           \/ /\ UNCHANGED <<upOpen, status, sendingPaused, sendingFile, loops>>
              /\ Informed' => Informed
    PROVE  Prepared'
<1>1. CASE ~upOpen'
  BY <1>1 DEF Prepared
<1>2. CASE /\ UNCHANGED <<upOpen, status, sendingPaused, sendingFile, loops>>
           /\ Informed' => Informed
  <2>1. started' = started /\ (stopped => stopped')
    BY DEF Quiet
  <2>. QED
    BY <1>2, <2>1, QuietKeeps DEF Unpaused, Prepared, Sending
<1>. QED
  BY <1>1, <1>2

LEMMA MessageKinds ==
    /\ \A t \in {"Done", "PasswordRequired", "Info", "Error"} :
         Signal(t) \notin Starts /\ Signal(t) \notin Pauses
           /\ Signal(t) \notin Greetings /\ Signal(t) \notin Finals
    /\ \A t \in {"PasswordRequired", "Error"} : Signal(t) \notin Infos
    /\ \A right : /\ UsePassword(right) \notin Starts
                  /\ UsePassword(right) \notin Pauses
                  /\ UsePassword(right) \notin Greetings
    /\ Signal("Pause") \notin Starts /\ Signal("Pause") \notin Greetings
    /\ \A f, o : Start(f, o) \notin Pauses /\ Start(f, o) \notin Greetings
    /\ \A f, o : Chunk(f, o) \notin Infos
BY DEF Signal, UsePassword, Start, Chunk, Starts, Pauses, Greetings, Finals,
       Infos, Chunks

LEMMA UpTail ==
    ASSUME TypeInv, toUploader # << >>
    PROVE  /\ toUploader' = Tail(toUploader) => UpQuiet
           /\ Head(toUploader) \in Starts =>
                /\ ~None(toUploader, Starts)
                /\ AtMostOne(toUploader, Starts) => None(Tail(toUploader), Starts)
           /\ Head(toUploader) \in Pauses =>
                /\ ~None(toUploader, Pauses)
                /\ Before(toUploader, Starts, Pauses) => None(toUploader, Starts)
           /\ Head(toUploader) \in Greetings => ~None(toUploader, Greetings)
<1>. DEFINE q == toUploader
<1>1. q \in Seq(UpMessages)
  BY DEF TypeInv, LinkOK
<1>2. \A S \in {Starts, Pauses, Greetings} :
        /\ Calmer(q, Tail(q), S)
        /\ None(q, S) => Head(q) \notin S
        /\ AtMostOne(q, S) /\ Head(q) \in S => None(Tail(q), S)
  <2>1. ASSUME NEW S
        PROVE  /\ Calmer(q, Tail(q), S)
               /\ None(q, S) => Head(q) \notin S
               /\ AtMostOne(q, S) /\ Head(q) \in S => None(Tail(q), S)
    BY <1>1, TailFacts
  <2>. QED
    BY <2>1
<1>3. /\ Before(q, Starts, Pauses) => Before(Tail(q), Starts, Pauses)
      /\ Before(q, Starts, Pauses) /\ Head(q) \in Pauses => None(q, Starts)
  BY <1>1, TailFacts
<1>4. toUploader' = Tail(toUploader) => UpQuiet
  BY <1>2, <1>3 DEF UpQuiet
<1>. QED
  BY <1>2, <1>3, <1>4

LEMMA DownTail ==
    ASSUME TypeInv, toDownloader # << >>
    PROVE  /\ toDownloader' = Tail(toDownloader) => DownQuiet
           /\ Head(toDownloader) \in Infos => ~None(toDownloader, Infos)
           /\ Head(toDownloader) \in Finals =>
                /\ ~None(toDownloader, Finals)
                /\ AtMostOne(toDownloader, Finals)
                     => None(Tail(toDownloader), Finals)
<1>. DEFINE q == toDownloader
<1>1. q \in Seq(DownMessages)
  BY DEF TypeInv, LinkOK
<1>2. \A S \in {Finals, Infos} :
        /\ Calmer(q, Tail(q), S)
        /\ None(q, S) => Head(q) \notin S
        /\ AtMostOne(q, S) /\ Head(q) \in S => None(Tail(q), S)
  <2>1. ASSUME NEW S
        PROVE  /\ Calmer(q, Tail(q), S)
               /\ None(q, S) => Head(q) \notin S
               /\ AtMostOne(q, S) /\ Head(q) \in S => None(Tail(q), S)
    BY <1>1, TailFacts
  <2>. QED
    BY <2>1
<1>3. toDownloader' = Tail(toDownloader) => DownQuiet
  BY <1>2 DEF DownQuiet
<1>. QED
  BY <1>2, <1>3

\* What is neither a Start nor a Pause nor the first message is told quietly.
LEMMA UpTold ==
    ASSUME TypeInv, NEW m, m \notin Starts, m \notin Pauses, m \notin Greetings,
           toUploader' = Tell(toUploader, m)
    PROVE  UpQuiet
<1>1. toUploader \in Seq(UpMessages)
  BY DEF TypeInv, LinkOK
<1>2. Calmer(toUploader, Append(toUploader, m), Starts)
  BY <1>1, AppendFacts
<1>3. Calmer(toUploader, Append(toUploader, m), Pauses)
  BY <1>1, AppendFacts
<1>4. Calmer(toUploader, Append(toUploader, m), Greetings)
  BY <1>1, AppendFacts
<1>5. Before(toUploader, Starts, Pauses)
        => Before(Append(toUploader, m), Starts, Pauses)
  BY <1>1, AppendFacts
<1>6. toUploader' = Append(toUploader, m) \/ toUploader' = toUploader
  BY DEF Tell
<1>7. CASE toUploader' = toUploader
  BY <1>7, EmptyFacts DEF UpQuiet
<1>8. CASE toUploader' = Append(toUploader, m)
  BY <1>8, <1>2, <1>3, <1>4, <1>5 DEF UpQuiet
<1>. QED
  BY <1>6, <1>7, <1>8

LEMMA DownTold ==
    ASSUME TypeInv, NEW m, m \notin Finals, m \notin Infos,
           \/ toDownloader' = Tell(toDownloader, m)
           \/ toDownloader' = toDownloader \o <<m>>
    PROVE  DownQuiet
<1>1. toDownloader \in Seq(DownMessages)
  BY DEF TypeInv, LinkOK
<1>2. Calmer(toDownloader, Append(toDownloader, m), Finals)
  BY <1>1, AppendFacts
<1>3. Calmer(toDownloader, Append(toDownloader, m), Infos)
  BY <1>1, AppendFacts
<1>4. toDownloader \o <<m>> = Append(toDownloader, m)
  BY <1>1
<1>5. toDownloader' = Append(toDownloader, m) \/ toDownloader' = toDownloader
  BY <1>4 DEF Tell
<1>6. CASE toDownloader' = toDownloader
  BY <1>6, EmptyFacts DEF DownQuiet
<1>. QED
  BY <1>2, <1>3, <1>5, <1>6 DEF DownQuiet

LEMMA LinkStays ==
    /\ UNCHANGED toUploader => UpQuiet
    /\ toUploader' = << >> => UpQuiet
    /\ UNCHANGED toDownloader => DownQuiet
    /\ toDownloader' = << >> => DownQuiet
BY EmptyFacts DEF UpQuiet, DownQuiet

LEMMA ClosingIsQuiet ==
    ASSUME TypeInv
    PROVE  /\ CloseConnection(<< >>) => UpQuiet /\ DownQuiet /\ ~upOpen'
           /\ CloseConnection(<<Signal("Error")>>)
                => UpQuiet /\ DownQuiet /\ ~upOpen'
           /\ CloseDownload => UpQuiet /\ DownQuiet
<1>1. ASSUME CloseConnection(<< >>) PROVE UpQuiet /\ DownQuiet /\ ~upOpen'
  <2>1. toUploader' = << >> /\ ~upOpen'
    BY <1>1 DEF CloseConnection
  <2>2. toDownloader' = toDownloader
    BY <1>1 DEF CloseConnection, TypeInv, LinkOK
  <2>. QED
    BY <2>1, <2>2, LinkStays
<1>2. ASSUME CloseConnection(<<Signal("Error")>>)
      PROVE  UpQuiet /\ DownQuiet /\ ~upOpen'
  <2>1. toUploader' = << >> /\ ~upOpen'
    BY <1>2 DEF CloseConnection
  <2>2. Signal("Error") \notin Finals /\ Signal("Error") \notin Infos
    BY MessageKinds
  <2>3. \/ toDownloader' = toDownloader \o <<Signal("Error")>>
        \/ UNCHANGED toDownloader
    BY <1>2 DEF CloseConnection
  <2>. QED
    BY <2>1, <2>2, <2>3, LinkStays, DownTold
<1>3. ASSUME CloseDownload PROVE UpQuiet /\ DownQuiet
  BY <1>3, LinkStays DEF CloseDownload
<1>. QED
  BY <1>1, <1>2, <1>3

\* What the inductive invariant is for.
LEMMA StartsAccepted == StartInv => StartIsAccepted
<1>. SUFFICES ASSUME StartInv, Receives("Start"), pauses = 0
              PROVE  /\ sendingFile \in {NoFile, Head(toUploader).file}
                     /\ status \in {"Ready", "InvalidPassword"}
  BY DEF StartIsAccepted
<1>0. TypeInv /\ Unpaused /\ upOpen /\ status \in Statuses
  BY DEF StartInv, TypeInv, UpOK, Receives
<1>1. Head(toUploader) \in Starts /\ toUploader # << >>
  BY <1>0, HeadTypes DEF Receives, Starts
<1>2. Calling
  BY <1>0, <1>1, UpTail DEF Calling
<1>3. started /\ info /\ ~Sending
  BY <1>0, <1>2 DEF Unpaused, OneToken
<1>i. Informed
  BY <1>3 DEF Informed
<1>4. /\ sendingFile = NoFile
      /\ status \notin {"Pending", "Authenticating"}
      /\ status # "Paused" /\ status # "Uploading"
      /\ status \notin {"LockedOut", "Done", "Closed"}
  BY <1>0, <1>2, <1>3, <1>i DEF Unpaused, Prepared
<1>. QED
  BY <1>0, <1>4 DEF Statuses

LEMMA Greeted ==
    ASSUME Unpaused,
           \/ started \/ asked \/ info \/ toDownloader # << >>
           \/ verdicts > 0 \/ composing > 0 \/ opening > 0
           \/ Head(toUploader) # Signal("RequestInfo")
    PROVE  None(toUploader, Greetings)
<1>1. toUploader = <<Signal("RequestInfo")>>
        => Head(toUploader) = Signal("RequestInfo")
  OBVIOUS
<1>. QED
  BY <1>1 DEF Unpaused, Greeting

LEMMA GreetingStays ==
    ASSUME Unpaused, Calmer(toUploader, toUploader', Greetings),
           \/ None(toUploader, Greetings)
           \/ /\ toUploader' = toUploader \/ toUploader' = << >>
              /\ toDownloader' = toDownloader \/ toDownloader' = << >>
              /\ UNCHANGED <<asked, info, started, verdicts, composing, opening>>
    PROVE  Greeting'
<1>1. CASE None(toUploader, Greetings)
  BY <1>1 DEF Calmer, Greeting
<1>2. CASE /\ toUploader' = toUploader \/ toUploader' = << >>
           /\ toDownloader' = toDownloader \/ toDownloader' = << >>
           /\ UNCHANGED <<asked, info, started, verdicts, composing, opening>>
  <2>1. None(<< >>, Greetings)
    BY EmptyFacts
  <2>. QED
    BY <1>2, <2>1 DEF Unpaused, Greeting
<1>. QED
  BY <1>1, <1>2

\* Steps that leave the uploader's connection as it is, or close it.
LEMMA QuietStep ==
    ASSUME TypeInv, LoopsOK', Unpaused, Quiet,
           \/ ~upOpen'
           \/ UNCHANGED <<upOpen, status, sendingPaused, sendingFile, loops>>,
           info => info', Informed' => Informed,
           \/ None(toUploader, Greetings)
           \/ /\ toUploader' = toUploader \/ toUploader' = << >>
              /\ toDownloader' = toDownloader \/ toDownloader' = << >>
              /\ UNCHANGED <<asked, info, started, verdicts, composing, opening>>
    PROVE  Unpaused'
<1>1. OneToken' /\ StopsLast'
  BY QuietKeeps
<1>2. Prepared'
  BY PreparedStays
<1>3. Greeting'
  BY GreetingStays DEF Quiet, UpQuiet
<1>4. started' => info'
  BY DEF Quiet, Unpaused
<1>. QED
  BY <1>1, <1>2, <1>3, <1>4 DEF Unpaused

LEMMA ChunksStay ==
    ASSUME TypeInv
    PROVE  /\ UNCHANGED chunkVars => /\ Calmer(chain, chain', Finals)
                                    /\ Calmer(decrypting, decrypting', Finals)
           /\ UNCHANGED loops => Len(loops') <= Len(loops)
<1>1. Len(loops) \in Nat
  BY DEF TypeInv, LoopsOK
<1>. QED
  BY <1>1, EmptyFacts DEF chunkVars

LEMMA CalmDownloader ==
    ASSUME TypeInv, LoopsOK', Unpaused,
           HandlePasswordRequired \/ HandleInfo \/ OpenInfo \/ HandleError
             \/ StopCloses \/ SeeDisconnect \/ Settle \/ (\E right \in BOOLEAN : SubmitPassword(right))
    PROVE  Unpaused'
<1>0. /\ UNCHANGED <<upOpen, status, sendingPaused, sendingFile, loops>>
      /\ UNCHANGED <<started, stopped, verdicts, composing, chain, decrypting>>
  BY DEF HandlePasswordRequired, HandleInfo, OpenInfo, HandleError, StopCloses,
         SeeDisconnect, Settle, SubmitPassword, upVars, upState, sendVars,
         userVars, chunkVars
<1>q. ASSUME UpQuiet, DownQuiet PROVE Quiet
  BY <1>0, <1>q, ChunksStay DEF Quiet, DownQuiet, chunkVars
<1>1. CASE HandlePasswordRequired \/ HandleInfo
  <2>0. toDownloader # << >> /\ Heard
    BY <1>1 DEF HandlePasswordRequired, HandleInfo, Hears
  <2>1. toDownloader # << >> /\ Heard /\ info' = info
    BY <1>1, <2>0 DEF HandlePasswordRequired, HandleInfo
  <2>2. UpQuiet /\ DownQuiet
    BY <2>1, DownTail, LinkStays DEF Heard
  <2>3. Informed' => Informed
    <3>1. CASE HandlePasswordRequired
      BY <1>0, <2>2, <3>1, InformedStays DEF HandlePasswordRequired, DownQuiet
    <3>2. CASE HandleInfo
      <4>1. Head(toDownloader) \in Infos
        BY <2>1, <3>2, HeadTypes DEF HandleInfo, Hears, Infos
      <4>. QED
        BY <2>1, <4>1, DownTail DEF Informed
    <3>. QED
      BY <1>1, <3>1, <3>2
  <2>4. None(toUploader, Greetings)
    BY <2>1, Greeted
  <2>. QED
    BY <1>0, <1>q, <2>1, <2>2, <2>3, <2>4, QuietStep
<1>2. CASE HandleError \/ StopCloses \/ SeeDisconnect
  <2>1. UNCHANGED <<asked, info, opening>>
    BY <1>2 DEF HandleError, StopCloses, SeeDisconnect, userVars
  <2>2. CASE CloseDownload
    <3>1. toUploader' = toUploader /\ toDownloader' = << >>
      BY <2>2 DEF CloseDownload
    <3>2. UpQuiet /\ DownQuiet
      BY <2>2, ClosingIsQuiet
    <3>3. Informed' => Informed
      BY <1>0, <2>1, <3>2, InformedStays DEF DownQuiet
    <3>. QED
      BY <1>0, <1>q, <2>1, <3>1, <3>2, <3>3, QuietStep
  <2>3. CASE toDownloader # << >> /\ Heard
    <3>1. UpQuiet /\ DownQuiet
      BY <2>3, DownTail, LinkStays DEF Heard
    <3>2. None(toUploader, Greetings)
      BY <2>3, Greeted
    <3>3. Informed' => Informed
      BY <1>0, <2>1, <3>1, InformedStays DEF DownQuiet
    <3>. QED
      BY <1>0, <1>q, <2>1, <3>1, <3>2, <3>3, QuietStep
  <2>. QED
    BY <1>2, <2>2, <2>3 DEF HandleError, Hears, StopCloses, SeeDisconnect
<1>3. CASE Settle \/ \E right \in BOOLEAN : SubmitPassword(right)
  <2>1. /\ UNCHANGED <<asked, info, opening, toDownloader>>
        /\ started \/ asked
        /\ \/ UNCHANGED toUploader
           \/ Ask(Signal("Done"))
           \/ \E right \in BOOLEAN : Ask(UsePassword(right))
    BY <1>3 DEF Settle, SubmitPassword, userVars, linkVars, Ask
  <2>2. UpQuiet /\ DownQuiet
    <3>1. ASSUME NEW m, Ask(m), m \notin Starts, m \notin Pauses, m \notin Greetings
          PROVE  UpQuiet
      BY <3>1, UpTold DEF Ask
    <3>2. CASE UNCHANGED toUploader
      BY <2>1, <3>2, LinkStays
    <3>. QED
      BY <2>1, <3>1, <3>2, LinkStays, MessageKinds
  <2>3. None(toUploader, Greetings)
    BY <2>1, Greeted
  <2>4. Informed' => Informed
    BY <1>0, <2>1, <2>2, InformedStays DEF DownQuiet
  <2>. QED
    BY <1>0, <1>q, <2>1, <2>2, <2>3, <2>4, QuietStep
<1>4. CASE OpenInfo
  <2>1. /\ UNCHANGED <<toUploader, toDownloader>>
        /\ opening > 0 /\ info' = TRUE
    BY <1>4 DEF OpenInfo, linkVars
  <2>2. UpQuiet /\ DownQuiet
    BY <2>1, LinkStays
  <2>3. None(toUploader, Greetings)
    BY <2>1, Greeted
  <2>4. Informed
    BY <2>1 DEF Informed
  <2>. QED
    BY <1>0, <1>q, <2>1, <2>2, <2>3, <2>4, QuietStep
<1>. QED
  BY <1>1, <1>2, <1>3, <1>4

\* A handler of the uploader that has taken the message at the head.
LEMMA TookMessage ==
    ASSUME TypeInv, toUploader # << >>,
           \/ Answer(Signal("PasswordRequired")) \/ Answer(Signal("Error"))
           \/ Silently
    PROVE  /\ UpQuiet /\ DownQuiet
           /\ upOpen' = upOpen
           /\ toUploader' = Tail(toUploader)
<1>1. upOpen' = upOpen /\ toUploader' = Tail(toUploader)
  BY DEF Answer, Silently
<1>2. UpQuiet
  BY <1>1, UpTail
<1>3. CASE Silently
  BY <1>1, <1>2, <1>3, LinkStays DEF Silently
<1>4. CASE Answer(Signal("PasswordRequired")) \/ Answer(Signal("Error"))
  BY <1>1, <1>2, <1>4, DownTold, MessageKinds DEF Answer
<1>. QED
  BY <1>3, <1>4

LEMMA CalmClosing ==
    ASSUME TypeInv, LoopsOK', Unpaused,
           CloseConnection(<< >>) \/ CloseConnection(<<Signal("Error")>>),
           UNCHANGED <<info, started, stopped, chain, decrypting>>,
           Len(loops') <= Len(loops)
    PROVE  Unpaused'
<1>1. UpQuiet /\ DownQuiet /\ ~upOpen'
  BY ClosingIsQuiet
<1>2. Quiet
  BY <1>1, ChunksStay DEF Quiet, DownQuiet, chunkVars
<1>3. toUploader' = << >>
  BY DEF CloseConnection
<1>4. OneToken' /\ StopsLast'
  BY <1>2, QuietKeeps
<1>5. Greeting' /\ Prepared'
  BY <1>1, <1>3, EmptyFacts DEF Greeting, Prepared
<1>. QED
  BY <1>4, <1>5 DEF Unpaused

LEMMA CalmUploader ==
    ASSUME TypeInv, LoopsOK', Unpaused,
           HandlePassword \/ SendInfo \/ HandleVerdict \/ HandleDone \/ SeeClose
             \/ OthersAttempt \/ OthersComplete \/ Fail
    PROVE  Unpaused'
<1>0. /\ UNCHANGED <<asked, info, opening, started, stopped, chain, decrypting>>
      /\ UNCHANGED <<sendingFile, loops>>
      /\ Len(loops') <= Len(loops)
  <2>1. /\ UNCHANGED <<asked, info, opening, started, stopped, chain>>
        /\ UNCHANGED <<decrypting, sendingFile, loops>>
    BY DEF HandlePassword, SendInfo, HandleVerdict, HandleDone, SeeClose,
           OthersAttempt, OthersComplete, Fail, downVars, downState, upState,
           sendVars, userVars, chunkVars
  <2>. QED
    BY <2>1, ChunksStay
<1>q. ASSUME UpQuiet, DownQuiet PROVE Quiet
  BY <1>0, <1>q, ChunksStay DEF Quiet, DownQuiet, chunkVars
<1>c. ASSUME CloseConnection(<< >>) \/ CloseConnection(<<Signal("Error")>>)
      PROVE  Unpaused'
  BY <1>0, <1>c, CalmClosing
<1>1. CASE SeeClose
  BY <1>1, <1>c DEF SeeClose
<1>2. CASE HandleDone
  <2>1. CASE Silently /\ UNCHANGED <<status, sendingPaused>>
    <3>1. toUploader # << >> /\ Head(toUploader) # Signal("RequestInfo")
      BY <1>2 DEF HandleDone, Receives, Signal
    <3>2. UpQuiet /\ DownQuiet /\ upOpen' = upOpen
      BY <2>1, <3>1, TookMessage
    <3>3. Informed' => Informed
      BY <1>0, <1>2, <3>2, InformedStays DEF HandleDone, DownQuiet
    <3>. QED
      BY <1>0, <1>q, <2>1, <3>1, <3>2, <3>3, Greeted, QuietStep
  <2>. QED
    BY <1>2, <1>c, <2>1 DEF HandleDone
<1>3. CASE OthersAttempt \/ OthersComplete \/ Fail
  <2>1. UNCHANGED <<toUploader, toDownloader, upOpen, status, sendingPaused,
                    verdicts, composing>>
    BY <1>3 DEF OthersAttempt, OthersComplete, Fail, linkVars, upState, sendVars
  <2>2. UpQuiet /\ DownQuiet
    BY <2>1, LinkStays
  <2>3. Informed' => Informed
    BY <1>0, <2>1, <2>2, InformedStays DEF DownQuiet
  <2>. QED
    BY <1>0, <1>q, <2>1, <2>2, <2>3, QuietStep
<1>4. CASE HandlePassword
  <2>0. toUploader # << >> /\ Head(toUploader) # Signal("RequestInfo") /\ upOpen
    BY <1>4 DEF HandlePassword, Receives, Signal
  <2>1. CASE Silently /\ UNCHANGED <<status, sendingPaused, composing>>
    <3>1. UpQuiet /\ DownQuiet /\ upOpen' = upOpen
      BY <2>0, <2>1, TookMessage
    <3>2. Informed' => Informed
      BY <1>0, <2>1, <3>1, InformedStays DEF DownQuiet
    <3>. QED
      BY <1>0, <1>q, <2>0, <2>1, <3>1, <3>2, Greeted, QuietStep
  <2>2. CASE Silently /\ status' = "Ready" /\ UNCHANGED sendingPaused
    <3>1. UpQuiet /\ DownQuiet /\ upOpen' = upOpen
      BY <2>0, <2>2, TookMessage
    <3>2. None(toUploader', Greetings)
      BY <2>0, <3>1, Greeted DEF UpQuiet, Calmer
    <3>3. Quiet
      BY <1>q, <3>1
    <3>. QED
      BY <1>0, <2>0, <2>2, <3>1, <3>2, <3>3, QuietKeeps
         DEF Unpaused, Greeting, Prepared, Sending
  <2>. QED
    BY <1>4, <1>c, <2>1, <2>2 DEF HandlePassword, Composes
<1>5. CASE HandleVerdict
  <2>1. None(toUploader, Greetings)
    BY <1>5, Greeted DEF HandleVerdict
  <2>2. CASE /\ status' = "InvalidPassword"
             /\ toDownloader' = Tell(toDownloader, Signal("PasswordRequired"))
             /\ UNCHANGED <<toUploader, upOpen, sendingPaused>>
    <3>1. UpQuiet /\ DownQuiet
      BY <2>2, LinkStays, DownTold, MessageKinds
    <3>2. Quiet
      BY <1>q, <3>1
    <3>3. OneToken' /\ StopsLast' /\ Greeting'
      BY <2>1, <3>1, <3>2, QuietKeeps, GreetingStays DEF UpQuiet
    <3>. QED
      BY <1>0, <2>2, <3>1, <3>2, <3>3, QuietKeeps DEF Unpaused, Prepared, Sending
  <2>3. CASE ~upOpen /\ UNCHANGED <<linkVars, upOpen>>
    <3>1. UpQuiet /\ DownQuiet
      BY <2>3, LinkStays DEF linkVars
    <3>2. ~upOpen'
      BY <2>3
    <3>3. Informed' => Informed
      BY <1>0, <1>5, <3>1, InformedStays DEF HandleVerdict, DownQuiet
    <3>. QED
      BY <1>0, <1>q, <2>1, <3>1, <3>2, <3>3, QuietStep
  <2>. QED
    BY <1>5, <1>c, <2>2, <2>3 DEF HandleVerdict
<1>6. CASE SendInfo
  <2>1. /\ composing > 0
        /\ UNCHANGED <<toUploader, upOpen, status, sendingPaused>>
        /\ toDownloader' = Tell(toDownloader, Signal("Info"))
    BY <1>6 DEF SendInfo, sendVars
  <2>2. Informed /\ None(toUploader, Greetings)
    BY <2>1, Greeted DEF Informed
  <2>3. Calmer(toDownloader, toDownloader', Finals)
    <3>1. toDownloader \in Seq(DownMessages) /\ Signal("Info") \notin Finals
      BY MessageKinds DEF TypeInv, LinkOK
    <3>2. Calmer(toDownloader, Append(toDownloader, Signal("Info")), Finals)
      BY <3>1, AppendFacts
    <3>3. \/ toDownloader' = Append(toDownloader, Signal("Info"))
          \/ toDownloader' = toDownloader
      BY <2>1 DEF Tell
    <3>. QED
      BY <3>2, <3>3, EmptyFacts
  <2>4. Quiet
    BY <1>0, <2>1, <2>3, LinkStays, ChunksStay DEF Quiet, chunkVars
  <2>. QED
    BY <1>0, <2>1, <2>2, <2>4, QuietStep
<1>. QED
  BY <1>1, <1>2, <1>3, <1>4, <1>5, <1>6

LEMMA CalmRequest ==
    ASSUME TypeInv, LoopsOK', Unpaused, HandleRequestInfo
    PROVE  Unpaused'
<1>0. /\ UNCHANGED <<asked, info, opening, started, stopped, chain, decrypting>>
      /\ UNCHANGED <<sendingFile, sendingPaused, loops>>
  BY DEF HandleRequestInfo, downVars, downState, sendVars, userVars, chunkVars
<1>1. Head(toUploader) \in Greetings /\ toUploader # << >>
  BY HeadTypes DEF HandleRequestInfo, Receives, Greetings
<1>2. toUploader = <<Signal("RequestInfo")>> /\ toDownloader = << >>
      /\ ~info /\ ~started /\ composing = 0 /\ opening = 0
  BY <1>1, UpTail DEF Unpaused, Greeting
<1>3. /\ UpQuiet /\ DownQuiet /\ toUploader' = Tail(toUploader)
      /\ upOpen' = upOpen
  BY <1>1, TookMessage DEF HandleRequestInfo, Composes
<1>4. Quiet
  BY <1>0, <1>3, ChunksStay DEF Quiet, DownQuiet, chunkVars
<1>5. toUploader' = << >>
  BY <1>2, <1>3
<1>6. OneToken' /\ StopsLast'
  BY <1>4, QuietKeeps
<1>7. Greeting'
  BY <1>5, EmptyFacts DEF Greeting
<1>8. CASE status' = "Ready"
  BY <1>0, <1>2, <1>3, <1>4, <1>6, <1>7, <1>8, QuietKeeps
     DEF Unpaused, Prepared, Sending
<1>9. CASE status' = "Authenticating" /\ UNCHANGED composing
  <2>1. ~Informed
    BY <1>2, EmptyFacts DEF Informed
  <2>2. ~Informed'
    BY <1>0, <1>3, <1>9, <2>1, InformedStays DEF DownQuiet
  <2>. QED
    BY <1>0, <1>2, <1>3, <1>4, <1>6, <1>7, <1>9, <2>2, QuietKeeps
       DEF Unpaused, Prepared, Sending
<1>. QED
  BY <1>8, <1>9 DEF HandleRequestInfo, Composes

LEMMA CalmPause ==
    ASSUME TypeInv, LoopsOK', Unpaused, HandlePause
    PROVE  Unpaused'
<1>0. /\ UNCHANGED <<asked, info, started, stopped, chain, decrypting>>
      /\ UNCHANGED <<sendingFile, loops>>
      /\ status' = "Paused" /\ Silently
  BY DEF HandlePause, downVars, downState, userVars, chunkVars
<1>1. /\ Head(toUploader) \in Pauses /\ toUploader # << >>
      /\ Head(toUploader) # Signal("RequestInfo")
  BY HeadTypes DEF HandlePause, Receives, Pauses, Signal
<1>2. stopped /\ ~Calling
  BY <1>1, UpTail DEF Unpaused, StopsLast, Calling
<1>3. UpQuiet /\ DownQuiet /\ upOpen' = upOpen
  BY <1>0, <1>1, TookMessage
<1>4. Quiet
  BY <1>0, <1>3, ChunksStay DEF Quiet, DownQuiet, chunkVars
<1>5. OneToken' /\ StopsLast' /\ Greeting'
  BY <1>1, <1>3, <1>4, QuietKeeps, Greeted, GreetingStays DEF UpQuiet
<1>. QED
  BY <1>0, <1>2, <1>3, <1>4, <1>5, QuietKeeps DEF Unpaused, Prepared

LEMMA CalmStart ==
    ASSUME TypeInv, LoopsOK', Unpaused, HandleStart
    PROVE  Unpaused'
<1>. DEFINE m == Head(toUploader)
<1>0. UNCHANGED <<asked, info, opening, composing, started, stopped, chain,
                decrypting>>
  BY DEF HandleStart, downVars, downState, userVars, chunkVars
<1>1. m \in Starts /\ toUploader # << >> /\ m # Signal("RequestInfo") /\ upOpen
  BY HeadTypes DEF HandleStart, Receives, Starts, Signal
<1>2. Calling /\ None(Tail(toUploader), Starts)
  BY <1>1, UpTail DEF Calling, Unpaused, OneToken
<1>3. /\ started /\ ~Sending /\ ~Landing /\ ~Waiting /\ ~Decrypting
      /\ sendingFile = NoFile
      /\ status # "Paused" /\ ~sendingPaused /\ status # "Uploading"
  BY <1>1, <1>2 DEF Unpaused, OneToken, Prepared
<1>4. loops = << >> /\ loops \in Seq(Loops) /\ Len(loops) = 0
  BY <1>3 DEF Sending, TypeInv, LoopsOK
<1>5. CASE CloseConnection(<<Signal("Error")>>) /\ UNCHANGED loops
  BY <1>0, <1>4, <1>5, CalmClosing
<1>6. CASE Silently \/ Answer(Signal("Error"))
  <2>1. UpQuiet /\ DownQuiet /\ toUploader' = Tail(toUploader)
        /\ upOpen' = upOpen
    BY <1>1, <1>6, TookMessage
  <2>0. ~CloseConnection(<<Signal("Error")>>)
    BY <1>1, <2>1 DEF CloseConnection
  <2>2. Informed' => Informed
    BY <1>0, <2>1, InformedStays DEF DownQuiet
  <2>3. ~Calling' /\ ~Landing' /\ ~Waiting' /\ ~Decrypting'
    BY <1>0, <1>2, <1>3, <2>1
       DEF Calling, Landing, Waiting, Decrypting, DownQuiet, Calmer
  <2>4. Greeting' /\ StopsLast'
    <3>1. Greeting'
      BY <1>1, <2>1, Greeted, GreetingStays DEF UpQuiet
    <3>. QED
      BY <1>0, <2>1, <3>1 DEF Unpaused, StopsLast, UpQuiet, Calmer
  <2>5. AtMostOne(toUploader', Starts) /\ AtMostOne(toDownloader', Finals)
        /\ AtMostOne(chain', Finals)
    BY <1>0, <2>1 DEF Unpaused, OneToken, UpQuiet, DownQuiet, Calmer
  <2>6. Len(loops') <= 1
    <3>1. UNCHANGED loops
          \/ \E l : loops' = Append(loops, l)
      BY DEF HandleStart
    <3>. QED
      BY <1>4, <3>1
  <2>7. OneToken'
    BY <1>0, <1>3, <2>3, <2>5, <2>6 DEF OneToken
  <2>8. /\ status' \in {status, "Uploading"}
        /\ status' = "Uploading" => Sending'
        /\ ~sendingPaused'
    <3>1. \/ UNCHANGED status
          \/ /\ status' = "Uploading"
             /\ loops' = Append(loops, [file |-> m.file, offset |-> m.offset,
                                        at |-> "scheduled"])
      BY <2>0 DEF HandleStart
    <3>2. status' = "Uploading" => Sending'
      BY <1>3, <1>4, <3>1 DEF Sending
    <3>3. ~sendingPaused'
      BY <1>3, <2>0 DEF HandleStart
    <3>. QED
      BY <3>1, <3>2, <3>3
  <2>9. Prepared'
    BY <1>0, <1>1, <1>3, <2>1, <2>2, <2>3, <2>8 DEF Unpaused, Prepared
  <2>. QED
    BY <1>0, <2>4, <2>7, <2>9 DEF Unpaused
<1>. QED
  BY <1>5, <1>6 DEF HandleStart

\* Steps that leave the uploader's connection as it is and pass the token on.
LEMMA PreparedMoves ==
    ASSUME Unpaused,
           UNCHANGED <<upOpen, status, sendingPaused, sendingFile, loops>>,
           Calling' \/ Landing' \/ Waiting' \/ Decrypting'
             => ~started \/ Calling \/ Landing \/ Waiting \/ Decrypting,
           Calling' => Calling \/ ~stopped,
           started => started', stopped => stopped',
           Informed' => Informed
    PROVE  Prepared'
<1>1. Prepared
  BY DEF Unpaused
<1>2. Sending' <=> Sending
  BY DEF Sending
<1>3. ~started' => ~started
  OBVIOUS
<1>. QED
  BY <1>1, <1>2, <1>3 DEF Prepared

LEMMA RemoveOnly ==
    ASSUME NEW S, NEW s \in Seq(S), Len(s) = 1, NEW i \in DOMAIN s
    PROVE  RemoveAt(s, i) = << >>
<1>1. i = 1
  OBVIOUS
<1>2. SubSeq(s, 1, 0) = << >> /\ SubSeq(s, 2, 1) = << >>
  BY <1>1
<1>. QED
  BY <1>1, <1>2 DEF RemoveAt

LEMMA FinalChunk ==
    ASSUME TypeInv, NEW i \in DOMAIN loops
    PROVE  LET c == Chunk(loops[i].file, loops[i].offset)
           IN  c \in Finals <=> IsFinal(loops[i])
<1>0. loops[i] \in Loops
  BY DEF TypeInv, LoopsOK
<1>1. loops[i].file \in Files /\ loops[i].offset \in Nat
  BY <1>0 DEF Loops
<1>. QED
  BY <1>1 DEF Finals, Chunk, Chunks, IsFinal

LEMMA CalmLoops ==
    ASSUME TypeInv, LoopsOK', Unpaused, NEW i \in DOMAIN loops,
           BeginChunk(i) \/ EncryptedChunk(i) \/ SendChunk(i) \/ ChunkFails(i)
    PROVE  Unpaused'
<1>0. /\ UNCHANGED <<asked, info, opening, composing, started, stopped>>
      /\ UNCHANGED <<verdicts, chain, decrypting>>
      /\ loops \in Seq(Loops) /\ loops' \in Seq(Loops)
  BY DEF BeginChunk, EncryptedChunk, SendChunk, ChunkFails, downVars,
         downState, userVars, chunkVars, TypeInv, LoopsOK
<1>1. /\ Sending /\ Len(loops) = 1 /\ started
      /\ ~Calling /\ ~Landing /\ ~Waiting /\ ~Decrypting
      /\ None(toUploader, Greetings)
  <2>0. i \in 1..Len(loops) /\ Len(loops) \in Nat
    BY <1>0
  <2>1. Sending /\ Len(loops) <= 1
    BY <1>0, <2>0 DEF Sending, Unpaused, OneToken
  <2>2. Len(loops) = 1
    BY <2>0, <2>1
  <2>. QED
    BY <2>1, <2>2, Greeted DEF Unpaused, OneToken
<1>2. ASSUME EndLoop(i) PROVE loops' = << >> /\ Len(loops') = 0
  <2>1. RemoveAt(loops, i) = << >>
    <3>1. Len(loops) = 1
      BY <1>1
    <3>. QED
      BY <1>0, <3>1, RemoveOnly
  <2>. QED
    BY <1>2, <2>1 DEF EndLoop
<1>3. CASE ChunkFails(i)
  <2>1. Len(loops') <= Len(loops)
    BY <1>1, <1>2, <1>3 DEF ChunkFails
  <2>. QED
    BY <1>0, <1>3, <2>1, CalmClosing DEF ChunkFails
<1>4. CASE BeginChunk(i) \/ EncryptedChunk(i)
  <2>1. UNCHANGED <<toUploader, toDownloader, upOpen, status, sendingPaused,
                    sendingFile>>
    BY <1>4 DEF BeginChunk, EncryptedChunk, linkVars
  <2>2. \/ EndLoop(i) /\ (~upOpen \/ sendingPaused)
        \/ LoopGoes(i, "reading") \/ LoopGoes(i, "sending")
    BY <1>4 DEF BeginChunk, EncryptedChunk
  <2>3. Len(loops') <= 1 /\ (Sending' \/ ~upOpen \/ sendingPaused)
    <3>1. CASE EndLoop(i) /\ (~upOpen \/ sendingPaused)
      BY <1>2, <3>1
    <3>2. CASE LoopGoes(i, "reading") \/ LoopGoes(i, "sending")
      <4>1. Len(loops') = Len(loops)
        BY <1>0, <3>2 DEF LoopGoes
      <4>. QED
        BY <1>1, <4>1 DEF Sending
    <3>. QED
      BY <2>2, <3>1, <3>2
  <2>4. /\ ~Calling' /\ ~Landing' /\ ~Waiting' /\ ~Decrypting'
    BY <1>0, <1>1, <2>1 DEF Calling, Landing, Waiting, Decrypting
  <2>5. OneToken'
    BY <1>0, <1>1, <2>1, <2>3, <2>4 DEF Unpaused, OneToken
  <2>6. Greeting' /\ StopsLast'
    BY <1>0, <2>1 DEF Unpaused, Greeting, StopsLast
  <2>i. Informed' => Informed
    BY <1>0, <2>1, EmptyFacts, InformedStays
  <2>7. Prepared'
    BY <1>0, <1>1, <2>1, <2>3, <2>4, <2>i DEF Unpaused, Prepared
  <2>. QED
    BY <1>0, <2>5, <2>6, <2>7 DEF Unpaused
<1>5. CASE SendChunk(i)
  <2>. DEFINE l == loops[i]
              c == Chunk(l.file, l.offset)
  <2>1. UNCHANGED <<toUploader, upOpen, sendingPaused>>
    BY <1>5 DEF SendChunk
  <2>2. /\ ~Calling' /\ ~Waiting' /\ ~Decrypting'
        /\ AtMostOne(toUploader', Starts) /\ AtMostOne(chain', Finals)
        /\ Greeting' /\ StopsLast'
    <3>1. ~Calling' /\ ~Waiting' /\ ~Decrypting'
      BY <1>0, <1>1, <2>1 DEF Calling, Waiting, Decrypting
    <3>. QED
      BY <1>0, <1>1, <2>1, <3>1 DEF Unpaused, OneToken, Greeting, StopsLast
  <2>3. CASE ~upOpen
    <3>1. UNCHANGED toDownloader /\ loops' = << >> /\ Len(loops') = 0
      BY <1>2, <1>5, <2>3 DEF SendChunk
    <3>2. ~Landing' /\ AtMostOne(toDownloader', Finals) /\ ~Sending'
      BY <1>1, <3>1 DEF Unpaused, OneToken, Landing, Sending
    <3>3. OneToken'
      BY <2>2, <3>1, <3>2 DEF OneToken
    <3>4. Prepared'
      BY <2>1, <2>3 DEF Prepared
    <3>. QED
      BY <1>0, <2>2, <3>3, <3>4 DEF Unpaused
  <2>4. CASE upOpen
    <3>1. /\ toDownloader' = Tell(toDownloader, c)
          /\ sendingFile' = FileAfter(l)
          /\ IF IsFinal(l)
             THEN status' = "Ready" /\ EndLoop(i)
             ELSE loops' = [loops EXCEPT ![i] = Advanced(l)] /\ UNCHANGED status
      BY <1>5, <2>4 DEF SendChunk
    <3>2. /\ Calmer(toDownloader, toDownloader', Infos)
          /\ AtMostOne(toDownloader', Finals)
          /\ c \notin Finals => ~Landing'
      <4>. DEFINE q == Append(toDownloader, c)
      <4>1. toDownloader \in Seq(DownMessages) /\ c \notin Infos
            /\ None(toDownloader, Finals)
        BY <1>1, MessageKinds DEF TypeInv, LinkOK, Landing
      <4>2. Calmer(toDownloader, q, Infos)
        BY <4>1, AppendFacts
      <4>3. AtMostOne(q, Finals) /\ (c \notin Finals => None(q, Finals))
        BY <4>1, AppendFacts DEF Calmer
      <4>4. toDownloader' = q \/ toDownloader' = toDownloader
        BY <3>1 DEF Tell
      <4>. QED
        BY <1>1, <4>2, <4>3, <4>4, EmptyFacts DEF Landing, Unpaused, OneToken
    <3>i. Informed' => Informed
      BY <1>0, <3>2, InformedStays
    <3>3. CASE IsFinal(l)
      <4>1. loops' = << >> /\ Len(loops') = 0 /\ status' = "Ready"
            /\ sendingFile' = NoFile
        BY <1>2, <3>1, <3>3 DEF FileAfter
      <4>2. ~Sending'
        BY <4>1 DEF Sending
      <4>3. OneToken'
        BY <1>0, <1>1, <2>2, <3>2, <4>1, <4>2 DEF OneToken
      <4>4. Prepared'
        BY <1>0, <2>1, <2>2, <4>1 DEF Unpaused, Prepared
      <4>. QED
        BY <1>0, <2>2, <4>3, <4>4 DEF Unpaused
    <3>4. CASE ~IsFinal(l)
      <4>1. /\ loops' = [loops EXCEPT ![i] = Advanced(l)] /\ UNCHANGED status
            /\ sendingFile' = sendingFile
        BY <3>1, <3>4 DEF FileAfter
      <4>2. Len(loops') = 1 /\ Sending'
        <5>1. Len(loops') = Len(loops)
          BY <1>0, <4>1
        <5>. QED
          BY <1>0, <1>1, <5>1 DEF Sending
      <4>3. ~Landing'
        BY <3>2, <3>4, FinalChunk
      <4>4. OneToken'
        BY <1>0, <1>1, <2>2, <3>2, <4>2, <4>3 DEF OneToken
      <4>5. Prepared'
        BY <1>0, <1>1, <2>1, <2>2, <3>i, <4>1, <4>2, <4>3 DEF Unpaused, Prepared
      <4>. QED
        BY <1>0, <2>2, <4>4, <4>5 DEF Unpaused
    <3>. QED
      BY <3>3, <3>4
  <2>. QED
    BY <2>3, <2>4
<1>. QED
  BY <1>3, <1>4, <1>5

LEMMA CalmHandleChunk ==
    ASSUME TypeInv, LoopsOK', Unpaused, HandleChunk
    PROVE  Unpaused'
<1>. DEFINE c == Head(toDownloader)
<1>0. /\ UNCHANGED <<upOpen, status, sendingPaused, sendingFile, loops, verdicts>>
      /\ UNCHANGED <<asked, info, opening, composing, started, stopped>>
      /\ UNCHANGED <<decrypting, toUploader>>
      /\ toDownloader # << >> /\ toDownloader' = Tail(toDownloader)
      /\ UNCHANGED chain \/ chain' = Append(chain, c)
  BY DEF HandleChunk, Hears, Heard, upVars, upState, sendVars, userVars
<1>1. chain \in Seq(Chunks) /\ c \in Chunks
  <2>1. c \in DownMessages /\ c.type = "Chunk"
    BY <1>0, HeadTypes DEF HandleChunk, Hears
  <2>2. c \in Chunks
    BY <2>1 DEF DownMessages, Signals
  <2>. QED
    BY <2>2 DEF TypeInv, ChunksOK
<1>2. /\ DownQuiet
      /\ c \in Finals => Landing /\ ~Landing'
  BY <1>0, DownTail DEF Landing, Unpaused, OneToken
<1>3. AtMostOne(toDownloader', Finals) /\ (Landing' => Landing)
  BY <1>2 DEF DownQuiet, Calmer, Unpaused, OneToken, Landing
<1>i. Informed' => Informed
  BY <1>0, <1>2, InformedStays DEF DownQuiet
<1>4. /\ AtMostOne(chain', Finals)
      /\ Waiting' => Waiting \/ (Landing /\ ~Landing')
  <2>1. CASE UNCHANGED chain
    BY <2>1 DEF Unpaused, OneToken, Waiting
  <2>2. CASE chain' = Append(chain, c) /\ c \in Finals
    <3>1. None(chain, Finals)
      BY <1>2, <2>2 DEF Unpaused, OneToken, Waiting
    <3>2. AtMostOne(Append(chain, c), Finals)
      BY <1>1, <3>1, AppendFacts
    <3>. QED
      BY <1>2, <2>2, <3>2
  <2>3. CASE chain' = Append(chain, c) /\ c \notin Finals
    <3>1. Calmer(chain, Append(chain, c), Finals)
      BY <1>1, <2>3, AppendFacts
    <3>. QED
      BY <2>3, <3>1 DEF Calmer, Unpaused, OneToken, Waiting
  <2>. QED
    BY <1>0, <2>1, <2>2, <2>3
<1>5. (Calling' <=> Calling) /\ (Decrypting' <=> Decrypting)
      /\ (Sending' <=> Sending)
  BY <1>0 DEF Calling, Decrypting, Sending
<1>6. OneToken'
  BY <1>0, <1>3, <1>4, <1>5 DEF Unpaused, OneToken
<1>7. Greeting' /\ StopsLast'
  BY <1>0, Greeted DEF Unpaused, Greeting, StopsLast
<1>8. Prepared'
  BY <1>0, <1>3, <1>4, <1>5, <1>i, PreparedMoves
<1>. QED
  BY <1>0, <1>6, <1>7, <1>8 DEF Unpaused

LEMMA CalmCheckChunk ==
    ASSUME TypeInv, LoopsOK', Unpaused, CheckChunk
    PROVE  Unpaused'
<1>. DEFINE c == Head(chain)
<1>0. /\ UNCHANGED <<upOpen, status, sendingPaused, sendingFile, loops, verdicts>>
      /\ UNCHANGED <<asked, info, opening, composing, started, stopped>>
      /\ UNCHANGED toUploader
      /\ UNCHANGED toDownloader \/ toDownloader' = << >>
      /\ chain # << >> /\ chain' = Tail(chain)
      /\ decrypting = << >>
      /\ decrypting' = << >> \/ decrypting' = <<c>>
  BY DEF CheckChunk, CloseDownload, linkVars, upVars, upState, sendVars, userVars
<1>1. /\ Calmer(chain, chain', Finals)
      /\ c \in Finals => Waiting /\ ~Waiting'
  <2>1. chain \in Seq(Chunks)
    BY DEF TypeInv, ChunksOK
  <2>2. /\ Calmer(chain, Tail(chain), Finals)
        /\ None(chain, Finals) => c \notin Finals
        /\ AtMostOne(chain, Finals) /\ c \in Finals => None(Tail(chain), Finals)
    BY <1>0, <2>1, TailFacts
  <2>. QED
    BY <1>0, <2>2 DEF Waiting, Unpaused, OneToken
<1>2. AtMostOne(chain', Finals) /\ (Waiting' => Waiting)
  BY <1>1 DEF Calmer, Unpaused, OneToken, Waiting
<1>3. Decrypting' => Waiting /\ ~Waiting'
  <2>1. CASE decrypting' = << >>
    BY <2>1, EmptyFacts DEF Decrypting
  <2>2. CASE decrypting' = <<c>> /\ c \in Finals
    BY <1>1, <2>2
  <2>3. CASE decrypting' = <<c>> /\ c \notin Finals
    BY <2>3 DEF Decrypting, None
  <2>. QED
    BY <1>0, <2>1, <2>2, <2>3
<1>q. DownQuiet
  BY <1>0, LinkStays
<1>4. AtMostOne(toDownloader', Finals) /\ (Landing' => Landing)
  BY <1>q DEF DownQuiet, Calmer, Unpaused, OneToken, Landing
<1>i. Informed' => Informed
  BY <1>0, <1>q, InformedStays DEF DownQuiet
<1>5. (Calling' <=> Calling) /\ (Sending' <=> Sending)
  BY <1>0 DEF Calling, Sending
<1>6. OneToken'
  BY <1>0, <1>2, <1>3, <1>4, <1>5 DEF Unpaused, OneToken
<1>7. Greeting' /\ StopsLast'
  BY <1>0 DEF Unpaused, Greeting, StopsLast
<1>8. Prepared'
  BY <1>0, <1>2, <1>3, <1>4, <1>5, <1>i, PreparedMoves
<1>. QED
  BY <1>0, <1>6, <1>7, <1>8 DEF Unpaused

LEMMA UpToldStart ==
    ASSUME TypeInv, NEW f, NEW o, Ask(Start(f, o)),
           None(toUploader, Starts), None(toUploader, Pauses)
    PROVE  /\ AtMostOne(toUploader', Starts)
           /\ None(toUploader', Pauses)
           /\ Before(toUploader', Starts, Pauses)
           /\ Calmer(toUploader, toUploader', Greetings)
           /\ UNCHANGED toDownloader
<1>. DEFINE m == Start(f, o)
            q == Append(toUploader, m)
<1>1. toUploader \in Seq(UpMessages)
  BY DEF TypeInv, LinkOK
<1>2. m \notin Pauses /\ m \notin Greetings
  BY MessageKinds
<1>3. toUploader' = q \/ toUploader' = toUploader
  BY DEF Ask, Tell
<1>4. AtMostOne(q, Starts)
  BY <1>1, AppendFacts
<1>5. None(q, Pauses)
  BY <1>1, <1>2, AppendFacts DEF Calmer
<1>6. Calmer(toUploader, q, Greetings)
  BY <1>1, <1>2, AppendFacts
<1>7. AtMostOne(toUploader', Starts) /\ None(toUploader', Pauses)
  BY <1>3, <1>4, <1>5 DEF AtMostOne, None
<1>8. Before(toUploader', Starts, Pauses)
  BY <1>7 DEF Before, None
<1>9. Calmer(toUploader, toUploader', Greetings)
  BY <1>3, <1>6, EmptyFacts
<1>. QED
  BY <1>7, <1>8, <1>9 DEF Ask

LEMMA CalmWriteChunk ==
    ASSUME TypeInv, LoopsOK', Unpaused, WriteChunk
    PROVE  Unpaused'
<1>. DEFINE c == Head(decrypting)
<1>0. /\ UNCHANGED <<upOpen, status, sendingPaused, sendingFile, loops, verdicts>>
      /\ UNCHANGED <<asked, info, opening, composing, started, stopped, chain>>
      /\ decrypting # << >> /\ decrypting' = << >>
      /\ UNCHANGED toDownloader
  BY DEF WriteChunk, Ask, linkVars, upVars, upState, sendVars, userVars
<1>i. Informed' => Informed
  BY <1>0, EmptyFacts, InformedStays
<1>1. c \in Chunks
  BY <1>0, HeadTypes
<1>2. \/ UNCHANGED toUploader
      \/ ~stopped /\ IsFinal(c) /\ Ask(Start(c.file + 1, 0))
  BY DEF WriteChunk, Interrupted, linkVars
<1>3. ~Decrypting'
  BY <1>0, EmptyFacts DEF Decrypting
<1>4. (Landing' <=> Landing) /\ (Waiting' <=> Waiting) /\ (Sending' <=> Sending)
      /\ AtMostOne(toDownloader', Finals) /\ AtMostOne(chain', Finals)
  BY <1>0 DEF Landing, Waiting, Sending, Unpaused, OneToken
<1>5. CASE UNCHANGED toUploader
  <2>1. (Calling' <=> Calling)
    BY <1>5 DEF Calling
  <2>2. OneToken'
    BY <1>0, <1>3, <1>4, <1>5, <2>1 DEF Unpaused, OneToken
  <2>3. Greeting' /\ StopsLast'
    BY <1>0, <1>5 DEF Unpaused, Greeting, StopsLast
  <2>4. Prepared'
    BY <1>0, <1>3, <1>4, <1>i, <2>1, PreparedMoves
  <2>. QED
    BY <1>0, <2>2, <2>3, <2>4 DEF Unpaused
<1>6. CASE ~stopped /\ IsFinal(c) /\ Ask(Start(c.file + 1, 0))
  <2>1. Decrypting
    <3>1. c \in Finals /\ decrypting \in Seq(Chunks)
      BY <1>1, <1>6 DEF Finals, TypeInv, ChunksOK
    <3>. QED
      BY <1>0, <3>1, TailFacts DEF Decrypting
  <2>2. started /\ ~Calling /\ ~Sending /\ ~Landing /\ ~Waiting
    BY <2>1 DEF Unpaused, OneToken
  <2>3. None(toUploader, Starts) /\ None(toUploader, Pauses)
    BY <1>6, <2>2 DEF Calling, Unpaused, StopsLast
  <2>4. /\ AtMostOne(toUploader', Starts)
        /\ None(toUploader', Pauses)
        /\ Before(toUploader', Starts, Pauses)
        /\ Calmer(toUploader, toUploader', Greetings)
    BY <1>6, <2>3, UpToldStart
  <2>5. OneToken'
    BY <1>0, <1>3, <1>4, <2>2, <2>4 DEF Unpaused, OneToken
  <2>6. Greeting' /\ StopsLast'
    BY <2>2, <2>4, Greeted, GreetingStays DEF StopsLast
  <2>7. Prepared'
    BY <1>0, <1>6, <1>i, <2>1, PreparedMoves
  <2>. QED
    BY <1>0, <2>5, <2>6, <2>7 DEF Unpaused
<1>. QED
  BY <1>2, <1>5, <1>6

LEMMA CalmStartDownload ==
    ASSUME TypeInv, LoopsOK', Unpaused, StartDownload
    PROVE  Unpaused'
<1>0. /\ UNCHANGED <<upOpen, status, sendingPaused, sendingFile, loops, verdicts>>
      /\ UNCHANGED <<asked, info, opening, composing, stopped>>
      /\ UNCHANGED <<chain, decrypting, toDownloader>>
      /\ info /\ ~started /\ ~stopped /\ started' = TRUE
      /\ Ask(Start(1, 0))
  BY DEF StartDownload, Ask, upVars, upState, sendVars, chunkVars
<1>1. ~Calling /\ ~Sending /\ ~Landing /\ ~Waiting /\ ~Decrypting
  BY <1>0 DEF Unpaused, OneToken
<1>2. /\ AtMostOne(toUploader', Starts)
      /\ None(toUploader', Pauses)
      /\ Before(toUploader', Starts, Pauses)
      /\ Calmer(toUploader, toUploader', Greetings)
  <2>1. None(toUploader, Starts) /\ None(toUploader, Pauses)
    BY <1>0, <1>1 DEF Calling, Unpaused, StopsLast
  <2>. QED
    BY <1>0, <2>1, UpToldStart
<1>3. ~Sending' /\ ~Landing' /\ ~Waiting' /\ ~Decrypting'
  BY <1>0, <1>1 DEF Sending, Landing, Waiting, Decrypting
<1>4. OneToken'
  BY <1>0, <1>2, <1>3 DEF Unpaused, OneToken
<1>5. Greeting' /\ StopsLast'
  BY <1>0, <1>2, Greeted, GreetingStays DEF StopsLast
<1>6. Prepared'
  <2>1. Informed' => Informed
    BY <1>0, EmptyFacts, InformedStays
  <2>. QED
    BY <1>0, <2>1, PreparedMoves
<1>. QED
  BY <1>0, <1>4, <1>5, <1>6 DEF Unpaused

LEMMA CalmStopDownload ==
    ASSUME TypeInv, LoopsOK', Unpaused, StopDownload
    PROVE  Unpaused'
<1>0. /\ UNCHANGED <<upOpen, status, sendingPaused, sendingFile, loops, verdicts>>
      /\ UNCHANGED <<asked, info, opening, composing, started>>
      /\ UNCHANGED <<chain, decrypting, toDownloader>>
      /\ started /\ stopped' = TRUE
      /\ Ask(Signal("Pause"))
  BY DEF StopDownload, Downloading, Ask, upVars, upState, sendVars, chunkVars
<1>1. /\ Calmer(toUploader, toUploader', Starts)
      /\ Calmer(toUploader, toUploader', Greetings)
      /\ Before(toUploader, Starts, Pauses) => Before(toUploader', Starts, Pauses)
  <2>. DEFINE q == Append(toUploader, Signal("Pause"))
  <2>1. toUploader \in Seq(UpMessages)
    BY DEF TypeInv, LinkOK
  <2>2. Signal("Pause") \notin Starts /\ Signal("Pause") \notin Greetings
    BY MessageKinds
  <2>3. Calmer(toUploader, q, Starts)
    BY <2>1, <2>2, AppendFacts
  <2>4. Calmer(toUploader, q, Greetings)
    BY <2>1, <2>2, AppendFacts
  <2>5. Before(toUploader, Starts, Pauses) => Before(q, Starts, Pauses)
    BY <2>1, <2>2, AppendFacts
  <2>6. toUploader' = q \/ toUploader' = toUploader
    BY <1>0 DEF Ask, Tell
  <2>. QED
    BY <2>3, <2>4, <2>5, <2>6, EmptyFacts
<1>2. /\ Calling' => Calling /\ AtMostOne(toUploader', Starts)
      /\ AtMostOne(toUploader', Starts)
  BY <1>1 DEF Calling, Calmer, Unpaused, OneToken
<1>3. /\ Sending' <=> Sending
      /\ Landing' <=> Landing
      /\ Waiting' <=> Waiting
      /\ Decrypting' <=> Decrypting
  BY <1>0 DEF Sending, Landing, Waiting, Decrypting
<1>4. OneToken'
  BY <1>0, <1>2, <1>3 DEF Unpaused, OneToken
<1>5. Greeting' /\ StopsLast'
  BY <1>0, <1>1, Greeted, GreetingStays DEF Unpaused, StopsLast
<1>6. Prepared'
  <2>1. Informed' => Informed
    BY <1>0, EmptyFacts, InformedStays
  <2>. QED
    BY <1>0, <1>2, <1>3, <2>1, PreparedMoves
<1>. QED
  BY <1>0, <1>4, <1>5, <1>6 DEF Unpaused

LEMMA StartInitially == Init => StartInv
<1>. SUFFICES ASSUME Init PROVE StartInv
  OBVIOUS
<1>1. TypeInv
  BY TypeInitially
<1>2. /\ toUploader = <<Signal("RequestInfo")>> /\ toDownloader = << >>
      /\ loops = << >> /\ chain = << >> /\ decrypting = << >>
      /\ ~asked /\ ~info /\ ~started
      /\ verdicts = 0 /\ composing = 0 /\ opening = 0
      /\ status = "Pending" /\ sendingFile = NoFile /\ ~sendingPaused
      /\ ~paused
  BY DEF Init
<1>3. None(toUploader, Starts) /\ None(toUploader, Pauses)
      /\ AtMostOne(toUploader, Starts) /\ Before(toUploader, Starts, Pauses)
  BY <1>2 DEF None, AtMostOne, Before, Starts, Pauses, Signal
<1>4. /\ ~Calling /\ ~Sending /\ ~Landing /\ ~Waiting /\ ~Decrypting
      /\ AtMostOne(toDownloader, Finals) /\ AtMostOne(chain, Finals)
      /\ None(toDownloader, Infos)
      /\ Len(loops) = 0
  BY <1>2, <1>3, EmptyFacts
     DEF Calling, Sending, Landing, Waiting, Decrypting
<1>5. OneToken
  BY <1>3, <1>4 DEF OneToken
<1>6. Greeting /\ StopsLast
  BY <1>2, <1>3 DEF Greeting, StopsLast
<1>7. Prepared
  BY <1>2, <1>4 DEF Prepared, Informed
<1>. QED
  BY <1>1, <1>2, <1>5, <1>6, <1>7 DEF StartInv, Unpaused

\* Only PauseDownload pauses.
LEMMA PausesStay ==
    ASSUME Next, ~PauseDownload
    PROVE  pauses' = pauses /\ (paused' => paused)
<1>1. CASE Uploader
  <2>1. UNCHANGED downState
    BY <1>1 DEF Uploader, HandleRequestInfo, HandlePassword, SendInfo,
       HandleVerdict, HandleStart, HandlePause, HandleDone, SeeClose,
       BeginChunk, EncryptedChunk, SendChunk, downVars
  <2>. QED
    BY <2>1 DEF downState, userVars
<1>2. CASE Others \/ Faults
  <2>1. UNCHANGED downState
    BY <1>2 DEF Others, Faults, OthersAttempt, OthersComplete, Fail, ChunkFails,
       downVars
  <2>. QED
    BY <2>1 DEF downState, userVars
<1>3. CASE Downloader
  BY <1>3 DEF Downloader, HandlePasswordRequired, HandleInfo, OpenInfo,
     HandleChunk, HandleError, CheckChunk, WriteChunk, Settle, SeeDisconnect, StopCloses,
     userVars
<1>4. CASE User \/ ResumeDownload
  BY <1>4 DEF User, SubmitPassword, StartDownload, StopDownload, ResumeDownload
<1>. QED
  BY <1>1, <1>2, <1>3, <1>4 DEF Next

LEMMA StartStep == StartInv /\ [Next]_vars => StartInv'
<1>. SUFFICES ASSUME StartInv, [Next]_vars PROVE StartInv'
  OBVIOUS
<1>1. TypeInv /\ TypeInv'
  BY TypeStep DEF StartInv
<1>2. LoopsOK' /\ pauses \in Nat /\ pauses' \in Nat
  BY <1>1 DEF TypeInv, UserOK
<1>3. CASE PauseDownload
  <2>1. pauses' = pauses + 1
    BY <1>3 DEF PauseDownload
  <2>. QED
    BY <1>1, <1>2, <2>1 DEF StartInv
<1>4. CASE UNCHANGED vars
  <2>1. UNCHANGED <<linkVars, upState, userVars, chunkVars>>
    BY <1>4 DEF vars, downState
  <2>2. /\ UNCHANGED <<toUploader, toDownloader, upOpen, status, sendingPaused,
                       sendingFile, loops, verdicts, asked, info, started>>
        /\ UNCHANGED <<stopped, paused, pauses, opening, composing, chain,
                       decrypting>>
    BY <2>1 DEF linkVars, upState, sendVars, userVars, chunkVars
  <2>3. OneToken => OneToken'
    BY <2>2 DEF OneToken, Calling, Sending, Landing, Waiting, Decrypting
  <2>4. (Greeting => Greeting') /\ (StopsLast => StopsLast')
    BY <2>2 DEF Greeting, StopsLast
  <2>5. Prepared => Prepared'
    BY <2>2 DEF Prepared, Informed, Calling, Sending, Landing, Waiting,
       Decrypting
  <2>. QED
    BY <1>1, <2>2, <2>3, <2>4, <2>5 DEF StartInv, Unpaused
<1>5. CASE Next /\ ~PauseDownload
  <2>1. pauses' = pauses /\ (paused' => paused)
    BY <1>5, PausesStay
  <2>2. ASSUME pauses = 0 PROVE Unpaused'
    <3>1. Unpaused /\ ~ResumeDownload
      BY <1>1, <2>2 DEF StartInv, ResumeDownload
    <3>2. CASE Uploader \/ Others \/ Faults
      BY <1>1, <1>2, <3>1, <3>2, CalmUploader, CalmRequest, CalmPause,
         CalmStart, CalmLoops DEF Uploader, Others, Faults
    <3>3. CASE Downloader
      BY <1>1, <1>2, <3>1, <3>3, CalmDownloader, CalmHandleChunk,
         CalmCheckChunk, CalmWriteChunk DEF Downloader
    <3>4. CASE User
      BY <1>1, <1>2, <1>5, <3>1, <3>4, CalmDownloader, CalmStartDownload,
         CalmStopDownload DEF User
    <3>. QED
      BY <1>5, <3>1, <3>2, <3>3, <3>4 DEF Next
  <2>. QED
    BY <1>1, <2>1, <2>2 DEF StartInv
<1>. QED
  BY <1>3, <1>4, <1>5

\* A download that nobody pauses never has a Start refused for the file that
\* is being sent, nor for the status of the connection (onStart of
\* useUploaderConnections.ts, startNextFileOrFinish of useDownloader.ts).
THEOREM StartsAreAccepted == Spec => []StartIsAccepted
<1>. QED
  BY StartInitially, StartStep, StartsAccepted, PTL DEF Spec
=============================================================================
