------------------------------ MODULE Transfer ------------------------------
(***************************************************************************)
(* One file transfer between the browser that shares (one connection of    *)
(* useUploaderConnections.ts) and the one that downloads (useDownloader.ts)*)
(* from the moment their data channel opens.                               *)
(*                                                                         *)
(* The data channel is what PeerDataConnection gives: ordered and reliable *)
(* while the link is up.  Either end may close it, or the network may; the *)
(* other end notices later and the messages still under way may be lost.   *)
(* JavaScript runs a handler up to its next await without interruption:    *)
(* the steps below are the pieces between awaits.  Bytes are counted in    *)
(* chunks, so an empty file is one chunk.  Acknowledgements and pings only *)
(* move progress bars and idle timers and are left out, and an idle timer  *)
(* that fires is a Fail of the link.                                       *)
(***************************************************************************)
EXTENDS Naturals, Sequences, SequencesExt

CONSTANTS
    Size,          \* Size[f]: chunks of file f of the share
    FullChunk,     \* MAX_CHUNK_SIZE, in any unit
    LastChunk,     \* LastChunk[f]: its last chunk; 0 if so small that repeats of
                   \* it stay within what the size check allows for overhead
    Protected,     \* whether the share has a password
    MaxAttempts,   \* MAX_PASSWORD_ATTEMPTS, over all connections
    MaxDownloads,  \* maxDownloads; 0 means unlimited
    MaxPauses,     \* (bound) times the user pauses
    MaxGuesses     \* (bound) times the user submits a password

ASSUME TransferAssumption ==
    /\ Size \in Seq(Nat \ {0})
    /\ Size # << >>
    /\ FullChunk \in Nat
    /\ LastChunk \in [DOMAIN Size -> 0..FullChunk]
    /\ Protected \in BOOLEAN
    /\ {MaxAttempts, MaxDownloads, MaxPauses, MaxGuesses} \subseteq Nat

Files == DOMAIN Size
NoFile == 0

VARIABLES
    linkUp,        \* the channel still carries messages
    toUploader,    \* messages on their way to the uploader
    toDownloader,  \* messages on their way to the downloader
    \* The uploader's connection.
    upOpen,        \* its end has not seen the channel close
    status,        \* connectionStatus
    counted,       \* the connection is listed as Done
    sendingPaused,
    sendingFile,   \* activeFileName of the connection
    loops,         \* the chunk loops that Start messages have scheduled
    verdicts,      \* wrong passwords whose record on the server is awaited
    composing,     \* Infos whose commitments and encryption are awaited
    attempts,      \* sharedPasswordAttempts, of all connections
    others,        \* other connections listed as Done
    \* The downloader.
    downOpen,      \* its end has not seen the channel close
    asked,         \* isPasswordRequired
    guesses,       \* passwords submitted
    opening,       \* Infos whose decryption and verification are awaited
    info,          \* filesInfo is known
    started,       \* startDownload has run
    stopped,       \* stopDownload has run
    paused,        \* isPaused
    pauses,        \* times the user has paused
    active,        \* activeFileName of the download
    expected,      \* expectedOffset
    received,      \* totalBytesReceived
    chain,         \* chunks in chunkChain that wait for their turn
    decrypting,    \* the chunk whose decryption is awaited, in a sequence
    completed,     \* completedFiles
    closed,        \* files whose stream is closed
    written,       \* written[f]: offsets of the chunks put into f's stream
    done,          \* doneRef: the page says that the download is complete
    cut            \* (history) the network, an idle timer or a file failed

linkVars == <<linkUp, toUploader, toDownloader>>
sendVars == <<sendingPaused, sendingFile, loops>>
sharedVars == <<attempts, others>>
upState ==
    <<upOpen, status, counted, verdicts, composing, sendVars, sharedVars>>
userVars == <<asked, guesses, opening, info, started, stopped, paused, pauses>>
fileVars == <<active, expected, received, completed, written>>
chunkVars == <<chain, decrypting>>
downState == <<downOpen, userVars, fileVars, chunkVars, closed, done>>
upVars == <<upState, cut>>
downVars == <<downState, cut>>
vars == <<linkVars, upState, downState, cut>>

Statuses == {"Pending", "Authenticating", "InvalidPassword", "LockedOut",
             "Ready", "Uploading", "Paused", "Done", "Closed"}

Start(f, o) == [type |-> "Start", file |-> f, offset |-> o]
Chunk(f, o) == [type |-> "Chunk", file |-> f, offset |-> o]
UsePassword(right) == [type |-> "UsePassword", right |-> right]
Signal(type) == [type |-> type]

Signals == [type : {"RequestInfo", "Pause", "Done", "PasswordRequired",
                    "Info", "Error"}]
Chunks == [type : {"Chunk"}, file : Files, offset : Nat]
UpMessages == Signals \cup [type : {"UsePassword"}, right : BOOLEAN]
                \cup [type : {"Start"}, file : Files, offset : Nat]
DownMessages == Signals \cup Chunks
Loops == [file : Files, offset : Nat, at : {"scheduled", "reading", "sending"}]

Init ==
    /\ linkUp = TRUE
    /\ toUploader = <<Signal("RequestInfo")>>
    /\ toDownloader = << >>
    /\ upOpen = TRUE
    /\ status = "Pending"
    /\ counted = FALSE
    /\ sendingPaused = FALSE
    /\ sendingFile = NoFile
    /\ loops = << >>
    /\ verdicts = 0
    /\ composing = 0
    /\ attempts = 0
    /\ others = 0
    /\ downOpen = TRUE
    /\ asked = FALSE
    /\ guesses = 0
    /\ opening = 0
    /\ info = FALSE
    /\ started = FALSE
    /\ stopped = FALSE
    /\ paused = FALSE
    /\ pauses = 0
    /\ active = NoFile
    /\ expected = [f \in Files |-> 0]
    /\ received = [f \in Files |-> 0]
    /\ chain = << >>
    /\ decrypting = << >>
    /\ completed = {}
    /\ closed = {}
    /\ written = [f \in Files |-> << >>]
    /\ done = FALSE
    /\ cut = FALSE

\* (Fault) counts the chunk that begins at the end of the file.
IsFinal_OffByOne(c) == c.offset + 2 >= Size[c.file]

IsFinal(c) == c.offset + 1 >= Size[c.file]

Tell(queue, m) == IF linkUp THEN Append(queue, m) ELSE queue

----------------------------------------------------------------------------
(* Uploader: messages                                                      *)

Receives(type) ==
    upOpen /\ toUploader # << >> /\ Head(toUploader).type = type

\* A handler that leaves the connection open, with an answer or without.
Answer(m) ==
    /\ toUploader' = Tail(toUploader)
    /\ toDownloader' = Tell(toDownloader, m)
    /\ UNCHANGED <<linkUp, upOpen>>

Silently ==
    /\ toUploader' = Tail(toUploader)
    /\ UNCHANGED <<linkUp, toDownloader, upOpen>>

\* close and onClose, after a last message if there is one.  What has not
\* been received yet never will be.
CloseConnection(last) ==
    /\ upOpen' = FALSE
    /\ linkUp' = FALSE
    /\ toUploader' = << >>
    /\ status' = "Closed"
    /\ sendingPaused' = TRUE
    /\ toDownloader' = IF linkUp THEN toDownloader \o last ELSE toDownloader

\* The connection is Ready before the Info is sent.
Composes ==
    /\ status' = "Ready"
    /\ composing' = composing + 1
    /\ Silently

HandleRequestInfo ==
    /\ Receives("RequestInfo")
    /\ IF Protected
       THEN /\ status' = "Authenticating"
            /\ Answer(Signal("PasswordRequired"))
            /\ UNCHANGED composing
       ELSE Composes
    /\ UNCHANGED <<counted, verdicts, sendVars, sharedVars, downVars>>

\* (Fault) one wrong password too many.
LockedOut_OffByOne == attempts > MaxAttempts

LockedOut == attempts >= MaxAttempts

\* The shared counter is only raised by wrong passwords, before the await.
HandlePassword ==
    /\ Receives("UsePassword")
    /\ \/ /\ LockedOut
          /\ CloseConnection(<<Signal("Error")>>)
          /\ UNCHANGED <<verdicts, composing, attempts>>
       \/ /\ ~LockedOut
          /\ Head(toUploader).right
          /\ Composes
          /\ UNCHANGED <<sendingPaused, verdicts, attempts>>
       \/ /\ ~LockedOut
          /\ ~Head(toUploader).right
          /\ attempts' = attempts + 1
          /\ verdicts' = verdicts + 1
          /\ Silently
          /\ UNCHANGED <<status, sendingPaused, composing>>
    /\ UNCHANGED <<counted, sendingFile, loops, others, downVars>>

\* The rest of sendInfoMessage.
SendInfo ==
    /\ composing > 0
    /\ composing' = composing - 1
    /\ toDownloader' = Tell(toDownloader, Signal("Info"))
    /\ UNCHANGED <<linkUp, toUploader, upOpen, status, counted, verdicts,
                   sendVars, sharedVars, downVars>>

\* recordServerPasswordAttempt has answered, or failed, which locks out.
\* The status is overwritten whatever has happened since.
HandleVerdict ==
    /\ verdicts > 0
    /\ verdicts' = verdicts - 1
    /\ \/ /\ status' = "InvalidPassword"
          /\ toDownloader' = Tell(toDownloader, Signal("PasswordRequired"))
          /\ UNCHANGED <<linkUp, toUploader, upOpen, sendingPaused>>
       \/ /\ upOpen
          /\ CloseConnection(<<Signal("Error")>>)
       \/ /\ ~upOpen
          /\ status' = "LockedOut"
          /\ UNCHANGED <<linkVars, upOpen, sendingPaused>>
    /\ UNCHANGED <<counted, composing, sendingFile, loops, sharedVars, downVars>>

LimitReached == MaxDownloads > 0 /\ others >= MaxDownloads

MayStart(m) ==
    /\ sendingFile \in {NoFile, m.file}
    /\ status \in {"Ready", "Paused"}

HandleStart ==
    /\ Receives("Start")
    /\ LET m == Head(toUploader) IN
       \/ /\ LimitReached
          /\ CloseConnection(<<Signal("Error")>>)
          /\ UNCHANGED <<sendingFile, loops>>
       \/ /\ ~LimitReached
          /\ MayStart(m)
          /\ status' = "Uploading"
          /\ sendingFile' = m.file
          /\ sendingPaused' = FALSE
          /\ loops' = Append(loops, [file |-> m.file, offset |-> m.offset,
                                     at |-> "scheduled"])
          /\ Silently
       \/ /\ ~LimitReached
          /\ ~MayStart(m)
          /\ IF sendingFile \in {NoFile, m.file}
             THEN sendingFile' = m.file /\ sendingPaused' = FALSE
             ELSE UNCHANGED <<sendingFile, sendingPaused>>
          /\ Answer(Signal("Error"))
          /\ UNCHANGED <<status, loops>>
    /\ UNCHANGED <<counted, verdicts, composing, sharedVars, downVars>>

HandlePause ==
    /\ Receives("Pause")
    /\ status' = "Paused"
    /\ sendingPaused' = TRUE
    /\ Silently
    /\ UNCHANGED <<counted, sendingFile, loops, verdicts, composing, sharedVars,
                   downVars>>

HandleDone ==
    /\ Receives("Done")
    /\ IF status \in {"Ready", "Uploading"}
       THEN counted' = TRUE /\ CloseConnection(<< >>)
       ELSE Silently /\ UNCHANGED <<counted, status, sendingPaused>>
    /\ UNCHANGED <<sendingFile, loops, verdicts, composing, sharedVars, downVars>>

----------------------------------------------------------------------------
(* Uploader: chunk loops                                                   *)

EndLoop(i) == loops' = RemoveAt(loops, i)

LoopGoes(i, at) == loops' = [loops EXCEPT ![i].at = at]

\* The scheduled piece of sendNextChunkAsync, up to the read of the file.
BeginChunk(i) ==
    /\ loops[i].at = "scheduled"
    /\ IF sendingPaused THEN EndLoop(i) ELSE LoopGoes(i, "reading")
    /\ UNCHANGED <<linkVars, upOpen, status, counted, verdicts, composing,
                   sendingPaused, sendingFile, sharedVars, downVars>>

\* The chunk is read and encrypted; next, the send waits for the buffer.
EncryptedChunk(i) ==
    /\ loops[i].at = "reading"
    /\ IF ~upOpen \/ sendingPaused THEN EndLoop(i) ELSE LoopGoes(i, "sending")
    /\ UNCHANGED <<linkVars, upOpen, status, counted, verdicts, composing,
                   sendingPaused, sendingFile, sharedVars, downVars>>

\* (Fault) the file is still being sent after its last chunk.
FileAfter_Last(l) == sendingFile

\* activeFileName once l's chunk is sent.
FileAfter(l) == IF IsFinal(l) THEN NoFile ELSE sendingFile

Advanced(l) == [l EXCEPT !.offset = @ + 1, !.at = "scheduled"]

\* Neither flag nor status is looked at again.  send throws when closed.
SendChunk(i) ==
    /\ loops[i].at = "sending"
    /\ LET l == loops[i] IN
       \/ /\ upOpen
          /\ toDownloader' = Tell(toDownloader, Chunk(l.file, l.offset))
          /\ sendingFile' = FileAfter(l)
          /\ IF IsFinal(l)
             THEN status' = "Ready" /\ EndLoop(i)
             ELSE loops' = [loops EXCEPT ![i] = Advanced(l)] /\ UNCHANGED status
       \/ /\ ~upOpen
          /\ EndLoop(i)
          /\ UNCHANGED <<toDownloader, sendingFile, status>>
    /\ UNCHANGED <<linkUp, toUploader, upOpen, counted, verdicts, composing,
                   sendingPaused, sharedVars, downVars>>

\* The read fails, or the buffer does not drain in a minute.
ChunkFails(i) ==
    /\ loops[i].at \in {"reading", "sending"}
    /\ upOpen
    /\ EndLoop(i)
    /\ CloseConnection(<<Signal("Error")>>)
    /\ cut' = TRUE
    /\ UNCHANGED <<counted, verdicts, composing, sendingFile, sharedVars,
                   downState>>

----------------------------------------------------------------------------
(* The rest of the uploader                                                *)

SeeClose ==
    /\ upOpen
    /\ ~linkUp
    /\ CloseConnection(<< >>)
    /\ UNCHANGED <<counted, verdicts, composing, sendingFile, loops, sharedVars,
                   downVars>>

\* The handlers of the other connections, just before the handler of this one
\* that looks at the counter they share.
OthersAttempt ==
    /\ Receives("UsePassword")
    /\ attempts < MaxAttempts
    /\ attempts' = attempts + 1
    /\ UNCHANGED <<linkVars, upOpen, status, counted, verdicts, composing,
                   sendVars, others, downVars>>

OthersComplete ==
    /\ Receives("Start")
    /\ others < MaxDownloads
    /\ others' = others + 1
    /\ UNCHANGED <<linkVars, upOpen, status, counted, verdicts, composing,
                   sendVars, attempts, downVars>>

----------------------------------------------------------------------------
(* Downloader: messages and the user                                       *)

\* onData ignores everything after stopDownload.
Hears(type) ==
    downOpen /\ toDownloader # << >> /\ Head(toDownloader).type = type

Heard ==
    /\ toDownloader' = Tail(toDownloader)
    /\ UNCHANGED <<linkUp, toUploader>>

\* peerConnRef is set and the message gets onto the channel.
Ask(m) ==
    /\ toUploader' = Tell(toUploader, m)
    /\ UNCHANGED <<linkUp, toDownloader>>

\* (Fault) only the stream that is being written is closed.
Streams_Active == {active} \cap Files

\* activeStreamsRef.
Streams == Files

\* pc.close and onClose: every stream is closed so that the download settles.
CloseDownload ==
    /\ downOpen' = FALSE
    /\ linkUp' = FALSE
    /\ toDownloader' = << >>
    /\ closed' = IF started THEN Streams ELSE closed
    /\ UNCHANGED toUploader

HandlePasswordRequired ==
    /\ Hears("PasswordRequired")
    /\ Heard
    /\ asked' = (asked \/ ~stopped)
    /\ UNCHANGED <<upVars, downOpen, guesses, opening, info, started, stopped,
                   paused, pauses, fileVars, chunkVars, closed, done>>

HandleInfo ==
    /\ Hears("Info")
    /\ Heard
    /\ opening' = IF stopped THEN opening ELSE opening + 1
    /\ UNCHANGED <<upVars, downOpen, asked, guesses, info, started, stopped,
                   paused, pauses, fileVars, chunkVars, closed, done>>

\* Neither stoppedRef nor the connection is looked at again.
OpenInfo ==
    /\ opening > 0
    /\ opening' = opening - 1
    /\ info' = TRUE
    /\ asked' = FALSE
    /\ UNCHANGED <<linkVars, upVars, downOpen, guesses, started, stopped, paused,
                   pauses, fileVars, chunkVars, closed, done>>

\* processChunk calls are serialised by a promise chain.
HandleChunk ==
    /\ Hears("Chunk")
    /\ Heard
    /\ chain' = IF stopped THEN chain ELSE Append(chain, Head(toDownloader))
    /\ UNCHANGED <<upVars, downOpen, userVars, fileVars, decrypting, closed,
                   done>>

HandleError ==
    /\ Hears("Error")
    /\ IF stopped THEN Heard /\ UNCHANGED <<downOpen, closed>>
       ELSE CloseDownload
    /\ UNCHANGED <<upVars, userVars, fileVars, chunkVars, done>>

SubmitPassword(right) ==
    /\ downOpen /\ asked /\ ~stopped
    /\ guesses < MaxGuesses
    /\ guesses' = guesses + 1
    /\ Ask(UsePassword(right))
    /\ UNCHANGED <<upVars, downOpen, asked, opening, info, started, stopped,
                   paused, pauses, fileVars, chunkVars, closed, done>>

StartDownload ==
    /\ downOpen /\ info /\ ~asked /\ ~started /\ ~stopped
    /\ started' = TRUE
    /\ active' = 1
    /\ Ask(Start(1, 0))
    /\ UNCHANGED <<upVars, downOpen, asked, guesses, opening, info, stopped,
                   paused, pauses, expected, received, completed, written,
                   chunkVars, closed, done>>

\* The download page, with its buttons, is shown.
Downloading == downOpen /\ started /\ ~asked /\ ~stopped /\ ~done

PauseDownload ==
    /\ Downloading
    /\ ~paused
    /\ pauses < MaxPauses
    /\ paused' = TRUE
    /\ pauses' = pauses + 1
    /\ Ask(Signal("Pause"))
    /\ UNCHANGED <<upVars, downOpen, asked, guesses, opening, info, started,
                   stopped, fileVars, chunkVars, closed, done>>

ResumeDownload ==
    /\ Downloading
    /\ paused
    /\ paused' = FALSE
    /\ IF active = NoFile THEN UNCHANGED linkVars
       ELSE Ask(Start(active, expected[active]))
    /\ UNCHANGED <<upVars, downOpen, asked, guesses, opening, info, started,
                   stopped, pauses, fileVars, chunkVars, closed, done>>

StopDownload ==
    /\ Downloading
    /\ stopped' = TRUE
    /\ paused' = FALSE
    /\ closed' = Streams
    /\ Ask(Signal("Pause"))
    /\ UNCHANGED <<upVars, downOpen, asked, guesses, opening, info, started,
                   pauses, fileVars, chunkVars, done>>

\* The close that stopDownload leaves to a timer.
StopCloses ==
    /\ stopped
    /\ downOpen
    /\ CloseDownload
    /\ UNCHANGED <<upVars, userVars, fileVars, chunkVars, done>>

SeeDisconnect ==
    /\ downOpen
    /\ ~linkUp
    /\ CloseDownload
    /\ UNCHANGED <<upVars, userVars, fileVars, chunkVars, done>>

----------------------------------------------------------------------------
(* Downloader: chunks                                                      *)

Requested(f) == started /\ (active = NoFile \/ f <= active)

Ignored(c) ==
    stopped \/ paused \/ ~Requested(c.file) \/ c.file \in completed

\* (Fault) any offset not below what is written will do.
InOrder_NoGap(c) == c.offset >= expected[c.file]

InOrder(c) == c.offset = expected[c.file]

Bytes(c) == IF IsFinal(c) THEN LastChunk[c.file] ELSE FullChunk

\* A repeated chunk counts again, and only a small one fits.
FitsSize(c) ==
    received[c.file] + Bytes(c)
        <= (Size[c.file] - 1) * FullChunk + LastChunk[c.file]

\* processChunk up to its first await.
CheckChunk ==
    /\ decrypting = << >>
    /\ chain # << >>
    /\ chain' = Tail(chain)
    /\ LET c == Head(chain) IN
       \/ /\ Ignored(c)
          /\ UNCHANGED <<linkVars, downOpen, closed, received, decrypting>>
       \/ /\ ~Ignored(c)
          /\ ~(InOrder(c) /\ FitsSize(c))
          /\ CloseDownload
          /\ UNCHANGED <<received, decrypting>>
       \/ /\ ~Ignored(c)
          /\ InOrder(c)
          /\ FitsSize(c)
          /\ received' = [received EXCEPT ![c.file] = @ + Bytes(c)]
          /\ decrypting' = <<c>>
          /\ UNCHANGED <<linkVars, downOpen, closed>>
    /\ UNCHANGED <<upVars, userVars, active, expected, completed, written, done>>

Interrupted == stopped \/ paused

NextFile(f) == IF f = Len(Size) THEN NoFile ELSE f + 1

\* The rest of processChunk, with startNextFileOrFinish.  enqueue throws
\* when the stream has been closed meanwhile.
WriteChunk ==
    /\ decrypting # << >>
    /\ decrypting' = << >>
    /\ LET c == Head(decrypting)
           f == c.file
       IN
       \/ /\ Interrupted
          /\ UNCHANGED <<linkVars, fileVars, closed>>
       \/ /\ ~Interrupted
          /\ expected' = [expected EXCEPT ![f] = c.offset + 1]
          /\ f \in closed
          /\ UNCHANGED <<linkVars, active, received, completed, written, closed>>
       \/ /\ ~Interrupted
          /\ expected' = [expected EXCEPT ![f] = c.offset + 1]
          /\ f \notin closed
          /\ written' = [written EXCEPT ![f] = Append(@, c.offset)]
          /\ IF IsFinal(c)
             THEN /\ completed' = completed \cup {f}
                  /\ closed' = closed \cup {f}
                  /\ active' = NextFile(f)
                  /\ IF f = Len(Size) THEN UNCHANGED linkVars
                     ELSE Ask(Start(f + 1, 0))
             ELSE UNCHANGED <<linkVars, completed, closed, active>>
          /\ UNCHANGED received
    /\ UNCHANGED <<upVars, downOpen, userVars, chain, done>>

\* (Fault) peerConnRef outlives stopDownload.
PeerSet_AfterStop == downOpen

\* peerConnRef is not null.
PeerSet == downOpen /\ ~stopped

\* downloadPromise resolves once every stream it reads has ended.
Settle ==
    /\ started
    /\ closed = Files
    /\ ~done
    /\ done' = TRUE
    /\ IF PeerSet THEN Ask(Signal("Done"))
       ELSE UNCHANGED linkVars
    /\ UNCHANGED <<upVars, downOpen, userVars, fileVars, chunkVars, closed>>

----------------------------------------------------------------------------

\* The network, or an idle timer of either end, ends the connection.
Fail ==
    /\ linkUp
    /\ linkUp' = FALSE
    /\ cut' = TRUE
    /\ UNCHANGED <<toUploader, toDownloader, upState, downState>>

Uploader ==
    \/ HandleRequestInfo \/ HandlePassword \/ SendInfo \/ HandleVerdict
    \/ HandleStart \/ HandlePause \/ HandleDone \/ SeeClose
    \/ \E i \in DOMAIN loops : BeginChunk(i) \/ EncryptedChunk(i) \/ SendChunk(i)

Downloader ==
    \/ HandlePasswordRequired \/ HandleInfo \/ OpenInfo \/ HandleChunk
    \/ HandleError \/ CheckChunk \/ WriteChunk \/ Settle \/ SeeDisconnect
    \/ StopCloses

User ==
    \/ \E right \in BOOLEAN : SubmitPassword(right)
    \/ StartDownload \/ PauseDownload \/ StopDownload

Others == OthersAttempt \/ OthersComplete

Faults == Fail \/ \E i \in DOMAIN loops : ChunkFails(i)

Next == Uploader \/ Downloader \/ User \/ ResumeDownload \/ Others \/ Faults

Spec == Init /\ [][Next]_vars

(***************************************************************************)
(* Both pages keep running their event loops, and a user who has paused    *)
(* resumes some day.  Nobody has to start, and the network may do as it    *)
(* likes.                                                                  *)
(***************************************************************************)
FairSpec ==
    Spec /\ WF_vars(Uploader) /\ WF_vars(Downloader) /\ WF_vars(ResumeDownload)

----------------------------------------------------------------------------
(* Properties                                                              *)

\* All state stays within the types the hooks give it.
TypeOK ==
    /\ {linkUp, upOpen, counted, sendingPaused, downOpen, asked, info, started,
        stopped, paused, done, cut} \subseteq BOOLEAN
    /\ toUploader \in Seq(UpMessages)
    /\ toDownloader \in Seq(DownMessages)
    /\ status \in Statuses
    /\ sendingFile \in Files \cup {NoFile}
    /\ loops \in Seq(Loops)
    /\ verdicts \in 0..MaxAttempts
    /\ {composing, opening} \subseteq Nat
    /\ attempts \in 0..MaxAttempts
    /\ others \in 0..MaxDownloads
    /\ guesses \in 0..MaxGuesses
    /\ pauses \in 0..MaxPauses
    /\ active \in Files \cup {NoFile}
    /\ expected \in [Files -> Nat]
    /\ received \in [Files -> Nat]
    /\ chain \in Seq(Chunks)
    /\ decrypting \in Seq(Chunks)
    /\ completed \subseteq Files
    /\ closed \subseteq Files
    /\ written \in [Files -> Seq(Nat)]

\* Whatever two chunk loops send, a pause drops and a closed channel cuts off,
\* the stream of a file holds its chunks from the first on, in their order and
\* each once (processChunk, expectedOffset).
WrittenIsPrefix ==
    \A f \in Files : \A i \in DOMAIN written[f] : written[f][i] = i - 1

Whole(f) == Len(written[f]) = Size[f]

\* Files come one after the other: a file has data only when the ones before
\* it are whole, and a file that is called complete is whole
\* (startNextFileOrFinish, isFinalChunk).
FilesInOrder ==
    /\ \A f \in completed : Whole(f)
    /\ \A f, g \in Files : f < g /\ written[g] # << >> => f \in completed

\* The uploader lists a connection as Done, which counts against
\* maxDownloads, only when the other side has every chunk of every file.
DoneIsDelivered == counted => \A f \in Files : Whole(f)

\* A Start of a download that was not paused is never refused for another
\* file that is still being sent, nor for the connection's status, unless the
\* late verdict on a wrong password has overwritten it.
StartIsAccepted ==
    Receives("Start") /\ pauses = 0 =>
        /\ sendingFile \in {NoFile, Head(toUploader).file}
        /\ status \in {"Ready", "InvalidPassword"}

\* A download page that says complete has every chunk of every file (the
\* then-branch of downloadPromise).
DoneMeansComplete == done /\ ~stopped => \A f \in Files : Whole(f)

\* A download that has been started settles, however often it is paused and
\* whatever fails: no race of pause, resume and chunk loops leaves the two
\* pages waiting for each other.  The one exception needs the user: the late
\* verdict on a wrong password puts the password page before the download's.
DownloadSettles == started ~> done \/ asked

\* A download that nobody pauses, stops or cuts off gets every chunk of every
\* file, if its password was right at once and it is within the limit: neither
\* page refuses or drops anything the other sends.
UndisturbedCompletes ==
    started ~> \/ \A f \in Files : Whole(f)
               \/ cut \/ stopped \/ pauses > 0
               \/ guesses > 1 \/ LimitReached
=============================================================================
