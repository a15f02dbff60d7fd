---------------------------- MODULE TSocketWriter ----------------------------
(***************************************************************************)
(* The half of TSocket that the branch of flush for TBinary uses: open,    *)
(* write and close.  Every system call may fail, and a failure is thrown:  *)
(* pc becomes "thrown" and BinaryFlush says who catches it.                *)
(***************************************************************************)
EXTENDS Loopback

CONSTANTS
    Descriptors,  \* the file descriptors the worker may get
    NoSocket,     \* THRIFT_INVALID_SOCKET
    MaxAddresses, \* how many addresses getaddrinfo may return
    Pieces        \* how many bytes a send() may take at most

ASSUME SocketAssumption ==
    /\ Descriptors \subseteq Nat /\ NoSocket \notin Descriptors
    /\ MaxAddresses \in Nat \ {0}
    /\ Pieces \subseteq Nat \ {0}

VARIABLES
    pc,         \* where the worker stands
    socket,     \* socket_
    fds,        \* the descriptors the process holds
    peer,       \* the connection behind socket, 0 if there is none
    linger,     \* the kernel took setLinger(1, 0)
    addresses,  \* the addresses local_open has not given up
    out         \* the bytes write still has to send

socketVars == <<socket, fds, peer, linger, addresses>>

IsOpen == socket # NoSocket

CloseKeepsFd ==   \* mutant: the object is gone, the descriptor is not
    /\ socket' = NoSocket
    /\ HangUpWorker(peer, linger)
    /\ peer' = 0 /\ linger' = FALSE
    /\ UNCHANGED fds

\* TSocket::close, which the destructor calls too.
Close ==
    /\ socket' = NoSocket
    /\ fds' = fds \ {socket}
    /\ HangUpWorker(peer, linger)
    /\ peer' = 0 /\ linger' = FALSE

\* local_open: the port is valid, the name is resolved or not.
LocalOpen ==
    /\ pc = "open"
    /\ \/ /\ pc' = "thrown"
          /\ Close
          /\ UNCHANGED addresses
       \/ /\ pc' = "socket"
          /\ addresses' \in 1 .. MaxAddresses
          /\ UNCHANGED <<socket, fds, peer, linger, conns>>
    /\ UNCHANGED out

\* openConnection up to connect.  socket() or fcntl() fails; a setsockopt that
\* fails is not reported.
OpenSocket ==
    /\ pc = "socket"
    /\ \/ /\ pc' = "failed"
          /\ UNCHANGED <<socket, fds, linger>>
       \/ \E d \in Descriptors \ fds :
             /\ \A e \in Descriptors \ fds : d <= e
             /\ socket' = d
             /\ fds' = fds \cup {d}
             /\ linger' \in BOOLEAN
             /\ pc' \in {"connect", "failed"}
    /\ UNCHANGED <<peer, addresses, conns, out>>

\* A connection with the agent: only one that listens has it.
Established(listening) ==
    /\ listening
    /\ Len(conns) < MaxConns
    /\ conns' = Append(conns, NewConn)
    /\ peer' = Len(conns) + 1

NotEstablished == UNCHANGED <<conns, peer>>

\* connect() succeeds, has to be waited for (EINPROGRESS, EWOULDBLOCK), fails.
Connect(listening) ==
    /\ pc = "connect"
    /\ \/ Established(listening) /\ pc' = "connected"
       \/ NotEstablished /\ pc' \in {"poll", "failed"}
    /\ UNCHANGED <<socket, fds, linger, addresses, out>>

\* poll() for writing, then SO_ERROR.  A socket whose connect() gave up with
\* EWOULDBLOCK is writable and has no error either.
Poll(listening) ==
    /\ pc = "poll"
    /\ \/ Established(listening) /\ pc' = "connected"
       \/ NotEstablished /\ pc' \in {"connected", "failed"}
    /\ UNCHANGED <<socket, fds, linger, addresses, out>>

\* done: the flags of the socket are restored, or not; local_open is over.
Connected ==
    /\ pc = "connected"
    /\ \/ pc' = "opened" /\ addresses' = 0
       \/ pc' = "failed" /\ UNCHANGED addresses
    /\ UNCHANGED <<socket, fds, peer, linger, conns, out>>

\* The catch (...) of local_open: close, then the next address or rethrow.
CatchOpen ==
    /\ pc = "failed"
    /\ Close
    /\ addresses' = addresses - 1
    /\ pc' = IF addresses > 1 THEN "socket" ELSE "thrown"
    /\ UNCHANGED out

\* TSocket::write: write_partial until everything is sent.  send() takes a part
\* of the rest, as much as there is room for.
Send ==
    /\ pc = "write"
    /\ peer # 0
    /\ \E k \in 1 .. out :
          /\ k \in Pieces \/ (k = out /\ \E p \in Pieces : k < p)
          /\ k <= Room(peer)
          /\ conns' = [conns EXCEPT ![peer].sent = @ + k]
          /\ out' = out - k
          /\ pc' = IF out = k THEN "frame" ELSE "write"
    /\ UNCHANGED socketVars

SendFailsAgain ==   \* mutant: EPIPE is taken for EAGAIN, and tried again
    /\ pc = "write"
    /\ peer \notin {c \in DOMAIN conns : conns[c].agent # "closed"}
    /\ UNCHANGED <<pc, socketVars, conns, out>>

\* EPIPE, ECONNRESET or ENOTCONN: nobody is connected, or nobody any more.
SendFails ==
    /\ pc = "write"
    /\ peer \notin {c \in DOMAIN conns : conns[c].agent # "closed"}
    /\ pc' = "thrown"
    /\ UNCHANGED <<socketVars, conns, out>>

\* EINTR, which read would have tried again, EAGAIN, for which write_partial
\* returns 0 and write throws, and other errors.
SendInterrupted ==
    /\ pc = "write"
    /\ pc' = "thrown"
    /\ UNCHANGED <<socketVars, conns, out>>

SocketStep(listening) ==
    \/ LocalOpen \/ OpenSocket \/ Connect(listening) \/ Poll(listening)
    \/ Connected \/ CatchOpen \/ Send \/ SendFails
=============================================================================
