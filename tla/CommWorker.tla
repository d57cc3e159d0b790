---- MODULE CommWorker ----
(***************************************************************************)
(* The host's connection to the device: CommWorker                         *)
(* (host/src/CommunicationWorker.cpp) in its own thread, and the part of   *)
(* MainWindow that shows its state.  The two threads exchange events       *)
(* through Qt's queued connections; each handler runs to completion.       *)
(*                                                                         *)
(* External: QTcpSocket, of which the four states that the worker tests    *)
(* are kept, and the network and device behind it.  abort() closes at once *)
(* and disconnectFromHost() once everything is written, or, when still     *)
(* connecting, once connected; both emit disconnected() from a connected   *)
(* socket only.  A frame is a part of the byte stream of one connection,   *)
(* so that the parser's buffer is the number of the connection it holds a  *)
(* part of a frame of.                                                     *)
(***************************************************************************)
EXTENDS Naturals, Sequences

CONSTANTS
    MaxClicks,      \* bound: what the user asks for
    MaxConns        \* bound: connections that succeed

ASSUME BoundsAssumption == MaxClicks \in Nat /\ MaxConns \in Nat

VARIABLES
    socket,         \* the state of m_socket
    pendingClose,   \* QTcpSocket: close as soon as connected
    unsent,         \* QTcpSocket: bytes are waiting to be written
    m_intentionalDisconnect,
    m_host,         \* whether a host and port are known
    m_reconnectTimer,   \* whether it is running
    m_parser,       \* the connection whose partial frame the parser holds, or 0
    conn,           \* the number of the last connection made
    toComm, toUi,   \* events posted between the threads
    m_btnConnect,   \* whether MainWindow's Connect button is enabled
    clicks,
    dispatched,     \* history: the connections of the two ends of the last frame
    wanted,         \* history: the user's last request that was handled
    linkLost        \* history: a connection was lost and nothing has been tried since

socketVars == <<socket, pendingClose, unsent, conn>>
worker == <<m_intentionalDisconnect, m_host, m_reconnectTimer, m_parser>>
history == <<dispatched, wanted, linkLost>>
ui == <<m_btnConnect, clicks>>
commVars == <<socketVars, worker, toComm, toUi, ui, history>>

CommInit ==
    /\ socket = "Unconnected" /\ pendingClose = FALSE /\ unsent = FALSE /\ conn = 0
    /\ m_intentionalDisconnect = FALSE /\ m_host = FALSE
    /\ m_reconnectTimer = FALSE /\ m_parser = 0
    /\ toComm = <<>> /\ toUi = <<>>
    /\ m_btnConnect = TRUE /\ clicks = 0
    /\ dispatched = <<0, 0>> /\ wanted = FALSE /\ linkLost = FALSE

Up == socket \in {"Connected", "Closing"}

-----------------------------------------------------------------------------
(* The worker's handlers *)

\* Mutant: FrameParser::reset forgets the state.
ResetKeepsState(parser) == parser

\* FrameParser::reset.
Reset(parser) == 0

\* Mutant: the timer is not started.
OnDisconnectedGivesUp(intentional, host, timer, signals) ==
    /\ toUi' = Append(signals, "disconnected")
    /\ m_reconnectTimer' = timer

\* Mutant: MainWindow is not told.
OnDisconnectedSilent(intentional, host, timer, signals) ==
    /\ toUi' = signals
    /\ m_reconnectTimer' = (timer \/ (~intentional /\ host))

\* onDisconnected, called by the socket in the middle of a handler: what the
\* handler has made of the other variables so far is passed in.  Its reset of
\* the parser is left to the handler, as several have another.
OnDisconnected(intentional, host, timer, signals) ==
    /\ toUi' = Append(signals, "disconnected")
    /\ m_reconnectTimer' = (timer \/ (~intentional /\ host))

\* abort() if not unconnected, parser reset, connectToHost() on the socket.
Reopen(intentional, host, timer) ==
    /\ IF Up THEN OnDisconnected(intentional, host, timer, toUi)
             ELSE m_reconnectTimer' = timer /\ UNCHANGED toUi
    /\ m_parser' = Reset(m_parser)
    /\ socket' = "Connecting" /\ pendingClose' = FALSE /\ unsent' = FALSE
    /\ linkLost' = FALSE
    /\ UNCHANGED conn

\* The slot connectToHost.
ConnectToHost ==
    /\ toComm # <<>> /\ Head(toComm) = "connect" /\ toComm' = Tail(toComm)
    /\ m_host' = TRUE /\ m_intentionalDisconnect' = FALSE
    /\ wanted' = TRUE
    /\ Reopen(FALSE, TRUE, m_reconnectTimer)
    /\ UNCHANGED <<ui, dispatched>>

\* Mutant: the user's wish is not remembered.
DisconnectForgets ==
    /\ toComm # <<>> /\ Head(toComm) = "disconnect" /\ toComm' = Tail(toComm)
    /\ UNCHANGED m_intentionalDisconnect /\ wanted' = FALSE /\ linkLost' = FALSE
    /\ \/ /\ socket = "Connecting" /\ pendingClose' = TRUE /\ m_reconnectTimer' = FALSE
          /\ UNCHANGED <<socket, unsent, m_parser, toUi>>
       \/ /\ Up /\ unsent /\ socket' = "Closing" /\ m_reconnectTimer' = FALSE
          /\ UNCHANGED <<pendingClose, unsent, m_parser, toUi>>
       \/ /\ Up /\ ~unsent /\ socket' = "Unconnected"
          /\ OnDisconnected(m_intentionalDisconnect, m_host, FALSE, toUi)
          /\ m_parser' = Reset(m_parser)
          /\ UNCHANGED <<pendingClose, unsent>>
       \/ /\ socket = "Unconnected" /\ m_reconnectTimer' = FALSE
          /\ UNCHANGED <<socket, pendingClose, unsent, m_parser, toUi>>
    /\ UNCHANGED <<m_host, conn, ui, dispatched>>

\* The slot disconnectFromHost.
DisconnectFromHost ==
    /\ toComm # <<>> /\ Head(toComm) = "disconnect" /\ toComm' = Tail(toComm)
    /\ m_intentionalDisconnect' = TRUE /\ wanted' = FALSE /\ linkLost' = FALSE
    /\ \/ /\ socket = "Connecting" /\ pendingClose' = TRUE /\ m_reconnectTimer' = FALSE
          /\ UNCHANGED <<socket, unsent, m_parser, toUi>>
       \/ /\ Up /\ unsent /\ socket' = "Closing" /\ m_reconnectTimer' = FALSE
          /\ UNCHANGED <<pendingClose, unsent, m_parser, toUi>>
       \/ /\ Up /\ ~unsent /\ socket' = "Unconnected"
          /\ OnDisconnected(TRUE, m_host, FALSE, toUi)
          /\ m_parser' = Reset(m_parser)
          /\ UNCHANGED <<pendingClose, unsent>>
       \/ /\ socket = "Unconnected" /\ m_reconnectTimer' = FALSE
          /\ UNCHANGED <<socket, pendingClose, unsent, m_parser, toUi>>
    /\ UNCHANGED <<m_host, conn, ui, dispatched>>

\* The slot sendFrame: dropped unless connected.
SendFrame ==
    /\ toComm # <<>> /\ Head(toComm) = "frame" /\ toComm' = Tail(toComm)
    /\ unsent' = (unsent \/ socket = "Connected")
    /\ UNCHANGED <<socket, pendingClose, conn, worker, toUi, ui, history>>

\* onReconnectTimer.
OnReconnectTimer ==
    /\ m_reconnectTimer
    /\ IF m_intentionalDisconnect
       THEN m_reconnectTimer' = FALSE /\ UNCHANGED <<socketVars, m_parser, toUi, linkLost>>
       ELSE Reopen(FALSE, m_host, FALSE)
    /\ UNCHANGED <<m_intentionalDisconnect, m_host, toComm, ui, dispatched, wanted>>

\* onReadyRead: the bytes end inside a frame or at the end of one.
OnReadyRead ==
    /\ Up
    /\ \/ m_parser' = conn /\ UNCHANGED dispatched
       \/ /\ m_parser' = Reset(m_parser)
          /\ dispatched' = <<IF m_parser = 0 THEN conn ELSE m_parser, conn>>
    /\ UNCHANGED <<socketVars, m_intentionalDisconnect, m_host, m_reconnectTimer,
                   toComm, toUi, ui, wanted, linkLost>>

-----------------------------------------------------------------------------
(* The socket, external *)

\* The connection is made: onConnected; a pending close follows at once.
SocketConnects ==
    /\ socket = "Connecting" /\ conn < MaxConns /\ conn' = conn + 1
    /\ pendingClose' = FALSE /\ UNCHANGED unsent
    /\ IF pendingClose
       THEN /\ socket' = "Unconnected"
            /\ OnDisconnected(m_intentionalDisconnect, m_host, m_reconnectTimer,
                              Append(toUi, "connected"))
            /\ m_parser' = Reset(m_parser)
       ELSE /\ socket' = "Connected" /\ toUi' = Append(toUi, "connected")
            /\ UNCHANGED <<m_parser, m_reconnectTimer>>
    /\ UNCHANGED <<m_intentionalDisconnect, m_host, toComm, ui, history>>

\* The attempt fails: onError only, no disconnected().
SocketFails ==
    /\ socket = "Connecting" /\ socket' = "Unconnected" /\ pendingClose' = FALSE
    /\ toUi' = IF m_intentionalDisconnect THEN toUi ELSE Append(toUi, "error")
    /\ UNCHANGED <<unsent, conn, worker, toComm, ui, history>>

\* The device or the network ends the connection: onError, then onDisconnected.
SocketLost ==
    /\ Up /\ socket' = "Unconnected" /\ unsent' = FALSE
    /\ OnDisconnected(m_intentionalDisconnect, m_host, m_reconnectTimer,
                      IF m_intentionalDisconnect THEN toUi ELSE Append(toUi, "error"))
    /\ m_parser' = Reset(m_parser)
    /\ linkLost' = ~m_intentionalDisconnect
    /\ UNCHANGED <<pendingClose, conn, m_intentionalDisconnect, m_host, toComm, ui,
                   dispatched, wanted>>

\* The socket has written everything; a closing one is then closed.
SocketFlushes ==
    /\ Up /\ unsent /\ unsent' = FALSE
    /\ IF socket = "Closing"
       THEN /\ socket' = "Unconnected"
            /\ OnDisconnected(m_intentionalDisconnect, m_host, m_reconnectTimer, toUi)
            /\ m_parser' = Reset(m_parser)
       ELSE UNCHANGED <<socket, m_parser, m_reconnectTimer, toUi>>
    /\ UNCHANGED <<pendingClose, conn, m_intentionalDisconnect, m_host, toComm, ui, history>>

-----------------------------------------------------------------------------
(* MainWindow *)

\* The user connects (the button must be enabled), disconnects, or changes a
\* parameter, which needs no connection.
Click(request) ==
    /\ clicks < MaxClicks /\ clicks' = clicks + 1
    /\ request = "connect" => m_btnConnect
    /\ toComm' = Append(toComm, request)
    /\ UNCHANGED <<socketVars, worker, toUi, m_btnConnect, history>>

\* onConnected (which asks for the status), onDisconnected, onConnectionError.
UiHandles ==
    /\ toUi # <<>> /\ toUi' = Tail(toUi)
    /\ m_btnConnect' = CASE Head(toUi) = "connected" -> FALSE
                         [] Head(toUi) = "disconnected" -> TRUE
                         [] Head(toUi) = "error" -> m_btnConnect
    /\ toComm' = IF Head(toUi) = "connected" THEN Append(toComm, "frame") ELSE toComm
    /\ UNCHANGED <<socketVars, worker, clicks, history>>

Worker == ConnectToHost \/ DisconnectFromHost \/ SendFrame \/ OnReconnectTimer \/ OnReadyRead
Socket == SocketConnects \/ SocketFails \/ SocketLost \/ SocketFlushes
Window == UiHandles \/ \E request \in {"connect", "disconnect", "frame"} : Click(request)

CommNext == Worker \/ Socket \/ Window

\* The event loop of the worker's thread serves what is posted and the timer.
Fairness ==
    /\ WF_commVars(ConnectToHost \/ DisconnectFromHost \/ SendFrame)
    /\ WF_commVars(OnReconnectTimer)

CommSpec == CommInit /\ [][CommNext]_commVars /\ Fairness

-----------------------------------------------------------------------------
(* Properties *)

\* No frame is put together from the bytes of two connections, in whatever way
\* the first one ended and the second began.
FramesOfOneConnection == dispatched[1] = dispatched[2]

\* After a Disconnect the worker makes no attempt of its own to connect.
UserDecides ==
    [][socket # "Connecting" /\ socket' = "Connecting" => wanted']_commVars

\* The buttons follow the socket: once MainWindow has handled what was posted
\* to it, Connect is enabled exactly when there is no connection.
UiAgrees == toUi = <<>> => (m_btnConnect <=> ~Up)

\* A connection that is lost is tried again, unless the user gives up.
LossIsRetried == linkLost ~> ~linkLost
====
