------------------------------- MODULE FilmProofs -------------------------------
(***************************************************************************)
(* Theorems about the host's publication (FilePublication), the player     *)
(* around it (HostStage) and the film at a guest (Screening), for any      *)
(* number of requests, positions, publications, tracks and messages.       *)
(*                                                                         *)
(* Every promise made to the guests or on the host's card rests on which   *)
(* request is the latest.  Inv says what the latest connection, the latest *)
(* check and the latest publication may look like; each part is needed to  *)
(* keep another one.  Every step of the stage is one of the publication or *)
(* leaves it alone, so the stage keeps Inv.  On top of it, StageInv says   *)
(* that pending plays are of the publication, and what a seek under way    *)
(* knows of the position asked for last.                                   *)
(*                                                                         *)
(* At the guest, ScreeningInv says which tracks the controller holds of    *)
(* those it has been told of and of those that are offered, and that the   *)
(* element and the card go with the controller.                            *)
(***************************************************************************)
EXTENDS HostStage, Screening, TLAPS

-----------------------------------------------------------------------------
(***************************************************************************)
(* The publication                                                         *)
(***************************************************************************)

Up == {"connected", "reconnecting"}
OnTheWay == {"preparing", "video", "audio"}

\* Without a connection there is no room and no publication.
Linked == tab.link \notin Up => /\ rooms = {}
                                /\ tab.request = None
                                /\ tab.publication = None

\* The tab is in no other room, and in none while it connects.
Dialed ==
    /\ tab.attempt \in dialing => tab.link = "connecting"
    /\ OneConnection

\* A file that is being checked is neither shown nor published.
Checked == tab.check \in checking => /\ tab.file = None
                                     /\ tab.request = None
                                     /\ tab.publication = None

\* The publication is the latest call, and the only one that is live.
Latest ==
    /\ tab.publication # None => tab.request = tab.publication
    /\ \A c \in Calls : calls[c].stage = "live" <=> tab.publication = c

\* The latest call works for the card, the connection and the file on screen.
Fresh ==
    /\ \A c \in Calls :
          tab.request = c /\ calls[c].stage # "idle" =>
              /\ calls[c].room = tab.connection
              /\ calls[c].file = tab.file
    /\ \A c \in Calls :
          tab.request = c /\ calls[c].stage \in OnTheWay => tab.status \in Busy
    /\ tab.status = "live" => tab.publication # None

\* Tracks are in the room; the latest call has its video track there.
Tracked ==
    /\ \A k \in tracks : k.room \in rooms /\ calls[k.call].stage # "idle"
    /\ \A c \in Calls :
          tab.request = c /\ calls[c].stage \in {"audio", "live"} =>
              Published(c, "video") \in tracks

Inv == TypeOK /\ Linked /\ Dialed /\ Checked /\ Latest /\ Fresh /\ Tracked

\* The stop button moves the request counter on and takes the publication
\* back.
LEMMA StopFilePublicationInv ==
    ASSUME Inv, StopFilePublication
    PROVE  Inv'
<1> USE PublicationAssumption DEF Inv
<1>1. tab' \in TabStates
    BY Zenon DEF StopFilePublication, Stopped, TypeOK, TabStates, Busy
<1>2. calls' \in [Calls -> CallStates]
    BY SMTT(20) DEF StopFilePublication, StopCurrentFilePublication,
        CallsWithout, TypeOK, CallStates
<1>3. TypeOK'
    BY <1>1, <1>2, SMTT(20) DEF StopFilePublication,
        StopCurrentFilePublication, TracksWithout, TypeOK
<1>4. Linked'
    BY <1>1, <1>2, SMTT(20) DEF StopFilePublication, Stopped, Linked
<1>5. Dialed'
    BY <1>1, <1>2, SMTT(20) DEF StopFilePublication, Stopped, Dialed,
        OneConnection
<1>6. Checked'
    BY <1>1, <1>2, SMTT(20) DEF StopFilePublication, Stopped, Checked
<1>7. Latest'
    BY <1>1, <1>2, SMTT(20) DEF StopFilePublication, Stopped,
        StopCurrentFilePublication, CallsWithout, Latest, NoCall
<1>8. Fresh'
    BY <1>1, <1>2, SMTT(20) DEF StopFilePublication, Stopped, Fresh
<1>9. Tracked'
    BY <1>1, <1>2, SMTT(20) DEF StopFilePublication, Stopped,
        StopCurrentFilePublication, CallsWithout, TracksWithout, Tracked, TypeOK
<1> QED
    BY <1>3, <1>4, <1>5, <1>6, <1>7, <1>8, <1>9

\* A new attempt to connect leaves the room before and stops what was
\* published in it.
LEMMA ConnectLiveKitInv ==
    ASSUME Inv, ConnectLiveKit
    PROVE  Inv'
<1> USE PublicationAssumption DEF Inv
<1>1. tab' \in TabStates
    BY Zenon DEF ConnectLiveKit, FreeDials, TypeOK, TabStates, Busy
<1>2. calls' \in [Calls -> CallStates]
    BY SMTT(20) DEF ConnectLiveKit, StopCurrentFilePublication,
        CallsWithout, TypeOK, CallStates
<1>3. TypeOK'
    BY <1>1, <1>2, SMTT(20) DEF ConnectLiveKit, FreeDials,
        StopCurrentFilePublication, TracksWithout, TypeOK
<1>4. Linked'
    BY <1>1, <1>2, SMTT(20) DEF ConnectLiveKit, Linked, Up
<1>5. Dialed'
    BY <1>1, <1>2, SMTT(20) DEF ConnectLiveKit, Dialed, OneConnection
<1>6. Checked'
    BY <1>1, <1>2, SMTT(20) DEF ConnectLiveKit, Checked
<1>7. Latest'
    BY <1>1, <1>2, SMTT(20) DEF ConnectLiveKit, StopCurrentFilePublication,
        CallsWithout, Latest, NoCall
<1>8. Fresh'
    BY <1>1, <1>2, SMTT(20) DEF ConnectLiveKit, Linked, Fresh, Up
<1>9. Tracked'
    BY <1>1, <1>2, SMTT(20) DEF ConnectLiveKit, StopCurrentFilePublication,
        TracksWithout, Linked, Tracked, Up
<1> QED
    BY <1>3, <1>4, <1>5, <1>6, <1>7, <1>8, <1>9

\* A selection outdates the publication on its way, so that no call works for
\* a file that is no longer shown.
LEMMA SelectFileInv ==
    ASSUME Inv, NEW f \in Files, SelectFile(f)
    PROVE  Inv'
<1> USE PublicationAssumption DEF Inv
<1>1. tab' \in TabStates
    BY Zenon DEF SelectFile, Selecting, TypeOK, TabStates, Busy
<1>2. calls' \in [Calls -> CallStates]
    BY SMTT(20) DEF SelectFile, StopCurrentFilePublication, CallsWithout,
        TypeOK, CallStates
<1>3. TypeOK'
    BY <1>1, <1>2, SMTT(20) DEF SelectFile, StopCurrentFilePublication,
        TracksWithout, TypeOK
<1>4. Linked'
    BY <1>1, <1>2, SMTT(20) DEF SelectFile, Selecting, Linked
<1>5. Dialed'
    BY <1>1, <1>2, SMTT(20) DEF SelectFile, Selecting, Dialed, OneConnection
<1>6. Checked'
    BY <1>1, <1>2, SMTT(20) DEF SelectFile, Selecting, Checked
<1>7. Latest'
    BY <1>1, <1>2, SMTT(20) DEF SelectFile, Selecting,
        StopCurrentFilePublication, CallsWithout, Latest, NoCall
<1>8. Fresh'
    BY <1>1, <1>2, SMTT(20) DEF SelectFile, Selecting, Fresh
<1>9. Tracked'
    BY <1>1, <1>2, SMTT(20) DEF SelectFile, Selecting,
        StopCurrentFilePublication, CallsWithout, TracksWithout, Tracked, TypeOK
<1> QED
    BY <1>3, <1>4, <1>5, <1>6, <1>7, <1>8, <1>9

\* Leaving resets the tab; whatever is under way belongs to no request any
\* more.
LEMMA LeaveRoomInv ==
    ASSUME Inv, NEW next \in {"idle", "disconnected"}, LeaveRoom(next)
    PROVE  Inv'
<1> USE PublicationAssumption DEF Inv
<1>1. tab' \in TabStates
    BY Zenon DEF LeaveRoom, TypeOK, TabStates, Busy
<1>2. calls' \in [Calls -> CallStates]
    BY SMTT(20) DEF LeaveRoom, CallsWithout, TypeOK, CallStates
<1>3. TypeOK'
    BY <1>1, <1>2, SMTT(20) DEF LeaveRoom, TypeOK
<1>4. Linked'
    BY <1>1, <1>2, SMTT(20) DEF LeaveRoom, Linked, Dialed, OneConnection
<1>5. Dialed'
    BY <1>1, <1>2, SMTT(20) DEF LeaveRoom, Dialed, OneConnection, TypeOK
<1>6. Checked'
    BY <1>1, <1>2, SMTT(20) DEF LeaveRoom, Checked
<1>7. Latest'
    BY <1>1, <1>2, SMTT(20) DEF LeaveRoom, CallsWithout, Latest, NoCall
<1>8. Fresh'
    BY <1>1, <1>2, SMTT(20) DEF LeaveRoom, Fresh
<1>9. Tracked'
    BY <1>1, <1>2, SMTT(20) DEF LeaveRoom, Dialed, OneConnection, Tracked
<1> QED
    BY <1>3, <1>4, <1>5, <1>6, <1>7, <1>8, <1>9

\* A source that plays has not published anything yet.
LEMMA PreparedInv ==
    ASSUME Inv, NEW c \in Calls, Prepared(c)
    PROVE  Inv'
<1> USE PublicationAssumption DEF Inv
<1>1. tab' \in TabStates
    BY Zenon DEF Prepared, TypeOK, TabStates, Busy
<1>2. calls' \in [Calls -> CallStates]
    BY SMTT(20) DEF Prepared, TypeOK, CallStates, NoCall
<1>3. TypeOK'
    BY <1>1, <1>2, SMTT(20) DEF Prepared, TypeOK
<1>4. Linked'
    BY <1>1, <1>2, SMTT(20) DEF Prepared, Linked
<1>5. Dialed'
    BY <1>1, <1>2, SMTT(20) DEF Prepared, Dialed, OneConnection
<1>6. Checked'
    BY <1>1, <1>2, SMTT(20) DEF Prepared, Checked
<1>7. Latest'
    BY <1>1, <1>2, SMTT(20) DEF Prepared, Latest
<1>8. Fresh'
    BY <1>1, <1>2, SMTT(20) DEF Prepared, Fresh, OnTheWay
<1>9. Tracked'
    BY <1>1, <1>2, SMTT(20) DEF Prepared, Tracked, Published
<1> QED
    BY <1>3, <1>4, <1>5, <1>6, <1>7, <1>8, <1>9

\* A publication that fails takes its tracks with it, also when it is not the
\* latest.
LEMMA CallFailsInv ==
    ASSUME Inv, NEW c \in Calls, CallFails(c)
    PROVE  Inv'
<1> USE PublicationAssumption DEF Inv
<1>1. tab' \in TabStates
    BY Zenon DEF CallFails, TypeOK, TabStates, Busy
<1>2. calls' \in [Calls -> CallStates]
    BY SMTT(20) DEF CallFails, CallsWithout, TypeOK, CallStates
<1>3. TypeOK'
    BY <1>1, <1>2, SMTT(20) DEF CallFails, TracksWithout, TypeOK
<1>4. Linked'
    BY <1>1, <1>2, SMTT(20) DEF CallFails, Linked
<1>5. Dialed'
    BY <1>1, <1>2, SMTT(20) DEF CallFails, Dialed, OneConnection
<1>6. Checked'
    BY <1>1, <1>2, SMTT(20) DEF CallFails, Checked
<1>7. Latest'
    BY <1>1, <1>2, SMTT(20) DEF CallFails, CallsWithout, Latest, NoCall
<1>8. Fresh'
    BY <1>1, <1>2, SMTT(20) DEF CallFails, CallsWithout, Fresh, OnTheWay, NoCall
<1>9. Tracked'
    BY <1>1, <1>2, SMTT(20) DEF CallFails, CallsWithout, TracksWithout,
        Tracked, NoCall, Published, TypeOK
<1> QED
    BY <1>3, <1>4, <1>5, <1>6, <1>7, <1>8, <1>9

\* A connection is taken if it is the latest attempt, and the tab is then in
\* its room only; otherwise it is hung up.
LEMMA DialSucceedsInv ==
    ASSUME Inv, NEW d \in Dials, DialSucceeds(d)
    PROVE  Inv'
<1> USE PublicationAssumption DEF Inv
<1>1. CASE d = tab.attempt
    <2>0. tab' = [tab EXCEPT !.link = "connected", !.connection = d]
        BY <1>1 DEF DialSucceeds
    <2>1. tab' \in TabStates
        BY <2>0, Zenon DEF TypeOK, TabStates
    <2>2. /\ tab'.link = "connected"
          /\ tab'.attempt = tab.attempt
          /\ tab'.connection = d
          /\ tab'.check = tab.check
          /\ tab'.file = tab.file
          /\ tab'.request = tab.request
          /\ tab'.publication = tab.publication
          /\ tab'.status = tab.status
          /\ tab'.recovery = tab.recovery
        BY <2>0, SMTT(20)
    <2>3. /\ d \in dialing /\ dialing' = dialing \ {d}
          /\ rooms' = rooms \cup {d}
          /\ UNCHANGED <<checking, calls, tracks>>
        BY <1>1 DEF DialSucceeds
    <2>20. TypeOK'
        BY <1>1, <2>1, <2>2, <2>3, SMTT(20) DEF TypeOK
    <2>21. Linked'
        BY <1>1, <2>1, <2>2, <2>3, SMTT(20) DEF Linked, Up
    <2>22. Dialed'
        BY <1>1, <2>1, <2>2, <2>3, SMTT(20) DEF Linked, Dialed,
            OneConnection, Up
    <2>23. Checked'
        BY <1>1, <2>1, <2>2, <2>3, SMTT(20) DEF Checked
    <2>24. Latest'
        BY <1>1, <2>1, <2>2, <2>3, SMTT(20) DEF Latest
    <2>25. Fresh'
        BY <1>1, <2>1, <2>2, <2>3, SMTT(20) DEF Linked, Dialed, Fresh, Up
    <2>26. Tracked'
        BY <1>1, <2>1, <2>2, <2>3, SMTT(20) DEF Tracked, Published
    <2> QED
        BY <2>20, <2>21, <2>22, <2>23, <2>24, <2>25, <2>26
<1>2. CASE d # tab.attempt
    <2>1. /\ UNCHANGED <<tab, rooms, checking, calls, tracks>>
          /\ dialing' = dialing \ {d}
        BY <1>2 DEF DialSucceeds
    <2>20. TypeOK'
        BY <2>1, SMTT(20) DEF TypeOK
    <2>21. Linked'
        BY <2>1, SMTT(20) DEF Linked
    <2>22. Dialed'
        BY <2>1, SMTT(20) DEF Dialed, OneConnection
    <2>23. Checked'
        BY <2>1, SMTT(20) DEF Checked
    <2>24. Latest'
        BY <2>1, SMTT(20) DEF Latest
    <2>25. Fresh'
        BY <2>1, SMTT(20) DEF Fresh
    <2>26. Tracked'
        BY <2>1, SMTT(20) DEF Tracked, Published
    <2> QED
        BY <2>20, <2>21, <2>22, <2>23, <2>24, <2>25, <2>26
<1> QED
    BY <1>1, <1>2

\* What one or two reports of a lost connection make of the tab: no request
\* and no publication is left, the connection and the file stay.
LEMMA ReportedTab ==
    ASSUME NEW t \in TabStates, NEW n \in Reports
    PROVE  /\ Reported(t, n) \in TabStates
           /\ Reported(t, n).link = "disconnected"
           /\ Reported(t, n).status = "idle"
           /\ Reported(t, n).request = None
           /\ Reported(t, n).publication = None
           /\ Reported(t, n).attempt = t.attempt
           /\ Reported(t, n).connection = t.connection
           /\ Reported(t, n).check = t.check
           /\ Reported(t, n).file = t.file
<1> DEFINE Like(u) == /\ u \in TabStates
                      /\ u.link = "disconnected"
                      /\ u.status = "idle"
                      /\ u.request = None
                      /\ u.publication = None
                      /\ u.attempt = t.attempt
                      /\ u.connection = t.connection
                      /\ u.check = t.check
                      /\ u.file = t.file
<1>1. ASSUME NEW u \in TabStates
      PROVE  Wanted(u) \in {"off", "on"}
    BY DEF Wanted
<1>2. ASSUME NEW u \in TabStates
      PROVE  OnDisconnected(u) \in TabStates
    BY <1>1, Zenon DEF OnDisconnected, TabStates
<1>3. ASSUME NEW u \in TabStates, u.attempt = t.attempt,
             u.connection = t.connection, u.check = t.check, u.file = t.file
      PROVE  Like(OnDisconnected(u))
    <2>1. /\ OnDisconnected(u).link = "disconnected"
          /\ OnDisconnected(u).status = "idle"
          /\ OnDisconnected(u).request = None
          /\ OnDisconnected(u).publication = None
          /\ OnDisconnected(u).attempt = u.attempt
          /\ OnDisconnected(u).connection = u.connection
          /\ OnDisconnected(u).check = u.check
          /\ OnDisconnected(u).file = u.file
        BY SMTT(20) DEF OnDisconnected
    <2> QED
        BY <1>2, <1>3, <2>1
<1>4. Like(OnDisconnected(t))
    BY <1>3
<1>5. Like(OnDisconnected(OnDisconnected(t)))
    BY <1>3, <1>4
<1> QED
    BY <1>4, <1>5 DEF Reported

\* A lost connection takes the room, its tracks and the request with it.
LEMMA LoseConnectionInv ==
    ASSUME Inv, NEW n \in Reports, LoseConnection(n)
    PROVE  Inv'
<1> USE PublicationAssumption DEF Inv
<1>1. tab \in TabStates /\ tab' = Reported(tab, n)
    BY DEF LoseConnection, TypeOK
<1>2. /\ tab' \in TabStates
      /\ tab'.link = "disconnected"
      /\ tab'.attempt = tab.attempt
      /\ tab'.connection = tab.connection
      /\ tab'.check = tab.check
      /\ tab'.file = tab.file
      /\ tab'.request = None
      /\ tab'.publication = None
      /\ tab'.status = "idle"
    BY <1>1, ReportedTab
<1>4. calls' = CallsWithout(tab.publication) /\ calls' \in [Calls -> CallStates]
    BY SMTT(20) DEF LoseConnection, CallsWithout, TypeOK, CallStates
<1>5. /\ tab.link \in Up
      /\ rooms' = rooms \ {tab.connection}
      /\ tracks' = {k \in tracks : k.room # tab.connection}
      /\ UNCHANGED <<dialing, checking>>
    BY DEF LoseConnection, Up
<1>20. TypeOK'
    BY <1>2, <1>4, <1>5, SMTT(20) DEF TypeOK
<1>21. Linked'
    BY <1>2, <1>4, <1>5, SMTT(20) DEF Linked, Dialed, OneConnection
<1>22. Dialed'
    BY <1>2, <1>4, <1>5, SMTT(20) DEF Dialed, OneConnection, Up
<1>23. Checked'
    BY <1>2, <1>4, <1>5, SMTT(20) DEF Checked
<1>24. Latest'
    BY <1>2, <1>4, <1>5, SMTT(20) DEF CallsWithout, Latest, NoCall
<1>25. Fresh'
    BY <1>2, <1>4, <1>5, SMTT(20) DEF Fresh
<1>26. Tracked'
    BY <1>2, <1>4, <1>5, SMTT(20) DEF Dialed, OneConnection, Tracked
<1> QED
    BY <1>20, <1>21, <1>22, <1>23, <1>24, <1>25, <1>26

\* A failed attempt leaves the tab without a connection, reported or not.
LEMMA DialFailsInv ==
    ASSUME Inv, NEW d \in Dials, DialFails(d)
    PROVE  Inv'
<1> USE PublicationAssumption DEF Inv
<1>1. /\ dialing' = dialing \ {d} /\ d \in dialing
      /\ UNCHANGED <<rooms, checking>>
    BY DEF DialFails
<1>2. CASE d = tab.attempt
    <2>1. PICK t \in {tab} \cup {Reported(tab, n) : n \in Reports} :
              /\ tab' = [t EXCEPT !.link = "error"]
              /\ StopCurrentFilePublication
        BY <1>2 DEF DialFails
    <2>2. tab.link = "connecting" /\ tab.request = None /\ tab.publication = None
        BY <1>1, <1>2 DEF Dialed, Linked, Up
    <2>3. /\ t \in TabStates
          /\ t.request = None
          /\ t.publication = None
          /\ t.attempt = tab.attempt
          /\ t.connection = tab.connection
          /\ t.check = tab.check
          /\ t.file = tab.file
          /\ t.status \in {"idle", tab.status}
        <3>1. CASE t = tab
            BY <2>2, <3>1 DEF TypeOK
        <3>2. CASE \E n \in Reports : t = Reported(tab, n)
            BY <3>2, ReportedTab DEF TypeOK
        <3> QED
            BY <3>1, <3>2
    <2>4. tab' \in TabStates
        BY <2>1, <2>3, Zenon DEF TabStates
    <2>5. /\ tab'.link = "error"
          /\ tab'.request = t.request
          /\ tab'.publication = t.publication
          /\ tab'.attempt = t.attempt
          /\ tab'.connection = t.connection
          /\ tab'.check = t.check
          /\ tab'.file = t.file
          /\ tab'.status = t.status
        BY <2>1, <2>3, SMTT(20)
    <2>6. calls' = CallsWithout(None) /\ tracks' = TracksWithout(None)
        BY <2>1, <2>2 DEF StopCurrentFilePublication
    <2>7. calls' = calls /\ tracks' = tracks
        BY <2>6, SMTT(20) DEF CallsWithout, TracksWithout, TypeOK
    <2>20. TypeOK'
        BY <1>1, <1>2, <2>2, <2>3, <2>4, <2>5, <2>7, SMTT(20) DEF TypeOK
    <2>21. Linked'
        BY <1>1, <1>2, <2>2, <2>3, <2>4, <2>5, <2>7, SMTT(20) DEF Linked, Up
    <2>22. Dialed'
        BY <1>1, <1>2, <2>2, <2>3, <2>4, <2>5, <2>7, SMTT(20) DEF Dialed,
            OneConnection
    <2>23. Checked'
        BY <1>1, <1>2, <2>2, <2>3, <2>4, <2>5, <2>7, SMTT(20) DEF Checked
    <2>24. Latest'
        BY <1>1, <1>2, <2>2, <2>3, <2>4, <2>5, <2>7, SMTT(20) DEF Latest
    <2>25. Fresh'
        BY <1>1, <1>2, <2>2, <2>3, <2>4, <2>5, <2>7, SMTT(20) DEF Fresh
    <2>26. Tracked'
        BY <1>1, <1>2, <2>2, <2>3, <2>4, <2>5, <2>7, SMTT(20) DEF Tracked
    <2> QED
        BY <2>20, <2>21, <2>22, <2>23, <2>24, <2>25, <2>26
<1>3. CASE d # tab.attempt
    <2>1. UNCHANGED <<tab, calls, tracks>>
        BY <1>3 DEF DialFails
    <2>20. TypeOK'
        BY <1>1, <2>1, SMTT(20) DEF TypeOK
    <2>21. Linked'
        BY <1>1, <2>1, SMTT(20) DEF Linked
    <2>22. Dialed'
        BY <1>1, <2>1, SMTT(20) DEF Dialed, OneConnection
    <2>23. Checked'
        BY <1>1, <2>1, SMTT(20) DEF Checked
    <2>24. Latest'
        BY <1>1, <2>1, SMTT(20) DEF Latest
    <2>25. Fresh'
        BY <1>1, <2>1, SMTT(20) DEF Fresh
    <2>26. Tracked'
        BY <1>1, <2>1, SMTT(20) DEF Tracked, Published
    <2> QED
        BY <2>20, <2>21, <2>22, <2>23, <2>24, <2>25, <2>26
<1> QED
    BY <1>2, <1>3

\* The file of the latest check is shown; nothing was published meanwhile, so
\* the publication cannot be another file's.
LEMMA FileCheckedInv ==
    ASSUME Inv, NEW f \in Files, FileChecked(f)
    PROVE  Inv'
<1> USE PublicationAssumption DEF Inv
<1>1. /\ checking' = checking \ {f} /\ f \in checking
      /\ UNCHANGED <<dialing, rooms, calls, tracks>>
    BY DEF FileChecked
<1>2. CASE f = tab.check
    <2>1. PICK found \in {f, None} :
              tab' = [tab EXCEPT !.file = found, !.status = "idle"]
        BY <1>2 DEF FileChecked
    <2>2. tab' \in TabStates
        BY <2>1, Zenon DEF TypeOK, TabStates
    <2>3. /\ tab'.link = tab.link
          /\ tab'.attempt = tab.attempt
          /\ tab'.connection = tab.connection
          /\ tab'.check = tab.check
          /\ tab'.file = found
          /\ tab'.request = tab.request
          /\ tab'.publication = tab.publication
          /\ tab'.status = "idle"
          /\ tab'.recovery = tab.recovery
        BY <2>1, SMTT(20)
    <2>20. TypeOK'
        BY <1>1, <1>2, <2>2, <2>3, SMTT(20) DEF TypeOK
    <2>21. Linked'
        BY <1>1, <1>2, <2>2, <2>3, SMTT(20) DEF Linked
    <2>22. Dialed'
        BY <1>1, <1>2, <2>2, <2>3, SMTT(20) DEF Dialed, OneConnection
    <2>23. Checked'
        BY <1>1, <1>2, <2>2, <2>3, SMTT(20) DEF Checked
    <2>24. Latest'
        BY <1>1, <1>2, <2>2, <2>3, SMTT(20) DEF Latest
    <2>25. Fresh'
        BY <1>1, <1>2, <2>2, <2>3, SMTT(20) DEF Checked, Fresh
    <2>26. Tracked'
        BY <1>1, <1>2, <2>2, <2>3, SMTT(20) DEF Tracked, Published
    <2> QED
        BY <2>20, <2>21, <2>22, <2>23, <2>24, <2>25, <2>26
<1>3. CASE f # tab.check
    <2>1. UNCHANGED tab
        BY <1>3 DEF FileChecked
    <2>20. TypeOK'
        BY <1>1, <2>1, SMTT(20) DEF TypeOK
    <2>21. Linked'
        BY <1>1, <2>1, SMTT(20) DEF Linked
    <2>22. Dialed'
        BY <1>1, <2>1, SMTT(20) DEF Dialed, OneConnection
    <2>23. Checked'
        BY <1>1, <2>1, SMTT(20) DEF Checked
    <2>24. Latest'
        BY <1>1, <2>1, SMTT(20) DEF Latest
    <2>25. Fresh'
        BY <1>1, <2>1, SMTT(20) DEF Fresh
    <2>26. Tracked'
        BY <1>1, <2>1, SMTT(20) DEF Tracked, Published
    <2> QED
        BY <2>20, <2>21, <2>22, <2>23, <2>24, <2>25, <2>26
<1> QED
    BY <1>2, <1>3

\* publishFile refuses and leaves the publication alone, or replaces it by a
\* new request for the connection and the file on screen.  A refusal is not a
\* step out of a publication on its way.
LEMMA PublishFileInv ==
    ASSUME Inv, NEW status \in Busy, PublishFile(status),
           UNCHANGED <<dialing, rooms, checking>>,
           tab.publication # None \/ tab.status \notin Busy
    PROVE  Inv'
<1> USE PublicationAssumption DEF Inv
<1>1. CASE ~Ready
    <2>1. tab' = [tab EXCEPT !.status = "error"] /\ UNCHANGED <<calls, tracks>>
        BY <1>1 DEF PublishFile
    <2>2. tab' \in TabStates
        BY <2>1, Zenon DEF TypeOK, TabStates
    <2>3. /\ tab'.link = tab.link
          /\ tab'.attempt = tab.attempt
          /\ tab'.connection = tab.connection
          /\ tab'.check = tab.check
          /\ tab'.file = tab.file
          /\ tab'.request = tab.request
          /\ tab'.publication = tab.publication
          /\ tab'.status = "error"
          /\ tab'.recovery = tab.recovery
        BY <2>1, SMTT(20)
    <2>20. TypeOK'
        BY <2>1, <2>2, <2>3, SMTT(20) DEF TypeOK
    <2>21. Linked'
        BY <2>1, <2>2, <2>3, SMTT(20) DEF Linked
    <2>22. Dialed'
        BY <2>1, <2>2, <2>3, SMTT(20) DEF Dialed, OneConnection
    <2>23. Checked'
        BY <2>1, <2>2, <2>3, SMTT(20) DEF Checked
    <2>24. Latest'
        BY <2>1, <2>2, <2>3, SMTT(20) DEF Latest
    <2>25. Fresh'
        BY <2>1, <2>2, <2>3, SMTT(20) DEF Latest, Fresh, OnTheWay
    <2>26. Tracked'
        BY <2>1, <2>2, <2>3, SMTT(20) DEF Tracked, Published
    <2> QED
        BY <2>20, <2>21, <2>22, <2>23, <2>24, <2>25, <2>26
<1>2. CASE Ready
    <2>1. PICK c \in Calls :
              /\ calls[c] = NoCall
              /\ tab' = [tab EXCEPT !.recovery = "off", !.request = c,
                                    !.publication = None, !.status = status]
              /\ calls' = [CallsWithout(tab.publication) EXCEPT ![c] =
                             [stage |-> "preparing", room |-> tab.connection,
                              file |-> tab.file]]
        BY <1>2 DEF PublishFile
    <2>2. tracks' = TracksWithout(tab.publication)
        BY <1>2 DEF PublishFile
    <2>3. tab' \in TabStates
        BY <2>1, Zenon DEF TypeOK, TabStates
    <2>4. /\ tab'.link = tab.link
          /\ tab'.attempt = tab.attempt
          /\ tab'.connection = tab.connection
          /\ tab'.check = tab.check
          /\ tab'.file = tab.file
          /\ tab'.request = c
          /\ tab'.publication = None
          /\ tab'.status = status
          /\ tab'.recovery = "off"
        BY <2>1, SMTT(20)
    <2>5. tab.file \in Files /\ tab.connection \in Dials /\ tab.link = "connected"
        BY <1>2 DEF Ready, TypeOK, TabStates
    <2>6. \A x \in Calls : calls'[x] =
              IF x = c THEN [stage |-> "preparing", room |-> tab.connection, file |-> tab.file]
              ELSE IF x = tab.publication THEN NoCall ELSE calls[x]
        BY <2>1, SMTT(20) DEF CallsWithout
    <2>7. calls' \in [Calls -> CallStates]
        BY <2>1, <2>5, SMTT(20) DEF CallsWithout, TypeOK, CallStates
    <2>8. calls[c].stage = "idle"
        BY <2>1 DEF NoCall
    <2>20. TypeOK'
        BY <2>2, <2>3, <2>4, <2>5, <2>6, <2>7, <2>8, SMTT(20) DEF
            TracksWithout, TypeOK
    <2>21. Linked'
        BY <2>2, <2>3, <2>4, <2>5, <2>6, <2>7, <2>8, SMTT(20) DEF Linked, Up
    <2>22. Dialed'
        BY <2>2, <2>3, <2>4, <2>5, <2>6, <2>7, <2>8, SMTT(20) DEF Dialed,
            OneConnection
    <2>23. Checked'
        BY <2>2, <2>3, <2>4, <2>5, <2>6, <2>7, <2>8, SMTT(20) DEF Checked
    <2>24. Latest'
        BY <2>2, <2>3, <2>4, <2>5, <2>6, <2>7, <2>8, SMTT(20) DEF Latest, NoCall
    <2>25. Fresh'
        BY <2>2, <2>3, <2>4, <2>5, <2>6, <2>7, <2>8, SMTT(20) DEF Fresh, Busy
    <2>26. Tracked'
        BY <2>2, <2>3, <2>4, <2>5, <2>6, <2>7, <2>8, SMTT(20) DEF
            TracksWithout, Tracked, TypeOK
    <2> QED
        BY <2>20, <2>21, <2>22, <2>23, <2>24, <2>25, <2>26
<1> QED
    BY <1>1, <1>2

\* The effect that publishes again forgets its request, reports an error or
\* publishes like the button.
LEMMA RecoverPublicationInv ==
    ASSUME Inv, RecoverPublication
    PROVE  Inv'
<1> USE PublicationAssumption DEF Inv
<1>1. UNCHANGED <<dialing, rooms, checking>>
    BY DEF RecoverPublication
<1>2. ASSUME NEW status \in {"error", tab.status},
             tab' \in TabStates,
             /\ tab'.link = tab.link
             /\ tab'.attempt = tab.attempt
             /\ tab'.connection = tab.connection
             /\ tab'.check = tab.check
             /\ tab'.file = tab.file
             /\ tab'.request = tab.request
             /\ tab'.publication = tab.publication,
             tab'.status = status,
             status = "error" => tab.status \notin Busy,
             UNCHANGED <<calls, tracks>>
      PROVE  Inv'
    <2>20. TypeOK'
        BY <1>1, <1>2, SMTT(20) DEF TypeOK
    <2>21. Linked'
        BY <1>1, <1>2, SMTT(20) DEF Linked
    <2>22. Dialed'
        BY <1>1, <1>2, SMTT(20) DEF Dialed, OneConnection
    <2>23. Checked'
        BY <1>1, <1>2, SMTT(20) DEF Checked
    <2>24. Latest'
        BY <1>1, <1>2, SMTT(20) DEF Latest
    <2>25. Fresh'
        BY <1>1, <1>2, SMTT(20) DEF Fresh
    <2>26. Tracked'
        BY <1>1, <1>2, SMTT(20) DEF Tracked, Published
    <2> QED
        BY <2>20, <2>21, <2>22, <2>23, <2>24, <2>25, <2>26
<1>3. CASE tab.status \in Busy \cup {"live"}
    <2>1. tab' = [tab EXCEPT !.recovery = "off"] /\ UNCHANGED <<calls, tracks>>
        BY <1>3 DEF RecoverPublication
    <2>2. tab' \in TabStates
        BY <2>1, Zenon DEF TypeOK, TabStates
    <2>3. /\ tab'.link = tab.link
          /\ tab'.attempt = tab.attempt
          /\ tab'.connection = tab.connection
          /\ tab'.check = tab.check
          /\ tab'.file = tab.file
          /\ tab'.request = tab.request
          /\ tab'.publication = tab.publication
          /\ tab'.status = tab.status
          /\ tab'.recovery = "off"
        BY <2>1, SMTT(20)
    <2> QED
        BY <1>2, <1>3, <2>1, <2>2, <2>3 DEF Busy
<1>4. CASE tab.status \notin Busy \cup {"live"} /\ tab.file = None
    <2>1. /\ tab' = [tab EXCEPT !.recovery = "off", !.status = "error"]
          /\ UNCHANGED <<calls, tracks>>
        BY <1>4 DEF RecoverPublication
    <2>2. tab' \in TabStates
        BY <2>1, Zenon DEF TypeOK, TabStates
    <2>3. /\ tab'.link = tab.link
          /\ tab'.attempt = tab.attempt
          /\ tab'.connection = tab.connection
          /\ tab'.check = tab.check
          /\ tab'.file = tab.file
          /\ tab'.request = tab.request
          /\ tab'.publication = tab.publication
          /\ tab'.status = "error"
          /\ tab'.recovery = "off"
        BY <2>1, SMTT(20)
    <2> QED
        BY <1>2, <1>4, <2>1, <2>2, <2>3
<1>5. CASE tab.status \notin Busy \cup {"live"} /\ tab.file # None
    <2>1. PublishFile("publishing")
        BY <1>5 DEF RecoverPublication
    <2> QED
        BY <1>1, <1>5, <2>1, PublishFileInv DEF Busy
<1> QED
    BY <1>3, <1>4, <1>5

\* A call that ends becomes the publication if it is the latest, and takes its
\* tracks back otherwise.
LEMMA FinishInv ==
    ASSUME Inv, NEW c \in Calls, NEW kind \in {"video", "audio"},
           calls[c].stage \in {"video", "audio"}, calls[c].room \in rooms,
           kind = calls[c].stage,
           Finish(c, tracks \cup {Published(c, kind)}),
           UNCHANGED <<dialing, rooms, checking>>
    PROVE  Inv'
<1> USE PublicationAssumption DEF Inv
<1> DEFINE published == tracks \cup {Published(c, kind)}
<1>1. published \subseteq [room : Dials, call : Calls, kind : {"video", "audio"}]
    BY DEF Published, TypeOK
<1>2. tab \in TabStates /\ calls \in [Calls -> CallStates]
    BY DEF TypeOK
<1>3. CASE tab.request = c
    <2>1. /\ tab' = [tab EXCEPT !.publication = c, !.status = "live"]
          /\ calls' = [calls EXCEPT ![c].stage = "live"]
          /\ tracks' = published
        BY <1>3 DEF Finish
    <2>2. tab' \in TabStates
        BY <2>1, Zenon DEF TypeOK, TabStates
    <2>3. /\ tab'.link = tab.link
          /\ tab'.attempt = tab.attempt
          /\ tab'.connection = tab.connection
          /\ tab'.check = tab.check
          /\ tab'.file = tab.file
          /\ tab'.request = tab.request
          /\ tab'.publication = c
          /\ tab'.status = "live"
          /\ tab'.recovery = tab.recovery
        BY <2>1, SMTT(20)
    <2>4. /\ calls' \in [Calls -> CallStates]
          /\ \A x \in Calls : /\ calls'[x].stage = IF x = c THEN "live" ELSE calls[x].stage
                             /\ calls'[x].room = calls[x].room
                             /\ calls'[x].file = calls[x].file
        BY <2>1, SMTT(20) DEF TypeOK, CallStates, NoCall
    <2>5. tracks' = tracks \cup {Published(c, kind)}
        BY <2>1
    <2>20. TypeOK'
        BY <1>1, <1>3, <2>2, <2>3, <2>4, <2>5, SMTT(20) DEF TypeOK
    <2>21. Linked'
        BY <1>1, <1>3, <2>2, <2>3, <2>4, <2>5, SMTT(20) DEF Linked
    <2>22. Dialed'
        BY <1>1, <1>3, <2>2, <2>3, <2>4, <2>5, SMTT(20) DEF Dialed,
            OneConnection
    <2>23. Checked'
        BY <1>1, <1>3, <2>2, <2>3, <2>4, <2>5, SMTT(20) DEF Checked
    <2>24. Latest'
        BY <1>1, <1>3, <2>2, <2>3, <2>4, <2>5, SMTT(20) DEF Latest
    <2>25. Fresh'
        BY <1>1, <1>3, <2>2, <2>3, <2>4, <2>5, SMTT(20) DEF Fresh, OnTheWay
    <2>26. Tracked'
        BY <1>1, <1>3, <2>2, <2>3, <2>4, <2>5, SMTT(20) DEF Tracked, Published
    <2> QED
        BY <2>20, <2>21, <2>22, <2>23, <2>24, <2>25, <2>26
<1>4. CASE tab.request # c
    <2>1. /\ calls' = CallsWithout(c)
          /\ tracks' = {k \in published : k.call # c}
          /\ UNCHANGED tab
        BY <1>4 DEF Finish
    <2>2. tracks' = {k \in tracks : k.call # c}
        BY <2>1 DEF Published
    <2>3. /\ calls' \in [Calls -> CallStates]
          /\ \A x \in Calls : calls'[x] = IF x = c THEN NoCall ELSE calls[x]
        BY <2>1, SMTT(20) DEF CallsWithout, TypeOK, CallStates
    <2>20. TypeOK'
        BY <1>4, <2>1, <2>2, <2>3, SMTT(20) DEF TypeOK
    <2>21. Linked'
        BY <1>4, <2>1, <2>2, <2>3, SMTT(20) DEF Linked
    <2>22. Dialed'
        BY <1>4, <2>1, <2>2, <2>3, SMTT(20) DEF Dialed, OneConnection
    <2>23. Checked'
        BY <1>4, <2>1, <2>2, <2>3, SMTT(20) DEF Checked
    <2>24. Latest'
        BY <1>4, <2>1, <2>2, <2>3, SMTT(20) DEF Latest, NoCall
    <2>25. Fresh'
        BY <1>4, <2>1, <2>2, <2>3, SMTT(20) DEF Fresh
    <2>26. Tracked'
        BY <1>4, <2>1, <2>2, <2>3, SMTT(20) DEF Tracked, Published, TypeOK
    <2> QED
        BY <2>20, <2>21, <2>22, <2>23, <2>24, <2>25, <2>26
<1> QED
    BY <1>3, <1>4

\* The video track is published, as the last one or not.
LEMMA VideoPublishedInv ==
    ASSUME Inv, NEW c \in Calls, VideoPublished(c)
    PROVE  Inv'
<1> USE PublicationAssumption DEF Inv
<1>1. /\ calls[c].stage = "video" /\ calls[c].room \in rooms
      /\ UNCHANGED <<dialing, rooms, checking>>
    BY DEF VideoPublished
<1>2. CASE Finish(c, tracks \cup {Published(c, "video")})
    BY <1>1, <1>2, FinishInv
<1>3. CASE /\ calls' = [calls EXCEPT ![c].stage = "audio"]
           /\ tracks' = tracks \cup {Published(c, "video")}
           /\ UNCHANGED tab
    <2>1. /\ calls' \in [Calls -> CallStates]
          /\ \A x \in Calls : /\ calls'[x].stage = IF x = c THEN "audio" ELSE calls[x].stage
                             /\ calls'[x].room = calls[x].room
                             /\ calls'[x].file = calls[x].file
        BY <1>1, <1>3, SMTT(20) DEF TypeOK, CallStates, NoCall
    <2>20. TypeOK'
        BY <1>1, <1>3, <2>1, SMTT(20) DEF Published, TypeOK
    <2>21. Linked'
        BY <1>1, <1>3, <2>1, SMTT(20) DEF Linked
    <2>22. Dialed'
        BY <1>1, <1>3, <2>1, SMTT(20) DEF Dialed, OneConnection
    <2>23. Checked'
        BY <1>1, <1>3, <2>1, SMTT(20) DEF Checked
    <2>24. Latest'
        BY <1>1, <1>3, <2>1, SMTT(20) DEF Latest
    <2>25. Fresh'
        BY <1>1, <1>3, <2>1, SMTT(20) DEF Fresh, OnTheWay
    <2>26. Tracked'
        BY <1>1, <1>3, <2>1, SMTT(20) DEF Tracked, Published
    <2> QED
        BY <2>20, <2>21, <2>22, <2>23, <2>24, <2>25, <2>26
<1> QED
    BY <1>2, <1>3 DEF VideoPublished

\* The audio track is the last one.
LEMMA AudioPublishedInv ==
    ASSUME Inv, NEW c \in Calls, AudioPublished(c)
    PROVE  Inv'
BY FinishInv DEF AudioPublished

\* LiveKit's own reconnecting keeps the room and what is published there.
LEMMA BlinkInv ==
    ASSUME Inv, Reconnecting \/ Reconnected
    PROVE  Inv'
<1> USE PublicationAssumption DEF Inv
<1>1. UNCHANGED <<dialing, rooms, checking, calls, tracks>>
    BY DEF Reconnecting, Reconnected
<1>2. tab.link \in Up /\ \E l \in Up : tab' = [tab EXCEPT !.link = l]
    BY DEF Reconnecting, Reconnected, Up
<1>3. PICK l \in Up : tab' = [tab EXCEPT !.link = l]
    BY <1>2
<1>4. tab' \in TabStates
    BY <1>3, SMTT(20) DEF TypeOK, TabStates, Up
<1>20. TypeOK'
    BY <1>1, <1>2, <1>3, <1>4, SMTT(20) DEF TypeOK
<1>21. Linked'
    BY <1>1, <1>2, <1>3, <1>4, SMTT(20) DEF Linked
<1>22. Dialed'
    BY <1>1, <1>2, <1>3, <1>4, SMTT(20) DEF Dialed, OneConnection, Up
<1>23. Checked'
    BY <1>1, <1>2, <1>3, <1>4, SMTT(20) DEF Checked
<1>24. Latest'
    BY <1>1, <1>2, <1>3, <1>4, SMTT(20) DEF Latest
<1>25. Fresh'
    BY <1>1, <1>2, <1>3, <1>4, SMTT(20) DEF Fresh
<1>26. Tracked'
    BY <1>1, <1>2, <1>3, <1>4, SMTT(20) DEF Tracked, Published
<1> QED
    BY <1>20, <1>21, <1>22, <1>23, <1>24, <1>25, <1>26

\* The new tab has nothing under way.
LEMMA InitInv == Init => Inv
<1> USE PublicationAssumption
<1> SUFFICES ASSUME Init
             PROVE  Inv
    OBVIOUS
<1>1. TypeOK
    BY SMTT(20) DEF Init, TypeOK, TabStates, CallStates
<1>2. Linked /\ Dialed /\ Checked
    BY SMTT(20) DEF Init, Linked, Dialed, OneConnection, Checked, Up
<1>3. \A c \in Calls : calls[c].stage = "idle"
    BY DEF Init, NoCall
<1>4. /\ tab.publication = None /\ tab.request = None /\ tab.status = "idle"
      /\ tracks = {} /\ \A c \in Calls : c # None
    BY DEF Init
<1>5. Latest
    BY <1>3, <1>4 DEF Latest
<1>6. Fresh /\ Tracked
    BY <1>3, <1>4 DEF Fresh, Tracked, OnTheWay
<1> QED
    BY <1>1, <1>2, <1>5, <1>6 DEF Inv

\* Every step keeps the invariant.
LEMMA StepInv == Inv /\ [Next]_publicationVars => Inv'
<1> SUFFICES ASSUME Inv, [Next]_publicationVars
             PROVE  Inv'
    OBVIOUS
<1>1. CASE Publish
    <2>1. /\ PublishFile("publishing")
          /\ UNCHANGED <<dialing, rooms, checking>>
          /\ tab.status \notin Busy
        BY <1>1 DEF Publish
    <2> QED
        BY <2>1, PublishFileInv DEF Busy
<1>2. CASE RestartFilePublication
    <2>1. /\ PublishFile("restarting")
          /\ UNCHANGED <<dialing, rooms, checking>>
          /\ tab.publication # None
        BY <1>2 DEF RestartFilePublication
    <2> QED
        BY <2>1, PublishFileInv DEF Busy
<1>3. CASE \E d \in Dials : DialEnds(d)
    BY <1>3, DialSucceedsInv, DialFailsInv DEF DialEnds
<1>4. CASE \E c \in Calls : CallProgress(c)
    BY <1>4, PreparedInv, VideoPublishedInv, AudioPublishedInv, CallFailsInv
    DEF CallProgress
<1>5. CASE \E f \in Files : SelectFile(f) \/ FileChecked(f)
    BY <1>5, SelectFileInv, FileCheckedInv
<1>6. CASE \E n \in Reports : LoseConnection(n)
    BY <1>6, LoseConnectionInv
<1>7. CASE \E next \in {"idle", "disconnected"} : LeaveRoom(next)
    BY <1>7, LeaveRoomInv
<1>8. CASE \/ StopFilePublication \/ ConnectLiveKit \/ RecoverPublication
           \/ Reconnecting \/ Reconnected
    BY <1>8, StopFilePublicationInv, ConnectLiveKitInv,
        RecoverPublicationInv, BlinkInv
<1>9. CASE UNCHANGED publicationVars
    BY <1>9, SMTT(20) DEF publicationVars, Inv, Linked, Dialed,
        OneConnection, Checked,
        Latest, Fresh, Tracked, Published, TypeOK
<1> QED
    BY <1>1, <1>2, <1>3, <1>4, <1>5, <1>6, <1>7, <1>8, <1>9 DEF Next

\* The invariant holds in every state.
LEMMA Invariance == Spec => []Inv
BY InitInv, StepInv, PTL DEF Spec

\* The state and refs of useRoomSession, the attempts to connect and the
\* publications under way keep their types.
THEOREM TypeCorrect == Spec => []TypeOK
BY Invariance, PTL DEF Inv

\* connectLiveKit: the tab is in no LiveKit room but that of its connection,
\* however many attempts overtake one another.
THEOREM OneConnectionTheorem == Spec => []OneConnection
<1>1. Inv => OneConnection
    BY DEF Inv, Dialed
<1> QED
    BY <1>1, Invariance, PTL

\* publishFile, stopFilePublication, cleanupPartialPublication: every track
\* guests are offered belongs to the host's publication or to a call under
\* way.
THEOREM NoOrphanTracksTheorem == Spec => []NoOrphanTracks
<1>1. Inv => NoOrphanTracks
    BY DEF Inv, TypeOK, Tracked, Latest, NoOrphanTracks
<1> QED
    BY <1>1, Invariance, PTL

\* A card that says live has a publication, in the room of the tab, with its
\* video track.
THEOREM LiveIsPublishedTheorem == Spec => []LiveIsPublished
<1>1. Inv => LiveIsPublished
    BY PublicationAssumption DEF Inv, TypeOK, TabStates, Fresh, Latest, Tracked,
        LiveIsPublished
<1> QED
    BY <1>1, Invariance, PTL

\* selectFile and publishFile: what is published is the file the card shows.
THEOREM PublishedIsSelectedTheorem == Spec => []PublishedIsSelected
<1>1. Inv => PublishedIsSelected
    BY PublicationAssumption DEF Inv, TypeOK, TabStates, Fresh, Latest,
        PublishedIsSelected
<1> QED
    BY <1>1, Invariance, PTL

\* A step that brings a publication starts while the card says that one is on
\* its way.
LEMMA StepAsked ==
    ASSUME Inv, Next, tab'.publication \notin {None, tab.publication}
    PROVE  tab.status \in Busy
<1> USE PublicationAssumption DEF Inv
<1>1. ASSUME NEW c \in Calls, NEW published, Finish(c, published),
             calls[c].stage \in OnTheWay
      PROVE  tab.status \in Busy
    <2>1. tab.request = c
        BY <1>1 DEF Finish
    <2> QED
        BY <1>1, <2>1 DEF Fresh
<1>2. ASSUME NEW c \in Calls, CallProgress(c)
      PROVE  tab.status \in Busy
    <2>1. CASE Prepared(c)
        BY <2>1 DEF Prepared
    <2>2. CASE VideoPublished(c)
        BY <1>1, <2>2 DEF VideoPublished, OnTheWay
    <2>3. CASE AudioPublished(c)
        BY <1>1, <2>3 DEF AudioPublished, OnTheWay
    <2>4. CASE CallFails(c)
        BY <2>4, SMTT(20) DEF CallFails
    <2> QED
        BY <1>2, <2>1, <2>2, <2>3, <2>4 DEF CallProgress
<1>3. ASSUME NEW status \in Busy, PublishFile(status)
      PROVE  FALSE
    <2>1. CASE tab' = [tab EXCEPT !.status = "error"]
        BY <2>1 DEF TypeOK, TabStates
    <2>2. ASSUME NEW c \in Calls,
                 tab' = [tab EXCEPT !.recovery = "off", !.request = c,
                                    !.publication = None, !.status = status]
          PROVE  FALSE
        BY <2>2, SMTT(20)
    <2> QED
        BY <1>3, <2>1, <2>2 DEF PublishFile
<1>4. CASE Publish \/ RestartFilePublication
    BY <1>3, <1>4 DEF Publish, RestartFilePublication, Busy
<1>5. CASE RecoverPublication
    <2>1. CASE PublishFile("publishing")
        BY <1>3, <2>1 DEF Busy
    <2>2. CASE tab' = [tab EXCEPT !.recovery = "off"]
        BY <2>2, SMTT(20)
    <2>3. CASE tab' = [tab EXCEPT !.recovery = "off", !.status = "error"]
        BY <2>3, SMTT(20)
    <2> QED
        BY <1>5, <2>1, <2>2, <2>3 DEF RecoverPublication
<1>6. ASSUME NEW d \in Dials, DialSucceeds(d)
      PROVE  FALSE
    <2>1. CASE UNCHANGED tab
        BY <2>1
    <2>2. CASE tab' = [tab EXCEPT !.link = "connected", !.connection = d]
        BY <2>2, SMTT(20)
    <2> QED
        BY <1>6, <2>1, <2>2 DEF DialSucceeds
<1>7. ASSUME NEW d \in Dials, DialFails(d)
      PROVE  FALSE
    <2>1. CASE UNCHANGED tab
        BY <2>1
    <2>2. ASSUME NEW t \in {tab} \cup {Reported(tab, n) : n \in Reports},
                 tab' = [t EXCEPT !.link = "error"]
          PROVE  FALSE
        <3>1. t \in TabStates /\ t.publication \in {None, tab.publication}
            BY ReportedTab DEF TypeOK
        <3> QED
            BY <2>2, <3>1, SMTT(20)
    <2> QED
        BY <1>7, <2>1, <2>2 DEF DialFails
<1>8. ASSUME NEW n \in Reports, LoseConnection(n)
      PROVE  FALSE
    BY <1>8, ReportedTab DEF LoseConnection, TypeOK
<1>9. ASSUME NEW f \in Files, FileChecked(f)
      PROVE  FALSE
    <2>1. CASE UNCHANGED tab
        BY <2>1
    <2>2. ASSUME NEW found \in {f, None},
                 tab' = [tab EXCEPT !.file = found, !.status = "idle"]
          PROVE  FALSE
        BY <2>2, SMTT(20)
    <2> QED
        BY <1>9, <2>1, <2>2 DEF FileChecked
<1>10. ASSUME NEW f \in Files, SelectFile(f)
       PROVE  FALSE
    BY <1>10, SMTT(20) DEF SelectFile, Selecting
<1>11. ASSUME NEW next \in {"idle", "disconnected"}, LeaveRoom(next)
       PROVE  FALSE
    BY <1>11 DEF LeaveRoom
<1>12. CASE StopFilePublication
    BY <1>12, SMTT(20) DEF StopFilePublication, Stopped
<1>13. CASE ConnectLiveKit
    BY <1>13, SMTT(20) DEF ConnectLiveKit
<1>14. CASE Reconnecting \/ Reconnected
    BY <1>14, SMTT(20) DEF Reconnecting, Reconnected, TypeOK, TabStates
<1> QED
    BY <1>2, <1>4, <1>5, <1>6, <1>7, <1>8, <1>9, <1>10, <1>11, <1>12, <1>13,
        <1>14
    DEF Next, DialEnds

\* publishFile: a publication appears only while the card says that one is on
\* its way, never after the host has stopped it, left or lost the connection.
THEOREM NothingUnaskedTheorem == Spec => NothingUnasked
<1>1. Inv /\ [Next]_publicationVars =>
          [tab'.publication \notin {None, tab.publication} => tab.status \in Busy]_publicationVars
    BY StepAsked
<1> QED
    BY <1>1, Invariance, PTL DEF Spec, NothingUnasked

-----------------------------------------------------------------------------
(***************************************************************************)
(* The stage                                                               *)
(***************************************************************************)

Sources ==
    [at : Targets \cup {None}, moving : BOOLEAN, event : BOOLEAN,
     flying : BOOLEAN, told : BOOLEAN, queued : Targets \cup {None}]

\* The variables of the stage.
StageTypes ==
    /\ shown \in Busy \cup {"idle", "live", "error"}
    /\ preview \in Calls \cup {None}
    /\ asked \in Calls \cup {None}
    /\ source \in Sources
    /\ bar \in Targets \cup {None}
    /\ wanted \in Targets \cup {None}

\* The play that is pending is one of the publication on stage.
AskedOfPublication == asked \in {None, tab.publication}

\* A seek in flight, or one that waits for it, has an end to come.
SeeksEnd ==
    /\ source.told => source.flying
    /\ source.flying \/ source.queued # None => source.moving \/ source.event

\* What waits is the position asked for last, and if nothing waits the seek in
\* flight goes there.
SeeksNewest ==
    /\ source.queued # None => wanted = source.queued
    /\ source.told /\ source.queued = None => wanted # None /\ source.at = wanted

StageInv == StageTypes /\ AskedOfPublication /\ PreviewIsPublication /\ SeeksEnd /\ SeeksNewest

\* What the page does to the publication is what FilePublication says.
LEMMA StageStepIsPublicationStep == [StageNext]_stageVars => [Next]_publicationVars
<1> SUFFICES ASSUME [StageNext]_stageVars
             PROVE  [Next]_publicationVars
    OBVIOUS
<1>1. CASE PublicationSteps /\ Follow
    BY <1>1 DEF PublicationSteps, Next
<1>2. CASE Rendered \/ HostPlay \/ PlayAnswered \/ FilmAdvances \/ PointerCancel \/ SeekEnds
    BY <1>2 DEF Rendered, HostPlay, PlayAnswered, FilmAdvances, PointerCancel, SeekEnds
<1>3. ASSUME NEW s, NEW released, Controls(s, released)
      PROVE  UNCHANGED publicationVars
    BY <1>3 DEF Controls
<1>4. CASE HandleSeeked \/ SeekTimesOut
    BY <1>3, <1>4 DEF HandleSeeked, SeekTimesOut
<1>5. ASSUME NEW t \in Targets, Drag(t) \/ CommitHostSeek(t)
      PROVE  UNCHANGED publicationVars
    BY <1>3, <1>5 DEF Drag, CommitHostSeek, stageVars
<1>6. CASE UNCHANGED stageVars
    BY <1>6 DEF stageVars
<1> QED
    BY <1>1, <1>2, <1>4, <1>5, <1>6 DEF StageNext

\* The stage refines the publication, and inherits what was proved of it.
THEOREM StageIsPublication == StageSpec => Spec
<1>1. StageInit => Init
    BY DEF StageInit
<1> QED
    BY <1>1, StageStepIsPublicationStep, PTL DEF StageSpec, Spec

\* The card begins to say "live" only with another publication.
LEMMA LiveIsAnother ==
    ASSUME Inv, PublicationSteps, tab'.status = "live"
    PROVE  tab.status = "live" \/ tab'.publication # tab.publication
<1> USE PublicationAssumption DEF Inv
<1> SUFFICES ASSUME tab.status # "live", tab'.publication = tab.publication
             PROVE  FALSE
    OBVIOUS
<1>1. ASSUME NEW c \in Calls, NEW published, Finish(c, published),
             calls[c].stage \in OnTheWay
      PROVE  FALSE
    <2>1. CASE tab.request = c
        <3>1. tab' = [tab EXCEPT !.publication = c, !.status = "live"]
            BY <1>1, <2>1 DEF Finish
        <3>2. tab'.publication = c
            BY <3>1 DEF TypeOK, TabStates
        <3> QED
            BY <1>1, <3>2 DEF Latest, OnTheWay
    <2>2. CASE tab.request # c
        BY <1>1, <2>2 DEF Finish
    <2> QED
        BY <2>1, <2>2
<1>2. ASSUME NEW c \in Calls, CallProgress(c)
      PROVE  FALSE
    <2>1. CASE Prepared(c)
        BY <2>1 DEF Prepared
    <2>2. CASE VideoPublished(c)
        BY <1>1, <2>2 DEF VideoPublished, OnTheWay
    <2>3. CASE AudioPublished(c)
        BY <1>1, <2>3 DEF AudioPublished, OnTheWay
    <2>4. CASE CallFails(c)
        <3>1. CASE tab' = [tab EXCEPT !.publication = None, !.status = "error"]
            BY <3>1 DEF TypeOK, TabStates
        <3>2. CASE tab' = tab
            BY <3>2
        <3> QED
            BY <2>4, <3>1, <3>2 DEF CallFails
    <2> QED
        BY <1>2, <2>1, <2>2, <2>3, <2>4 DEF CallProgress
<1>3. ASSUME NEW status \in Busy, PublishFile(status)
      PROVE  FALSE
    <2>1. CASE tab' = [tab EXCEPT !.status = "error"]
        BY <2>1 DEF TypeOK, TabStates
    <2>2. ASSUME NEW c \in Calls,
                 tab' = [tab EXCEPT !.recovery = "off", !.request = c,
                                    !.publication = None, !.status = status]
          PROVE  FALSE
        <3>1. tab'.status = status
            BY <2>2, SMTT(20) DEF TypeOK, TabStates
        <3> QED
            BY <3>1 DEF Busy
    <2> QED
        BY <1>3, <2>1, <2>2 DEF PublishFile
<1>4. CASE Publish \/ RestartFilePublication
    BY <1>3, <1>4 DEF Publish, RestartFilePublication, Busy
<1>5. CASE RecoverPublication
    <2>1. CASE PublishFile("publishing")
        BY <1>3, <2>1 DEF Busy
    <2>2. CASE tab' = [tab EXCEPT !.recovery = "off"]
        BY <2>2, SMTT(20) DEF TypeOK, TabStates
    <2>3. CASE tab' = [tab EXCEPT !.recovery = "off", !.status = "error"]
        BY <2>3, SMTT(20) DEF TypeOK, TabStates
    <2> QED
        BY <1>5, <2>1, <2>2, <2>3 DEF RecoverPublication
<1>6. ASSUME NEW d \in Dials, DialSucceeds(d)
      PROVE  FALSE
    <2>1. CASE UNCHANGED tab
        BY <2>1
    <2>2. CASE tab' = [tab EXCEPT !.link = "connected", !.connection = d]
        BY <2>2, SMTT(20) DEF TypeOK, TabStates
    <2> QED
        BY <1>6, <2>1, <2>2 DEF DialSucceeds
<1>7. ASSUME NEW d \in Dials, DialFails(d)
      PROVE  FALSE
    <2>1. CASE UNCHANGED tab
        BY <2>1
    <2>2. ASSUME NEW t \in {tab} \cup {Reported(tab, n) : n \in Reports},
                 tab' = [t EXCEPT !.link = "error"]
          PROVE  FALSE
        <3>1. t \in TabStates /\ t.status \in {"idle", tab.status}
            BY ReportedTab DEF TypeOK
        <3> QED
            BY <2>2, <3>1, SMTT(20) DEF TabStates
    <2> QED
        BY <1>7, <2>1, <2>2 DEF DialFails
<1>8. ASSUME NEW n \in Reports, LoseConnection(n)
      PROVE  FALSE
    BY <1>8, ReportedTab DEF LoseConnection, TypeOK
<1>9. ASSUME NEW f \in Files, FileChecked(f)
      PROVE  FALSE
    <2>1. CASE UNCHANGED tab
        BY <2>1
    <2>2. ASSUME NEW found \in {f, None},
                 tab' = [tab EXCEPT !.file = found, !.status = "idle"]
          PROVE  FALSE
        BY <2>2, SMTT(20) DEF TypeOK, TabStates
    <2> QED
        BY <1>9, <2>1, <2>2 DEF FileChecked
<1>10. ASSUME NEW f \in Files, SelectFile(f)
       PROVE  FALSE
    BY <1>10, SMTT(20) DEF SelectFile, Selecting, TypeOK, TabStates
<1>11. ASSUME NEW next \in {"idle", "disconnected"}, LeaveRoom(next)
       PROVE  FALSE
    BY <1>11 DEF LeaveRoom
<1>12. CASE StopFilePublication
    BY <1>12, SMTT(20) DEF StopFilePublication, Stopped, TypeOK, TabStates
<1>13. CASE ConnectLiveKit
    BY <1>13, SMTT(20) DEF ConnectLiveKit, TypeOK, TabStates
<1>14. CASE Reconnecting \/ Reconnected
    BY <1>14, SMTT(20) DEF Reconnecting, Reconnected, TypeOK, TabStates
<1> QED
    BY <1>2, <1>4, <1>5, <1>6, <1>7, <1>8, <1>9, <1>10, <1>11, <1>12, <1>13, <1>14
    DEF PublicationSteps, DialEnds

\* The stage starts with its invariant.
LEMMA InitStageInv == StageInit => StageInv
BY StageAssumption DEF StageInit, Init, StageInv, StageTypes, Sources, NewSource,
   AskedOfPublication, PreviewIsPublication, SeeksEnd, SeeksNewest, Busy

\* A seek controller that has just been made waits for nothing.
LEMMA NewSourceWaits ==
    /\ NewSource \in Sources
    /\ ~NewSource.told /\ ~NewSource.flying /\ NewSource.queued = None
BY DEF NewSource, Sources

\* A step of the publication takes what belongs to the one before along.
LEMMA FollowKeeps ==
    ASSUME Inv, Inv', StageInv, PublicationSteps, Follow
    PROVE  StageInv'
<1>1. StageTypes /\ AskedOfPublication /\ PreviewIsPublication /\ SeeksEnd /\ SeeksNewest
    BY DEF StageInv
<1>2. /\ tab'.status \in Busy \cup {"idle", "live", "error"}
      /\ tab'.publication \in Calls \cup {None}
      /\ tab'.status = "live" => tab'.publication # None
    BY DEF Inv, TypeOK, TabStates, Fresh
<1>3. CASE tab'.publication = tab.publication
    <2>1. /\ preview' = IF tab.publication = None /\ tab'.status # tab.status
                        THEN None ELSE preview
          /\ UNCHANGED <<shown, asked, source, bar, wanted>>
        BY <1>3 DEF Follow
    <2>2. PreviewIsPublication'
        BY <1>1, <1>2, <1>3, <2>1, LiveIsAnother DEF PreviewIsPublication
    <2>3. StageTypes'
        BY <1>1, <2>1 DEF StageTypes
    <2>4. AskedOfPublication' /\ SeeksEnd' /\ SeeksNewest'
        BY <1>1, <1>3, <2>1 DEF AskedOfPublication, SeeksEnd, SeeksNewest
    <2> QED
        BY <2>2, <2>3, <2>4 DEF StageInv
<1>4. CASE tab'.publication # tab.publication
    <2>1. /\ asked' = None
          /\ source' = NewSource
          /\ wanted' = None
          /\ UNCHANGED bar
        BY <1>4 DEF Follow
    <2>2. AskedOfPublication' /\ SeeksEnd' /\ SeeksNewest'
        BY <2>1, NewSourceWaits DEF AskedOfPublication, SeeksEnd, SeeksNewest
    <2>3. CASE tab'.publication = None
        <3>1. Cut
            BY <1>4, <2>3 DEF Follow
        <3>2. preview' \in Calls \cup {None} /\ shown' \in {shown, tab'.status}
            BY <1>1, <3>1 DEF Cut, StageTypes
        <3>3. StageTypes'
            BY <1>1, <1>2, <2>1, <3>2, NewSourceWaits DEF StageTypes
        <3>4. PreviewIsPublication'
            BY <1>2, <2>3 DEF PreviewIsPublication
        <3> QED
            BY <2>2, <3>3, <3>4 DEF StageInv
    <2>4. CASE tab'.publication # None
        <3>1. preview' = (IF Mounted(shown) THEN tab'.publication ELSE preview)
              /\ UNCHANGED shown
            BY <1>4, <2>4 DEF Follow, Begun
        <3>2. StageTypes'
            BY <1>1, <1>2, <2>1, <3>1, NewSourceWaits DEF StageTypes
        <3>3. PreviewIsPublication'
            BY <3>1 DEF PreviewIsPublication, Mounted
        <3> QED
            BY <2>2, <3>2, <3>3 DEF StageInv
    <2> QED
        BY <2>3, <2>4
<1> QED
    BY <1>3, <1>4

\* What the controller is given, and when it may give the bar free.
Steered(s, released) ==
    /\ s \in Sources
    /\ s.told => s.flying
    /\ s.flying => s.moving \/ s.event
    /\ s.queued # None => wanted' = s.queued
    /\ s.told /\ s.queued = None => wanted' # None /\ s.at = wanted'
    /\ released => s.queued = None /\ wanted' # None /\ s.at = wanted'

\* flush leaves nothing waiting for a source that is free, and tells of no
\* other position than the one asked for last.
LEMMA ControlsKeeps ==
    ASSUME StageInv, NEW s, NEW released \in BOOLEAN,
           Steered(s, released), Controls(s, released),
           wanted' \in Targets \cup {None}
    PROVE  /\ StageInv'
           /\ bar # None /\ bar' = None => wanted' # None /\ source'.at = wanted'
<1>1. StageTypes /\ AskedOfPublication /\ PreviewIsPublication
    BY DEF StageInv
<1>2. /\ source' = Flushed(s)
      /\ bar' = IF released \/ ThereAlready(s) THEN None ELSE bar
      /\ UNCHANGED <<publicationVars, shown, preview, asked>>
    BY DEF Controls
<1>3. s \in Sources
    BY DEF Steered
<1>4. AskedOfPublication' /\ PreviewIsPublication'
    BY <1>1, <1>2 DEF AskedOfPublication, PreviewIsPublication, publicationVars
<1>5. /\ source' \in Sources /\ SeeksEnd' /\ SeeksNewest'
      /\ released \/ ThereAlready(s) => wanted' # None /\ source'.at = wanted'
    <2>1. CASE s.queued = None \/ ~Free(s)
        <3>1. source' = s
            BY <1>2, <2>1 DEF Flushed
        <3>2. s.queued # None => s.flying \/ s.moving
            BY <2>1 DEF Free
        <3>3. ~ThereAlready(s)
            BY <2>1 DEF ThereAlready
        <3> QED
            BY <1>3, <3>1, <3>2, <3>3 DEF Steered, SeeksEnd, SeeksNewest
    <2>2. CASE ThereAlready(s)
        <3>1. s.queued # None /\ Free(s) /\ s.at = s.queued
            BY <2>2 DEF ThereAlready
        <3>2. source' = [s EXCEPT !.queued = None, !.told = FALSE]
            BY <1>2, <2>2, <3>1 DEF Flushed
        <3>3. /\ source' \in Sources /\ source'.queued = None /\ source'.told = FALSE
              /\ source'.flying = s.flying /\ source'.at = s.at
            BY <1>3, <3>2 DEF Sources
        <3>4. ~s.flying
            BY <3>1 DEF Free
        <3>5. wanted' = s.queued
            BY <3>1 DEF Steered
        <3> QED
            BY <3>1, <3>3, <3>4, <3>5 DEF SeeksEnd, SeeksNewest
    <2>3. CASE s.queued # None /\ Free(s) /\ ~ThereAlready(s)
        <3>1. source' = [s EXCEPT !.at = s.queued, !.moving = TRUE, !.flying = TRUE,
                                  !.told = TRUE, !.queued = None]
            BY <1>2, <2>3 DEF Flushed
        <3>2. /\ source' \in Sources /\ source'.queued = None /\ source'.told = TRUE
              /\ source'.flying = TRUE /\ source'.moving = TRUE /\ source'.at = s.queued
            BY <1>3, <3>1 DEF Sources
        <3>3. wanted' = s.queued
            BY <2>3 DEF Steered
        <3>4. ~released
            BY <2>3 DEF Steered
        <3> QED
            BY <2>3, <3>2, <3>3, <3>4 DEF SeeksEnd, SeeksNewest
    <2> QED
        BY <2>1, <2>2, <2>3
<1>6. StageTypes'
    BY <1>1, <1>2, <1>5 DEF StageTypes
<1> QED
    BY <1>2, <1>4, <1>5, <1>6 DEF StageInv

\* When the bar becomes free, and the host has not given up dragging by
\* itself, the source is where the host has asked for it to be.
FreedAtNewest ==
    bar # None /\ bar' = None => (wanted' # None /\ source'.at = wanted') \/ PointerCancel

\* Releasing the bar sends the source on, at once or after the seek in flight.
LEMMA CommitHostSeekKeeps ==
    ASSUME StageInv, NEW t \in Targets, CommitHostSeek(t)
    PROVE  StageInv' /\ FreedAtNewest
<1> USE StageAssumption
<1>1. CASE tab.publication = None
    BY <1>1 DEF CommitHostSeek, stageVars, stage, publicationVars, StageInv, StageTypes,
       AskedOfPublication, PreviewIsPublication, SeeksEnd, SeeksNewest, FreedAtNewest
<1>2. CASE tab.publication # None
    <2> DEFINE s == [source EXCEPT !.queued = t]
    <2>1. wanted' = t /\ Controls(s, FALSE)
        BY <1>2 DEF CommitHostSeek
    <2>2. source \in Sources /\ SeeksEnd
        BY DEF StageInv, StageTypes
    <2>3. /\ s \in Sources /\ s.queued = t /\ s.told = source.told /\ s.flying = source.flying
          /\ s.moving = source.moving /\ s.event = source.event
        BY <2>2 DEF Sources
    <2>4. Steered(s, FALSE)
        <3> HIDE DEF s
        <3> QED
            BY <2>1, <2>2, <2>3 DEF Steered, SeeksEnd
    <2>5. t \in Targets \cup {None}
        OBVIOUS
    <2> HIDE DEF s
    <2> QED
        BY <2>1, <2>4, <2>5, ControlsKeeps DEF FreedAtNewest
<1> QED
    BY <1>1, <1>2

\* The end of a seek that another one has overtaken does not free the bar.
LEMMA HandleSeekedKeeps ==
    ASSUME StageInv, HandleSeeked
    PROVE  StageInv' /\ FreedAtNewest
<1> DEFINE released == source.told /\ source.queued = None
<1>1. source.event /\ Controls(Landed, released) /\ wanted' = wanted
    BY DEF HandleSeeked
<1>2. source \in Sources /\ wanted \in Targets \cup {None} /\ SeeksEnd /\ SeeksNewest
    BY DEF StageInv, StageTypes
<1>3. /\ Landed \in Sources /\ ~Landed.told /\ ~Landed.flying
      /\ Landed.queued = source.queued /\ Landed.at = source.at
    BY <1>2 DEF Landed, Sources
<1>4. released \in BOOLEAN
    OBVIOUS
<1>5. Steered(Landed, released)
    BY <1>1, <1>2, <1>3 DEF Steered, SeeksNewest
<1>6. wanted' \in Targets \cup {None}
    BY <1>1, <1>2
<1> HIDE DEF released
<1> QED
    BY <1>1, <1>4, <1>5, <1>6, ControlsKeeps DEF FreedAtNewest

\* A seek that is waited for no longer completes nothing.
LEMMA SeekTimesOutKeeps ==
    ASSUME StageInv, SeekTimesOut
    PROVE  StageInv' /\ FreedAtNewest
<1> DEFINE s == [source EXCEPT !.flying = FALSE, !.told = FALSE]
<1>1. Controls(s, FALSE) /\ wanted' = wanted
    BY DEF SeekTimesOut
<1>2. source \in Sources /\ wanted \in Targets \cup {None} /\ SeeksNewest
    BY DEF StageInv, StageTypes
<1>3. /\ s \in Sources /\ s.told = FALSE /\ s.flying = FALSE /\ s.queued = source.queued
    BY <1>2 DEF Sources
<1> HIDE DEF s
<1>4. Steered(s, FALSE)
    BY <1>1, <1>2, <1>3 DEF Steered, SeeksNewest
<1>5. wanted' \in Targets \cup {None}
    BY <1>1, <1>2
<1> QED
    BY <1>1, <1>4, <1>5, ControlsKeeps DEF FreedAtNewest

\* A source that is moved by its own element waits as before.
LEMMA SourceKeeps ==
    ASSUME StageInv, source' \in Sources, SeeksEnd', SeeksNewest',
           UNCHANGED <<tab, shown, preview, asked, bar>>,
           wanted' \in Targets \cup {None}
    PROVE  StageInv'
BY DEF StageInv, StageTypes, AskedOfPublication, PreviewIsPublication

\* Every step of the stage keeps the invariant, and frees the bar as said.
LEMMA StepStageInv ==
    ASSUME Inv, Inv', StageInv, [StageNext]_stageVars
    PROVE  StageInv' /\ (FreedAtNewest \/ UNCHANGED stageVars)
<1>1. /\ StageTypes /\ AskedOfPublication /\ PreviewIsPublication /\ SeeksEnd /\ SeeksNewest
      /\ source \in Sources
    BY DEF StageInv, StageTypes
<1>2. CASE PublicationSteps /\ Follow
    <2>1. bar' = bar
        BY <1>2 DEF Follow
    <2> QED
        BY <1>2, <2>1, FollowKeeps DEF FreedAtNewest
<1>3. CASE Rendered
    <2>1. /\ shown' = tab.status
          /\ preview' = (IF Mounted(tab.status) THEN tab.publication ELSE None)
          /\ UNCHANGED <<tab, asked, source, bar, wanted>>
        BY <1>3 DEF Rendered, SetHostPreviewElement, publicationVars
    <2>2. tab.status \in Busy \cup {"idle", "live", "error"}
          /\ tab.publication \in Calls \cup {None}
        BY DEF Inv, TypeOK, TabStates
    <2>3. StageTypes'
        BY <1>1, <2>1, <2>2 DEF StageTypes
    <2>4. PreviewIsPublication'
        BY <2>1 DEF PreviewIsPublication, Mounted
    <2> QED
        BY <1>1, <2>1, <2>3, <2>4
        DEF StageInv, AskedOfPublication, SeeksEnd, SeeksNewest, FreedAtNewest
<1>4. CASE HostPlay
    BY <1>1, <1>4 DEF HostPlay, publicationVars, Inv, TypeOK, TabStates, StageInv, StageTypes,
       AskedOfPublication, PreviewIsPublication, SeeksEnd, SeeksNewest, FreedAtNewest
<1>5. CASE PlayAnswered
    BY <1>1, <1>5 DEF PlayAnswered, publicationVars, StageInv, StageTypes, AskedOfPublication,
       PreviewIsPublication, SeeksEnd, SeeksNewest, FreedAtNewest
<1>6. CASE FilmAdvances
    <2>1. /\ ~source.moving /\ ~source.event
          /\ source' = [source EXCEPT !.at = None]
          /\ wanted' = None
          /\ UNCHANGED <<tab, shown, preview, asked, bar>>
        BY <1>6 DEF FilmAdvances, publicationVars
    <2>2. /\ source' \in Sources /\ source'.told = source.told /\ source'.flying = source.flying
          /\ source'.queued = source.queued
          /\ source'.moving = source.moving /\ source'.event = source.event
        BY <1>1, <2>1 DEF Sources
    <2>3. ~source'.told /\ source'.queued = None
        BY <1>1, <2>1, <2>2 DEF SeeksEnd
    <2>4. SeeksEnd' /\ SeeksNewest'
        BY <1>1, <2>2, <2>3 DEF SeeksEnd, SeeksNewest
    <2> QED
        BY <2>1, <2>2, <2>4, SourceKeeps DEF FreedAtNewest
<1>7. CASE SeekEnds
    <2>1. /\ source' = [source EXCEPT !.moving = FALSE, !.event = TRUE]
          /\ UNCHANGED <<tab, shown, preview, asked, bar, wanted>>
        BY <1>7 DEF SeekEnds, publicationVars
    <2>2. /\ source' \in Sources /\ source'.told = source.told /\ source'.flying = source.flying
          /\ source'.queued = source.queued /\ source'.at = source.at /\ source'.event = TRUE
        BY <1>1, <2>1 DEF Sources
    <2>3. SeeksEnd' /\ SeeksNewest'
        BY <1>1, <2>1, <2>2 DEF SeeksEnd, SeeksNewest
    <2>4. wanted' \in Targets \cup {None}
        BY <1>1, <2>1 DEF StageTypes
    <2> QED
        BY <2>1, <2>2, <2>3, <2>4, SourceKeeps DEF FreedAtNewest
<1>8. ASSUME NEW t \in Targets, Drag(t)
      PROVE  StageInv' /\ FreedAtNewest
    BY <1>1, <1>8, StageAssumption
    DEF Drag, publicationVars, StageInv, StageTypes, AskedOfPublication,
        PreviewIsPublication, SeeksEnd, SeeksNewest, FreedAtNewest
<1>9. CASE PointerCancel
    BY <1>1, <1>9 DEF PointerCancel, publicationVars, StageInv, StageTypes, AskedOfPublication,
       PreviewIsPublication, SeeksEnd, SeeksNewest, FreedAtNewest
<1>10. CASE HandleSeeked \/ SeekTimesOut \/ \E t \in Targets : CommitHostSeek(t)
    BY <1>10, HandleSeekedKeeps, SeekTimesOutKeeps, CommitHostSeekKeeps
<1>11. CASE UNCHANGED stageVars
    BY <1>1, <1>11 DEF stageVars, stage, publicationVars, StageInv, StageTypes,
       AskedOfPublication, PreviewIsPublication, SeeksEnd, SeeksNewest
<1> QED
    BY <1>2, <1>3, <1>4, <1>5, <1>6, <1>7, <1>8, <1>9, <1>10, <1>11 DEF StageNext

\* The publication's invariant holds on the stage, and the stage's own.
LEMMA StageInvariance == StageSpec => [](Inv /\ StageInv)
<1>1. StageSpec => []Inv
    BY StageIsPublication, Invariance, PTL
<1>2. Inv /\ Inv' /\ StageInv /\ [StageNext]_stageVars => StageInv'
    BY StepStageInv
<1> QED
    BY <1>1, <1>2, InitStageInv, PTL DEF StageSpec

\* The state of the hook and of the host's player keeps its types.
THEOREM StageTypeCorrect == StageSpec => []StageTypeOK
<1>1. Inv /\ StageInv => StageTypeOK
    BY DEF Inv, StageInv, StageTypes, Sources, StageTypeOK
<1> QED
    BY <1>1, StageInvariance, PTL

\* Nothing that is done with the player breaks what was promised of the
\* publication: one connection, no orphan track, the selected file, and nothing
\* published that was not asked for.
THEOREM StageKeepsPublication ==
    StageSpec => /\ []OneConnection
                 /\ []NoOrphanTracks
                 /\ []PublishedIsSelected
                 /\ NothingUnasked
BY StageIsPublication, OneConnectionTheorem, NoOrphanTracksTheorem, PublishedIsSelectedTheorem,
   NothingUnaskedTheorem, PTL

\* The preview of a live publication shows that publication.
THEOREM PreviewTheorem == StageSpec => []PreviewIsPublication
BY StageInvariance, PTL DEF StageInv

\* createHostSeekController: the seek bar becomes free only at the position
\* asked for last.
THEOREM NewestSeekTheorem == StageSpec => BarFollowsNewestSeek
<1>1. /\ Inv /\ StageInv /\ Inv' /\ StageInv' /\ [StageNext]_stageVars
      => [FreedAtNewest]_stageVars
    BY StepStageInv
<1>2. [FreedAtNewest]_stageVars
      => [bar # None /\ bar' = None => (wanted' # None /\ source'.at = wanted') \/ PointerCancel]_stageVars
    BY DEF FreedAtNewest
<1> QED
    BY <1>1, <1>2, StageInvariance, PTL DEF StageSpec, BarFollowsNewestSeek

-----------------------------------------------------------------------------
(***************************************************************************)
(* The film at a guest: the inductive invariant                            *)
(***************************************************************************)

FilmStatus == {"playing", "paused", "ended", "idle"}

HostTypes == [show : Shows \cup {None}, film : {"playing", "paused", "ended"}]

Messages == [first : {"yes", "no"}, status : FilmStatus]

GuestTypes ==
    [link : {"on", "off"}, earlier : 0 .. MaxEarlier, heard : {"yes", "no"},
     view : [status : FilmStatus, error : {"yes", "no"}],
     remote : {"idle", "waiting", "receiving", "lost", "error"},
     received : SUBSET Tracks, track : [Kinds -> Shows \cup {None}],
     from : {"nobody", "host"}, left : {"yes", "no"}]

PlayTypes == [by : {"state", "track", "nobody"}, is : {"waiting", "aborted"}]

ScreenTypes ==
    [there : {"yes", "no"}, state : {"playing", "paused"}, source : Shows \cup {None},
     plays : SUBSET PlayTypes]

FilmTypes ==
    /\ host \in HostTypes /\ flight \in Seq(Messages) /\ offered \subseteq Tracks
    /\ guest \in GuestTypes /\ screen \in ScreenTypes

\* Only the tracks of the publication are offered.
OfferedIsShown ==
    /\ \A t \in offered : t.show = host.show
    /\ host.show = None => offered = {}

\* A guest that is away has nothing, and nothing comes: not even the refusal of a
\* play concerns it.
NothingWhileAway ==
    guest.link = "off" =>
        guest = Away /\ flight = <<>> /\ \A p \in screen.plays : p.by = "nobody"

\* The controller holds tracks it has been told of, and every offered one of them.
TracksAreReceived ==
    /\ \A k \in Kinds :
          guest.track[k] # None => [show |-> guest.track[k], kind |-> k] \in guest.received
    /\ \A t \in guest.received \cap offered : guest.track[t.kind] = t.show
    /\ guest.from = "nobody" => guest.received = {}

\* The element, when it is there, has the controller's video track.
SourceIsTrack ==
    screen.source = IF screen.there = "yes" THEN guest.track["video"] ELSE None

\* The card speaks of tracks exactly when the controller has some.
CardFollowsTracks ==
    guest.link = "on" =>
       IF \E k \in Kinds : guest.track[k] # None THEN guest.remote \in {"receiving", "error"}
       ELSE guest.remote \in {"waiting", "lost", "error"}

ScreeningInv ==
    /\ FilmTypes
    /\ OfferedIsShown
    /\ NothingWhileAway
    /\ TracksAreReceived
    /\ SourceIsTrack
    /\ CardFollowsTracks

\* The types one by one.
LEMMA FilmTypesAre == FilmTypes => ScreeningTypes
BY DEF FilmTypes, ScreeningTypes, HostTypes, Messages, GuestTypes, ScreenTypes, PlayTypes, FilmStatus

\* A guest that is away has its types.
LEMMA AwayTypes ==
  /\ Away \in GuestTypes /\ Away.link = "off" /\ Away.received = {} /\ Away.left = "no"
  /\ Away.view = Idle /\ Away.remote = "idle" /\ Away.from = "nobody" /\ Away.heard = "no"
  /\ \A k \in Kinds : Away.track[k] = None
BY ScreeningAssumption DEF Away, Idle, NoTracks, GuestTypes, FilmStatus

\* At first there is no film and no guest.
LEMMA ScreeningInitially == ScreeningInit => ScreeningInv
<1> SUFFICES ASSUME ScreeningInit PROVE ScreeningInv
  OBVIOUS
<1>1. host \in HostTypes /\ flight \in Seq(Messages) /\ offered \subseteq Tracks /\ screen \in ScreenTypes
  BY DEF ScreeningInit, HostTypes, ScreenTypes, NewScreen
<1>2. FilmTypes
  BY <1>1, AwayTypes DEF FilmTypes, ScreeningInit
<1>3. guest.track["video"] = None
  BY AwayTypes, ScreeningAssumption DEF ScreeningInit
<1> QED BY <1>2, <1>3, AwayTypes
        DEF ScreeningInv, ScreeningInit, OfferedIsShown, NothingWhileAway, TracksAreReceived,
            SourceIsTrack, CardFollowsTracks, NewScreen

-----------------------------------------------------------------------------
(***************************************************************************)
(* The guest's element                                                     *)
(***************************************************************************)

\* Nobody's plays stay nobody's.
Nobodys(s) == \A p \in s.plays : p.by = "nobody"

\* Pausing keeps the source.
LEMMA PausedShape ==
  ASSUME NEW s \in ScreenTypes
  PROVE  /\ Paused(s) \in ScreenTypes /\ Paused(s).there = s.there
         /\ Paused(s).source = s.source /\ (Nobodys(s) => Nobodys(Paused(s)))
<1>1. Aborted(s.plays) \subseteq PlayTypes /\ (Nobodys(s) => \A p \in Aborted(s.plays) : p.by = "nobody")
  BY DEF Aborted, ScreenTypes, PlayTypes, Nobodys
<1>2. Paused(s) = [s EXCEPT !.state = "paused", !.plays = Aborted(s.plays)]
  BY DEF Paused, ScreenTypes
<1>3. /\ Paused(s).there = s.there /\ Paused(s).source = s.source
      /\ Paused(s).plays = Aborted(s.plays)
  BY <1>2 DEF ScreenTypes
<1>4. Paused(s) = [there |-> s.there, state |-> "paused", source |-> s.source,
                   plays |-> Aborted(s.plays)]
  BY <1>2 DEF ScreenTypes
<1>5. Paused(s) \in ScreenTypes
  BY <1>1, <1>4 DEF ScreenTypes
<1> QED BY <1>1, <1>3, <1>5 DEF Nobodys

\* So does playing.
LEMMA PlayedShape ==
  ASSUME NEW s \in ScreenTypes, NEW by \in {"state", "track"}
  PROVE  /\ Played(s, by) \in ScreenTypes /\ Played(s, by).there = s.there
         /\ Played(s, by).source = s.source
<1>1. [by |-> by, is |-> "waiting"] \in PlayTypes
  BY DEF PlayTypes
<1>2. Played(s, by) = [s EXCEPT !.state = "playing",
                                !.plays = s.plays \cup {[by |-> by, is |-> "waiting"]}]
  BY DEF Played, ScreenTypes
<1>3. Played(s, by) = [there |-> s.there, state |-> "playing", source |-> s.source,
                       plays |-> s.plays \cup {[by |-> by, is |-> "waiting"]}]
  BY <1>2 DEF ScreenTypes
<1> QED BY <1>1, <1>3 DEF ScreenTypes

\* A new source is a pause.
LEMMA SourcedShape ==
  ASSUME NEW s \in ScreenTypes, NEW show \in Shows \cup {None}
  PROVE  /\ Sourced(s, show) \in ScreenTypes /\ Sourced(s, show).there = s.there
         /\ Sourced(s, show).source = show /\ (Nobodys(s) => Nobodys(Sourced(s, show)))
<1>1. Sourced(s, show) = [Paused(s) EXCEPT !.source = show]
  BY DEF Sourced
<1> QED BY <1>1, PausedShape DEF ScreenTypes, Nobodys

\* A track that is attached is the source of an element that is there.
LEMMA AttachedShape ==
  ASSUME NEW s \in ScreenTypes, NEW show \in Shows \cup {None}
  PROVE  /\ Attached(s, show) \in ScreenTypes /\ Attached(s, show).there = s.there
         /\ Attached(s, show).source =
               IF s.there = "no" \/ show = None THEN s.source ELSE show
         /\ show = None => Attached(s, show) = s
<1>1. CASE s.there = "no" \/ show = None
  BY <1>1 DEF Attached
<1>2. CASE ~(s.there = "no" \/ show = None)
  <2>1. Attached(s, show) = Played(Sourced(s, show), "track")
    BY <1>2 DEF Attached
  <2> QED BY <1>2, <2>1, SourcedShape, PlayedShape
<1> QED BY <1>1, <1>2

\* A track that is detached is the source no more.
LEMMA DetachedShape ==
  ASSUME NEW s \in ScreenTypes, NEW show \in Shows \cup {None}
  PROVE  /\ Detached(s, show) \in ScreenTypes /\ Detached(s, show).there = s.there
         /\ Detached(s, show).source =
               IF s.there = "yes" /\ s.source = show THEN None ELSE s.source
         /\ (Nobodys(s) => Nobodys(Detached(s, show)))
<1>1. CASE s.there = "no" \/ show = None \/ s.source # show
  <2>1. Detached(s, show) = s
    BY <1>1 DEF Detached
  <2>2. (IF s.there = "yes" /\ s.source = show THEN None ELSE s.source) = s.source
    BY <1>1 DEF ScreenTypes
  <2> QED BY <2>1, <2>2
<1>2. CASE ~(s.there = "no" \/ show = None \/ s.source # show)
  <2>1. Detached(s, show) = Sourced(s, None)
    BY <1>2 DEF Detached
  <2> QED BY <1>2, <2>1, SourcedShape DEF ScreenTypes
<1> QED BY <1>1, <1>2

\* A playback state does not touch the source.
LEMMA AppliedShape ==
  ASSUME NEW s \in ScreenTypes, NEW status \in FilmStatus
  PROVE  /\ Applied(s, status) \in ScreenTypes /\ Applied(s, status).there = s.there
         /\ Applied(s, status).source = s.source
<1>1. CASE s.there = "no"
  BY <1>1 DEF Applied
<1>2. CASE s.there # "no" /\ status = "playing"
  <2>1. Applied(s, status) = Played(s, "state")
    BY <1>2 DEF Applied
  <2> QED BY <2>1, PlayedShape
<1>3. CASE s.there # "no" /\ status # "playing"
  <2>1. Applied(s, status) = Paused(s)
    BY <1>3 DEF Applied, FilmStatus
  <2> QED BY <2>1, PausedShape
<1> QED BY <1>1, <1>2, <1>3

\* The plays of a controller that is gone are nobody's.
LEMMA OrphanedShape ==
  ASSUME NEW s \in ScreenTypes
  PROVE  /\ Orphaned(s) \in ScreenTypes /\ Orphaned(s).there = s.there
         /\ Orphaned(s).source = s.source /\ Nobodys(Orphaned(s))
<1> DEFINE orphans == {[p EXCEPT !.by = "nobody"] : p \in s.plays}
<1>1. orphans \subseteq PlayTypes /\ \A p \in orphans : p.by = "nobody"
  BY DEF ScreenTypes, PlayTypes
<1>2. Orphaned(s) = [s EXCEPT !.plays = orphans]
  BY DEF Orphaned, ScreenTypes
<1> HIDE DEF orphans
<1> QED BY <1>1, <1>2 DEF ScreenTypes, Nobodys

\* A mounted element is new, but for the plays that still wait.
LEMMA NewScreenShape ==
  ASSUME NEW s \in ScreenTypes
  PROVE  LET fresh == [NewScreen EXCEPT !.plays = s.plays]
         IN  fresh \in ScreenTypes /\ fresh.there = "yes" /\ fresh.source = None
             /\ fresh.plays = s.plays
BY DEF NewScreen, ScreenTypes

-----------------------------------------------------------------------------
(***************************************************************************)
(* The host's steps                                                        *)
(***************************************************************************)

\* A message is under way only to a guest that is connected.
LEMMA SentShape ==
  ASSUME ScreeningInv, NEW message \in Messages, flight' = Sent(message)
  PROVE  flight' \in Seq(Messages) /\ (guest.link = "off" => flight' = <<>>)
<1>1. flight \in Seq(Messages) /\ guest.link \in {"on", "off"}
  BY DEF ScreeningInv, FilmTypes, GuestTypes
<1>2. CASE guest.link = "on"
  BY <1>1, <1>2 DEF Sent
<1>3. CASE guest.link = "off"
  BY <1>3 DEF Sent, ScreeningInv, NothingWhileAway
<1> QED BY <1>1, <1>2, <1>3

\* What the host does leaves guest and element alone, and the offered tracks that
\* the guest has already are among those offered before.
LEMMA HostKeeps ==
  ASSUME ScreeningInv, UNCHANGED <<guest, screen>>, host' \in HostTypes,
         flight' \in Seq(Messages), guest.link = "off" => flight' = <<>>,
         offered' \subseteq Tracks, OfferedIsShown',
         guest.received \cap offered' \subseteq offered
  PROVE  ScreeningInv'
<1>1. FilmTypes'
  BY DEF ScreeningInv, FilmTypes
<1>2. NothingWhileAway' /\ SourceIsTrack' /\ CardFollowsTracks'
  BY DEF ScreeningInv, NothingWhileAway, SourceIsTrack, CardFollowsTracks
<1>3. TracksAreReceived'
  BY DEF ScreeningInv, TracksAreReceived
<1> QED BY <1>1, <1>2, <1>3 DEF ScreeningInv

\* The tracks of a publication that has just been made are new to the guest.
LEMMA PublishFilmStep ==
  ASSUME ScreeningInv, NEW show \in Shows, PublishFilm(show)
  PROVE  ScreeningInv'
<1>1. PICK film \in {"playing", "paused"}, kinds \in SUBSET Kinds :
         /\ host' = [show |-> show, film |-> film]
         /\ offered' = offered \cup [show : {show}, kind : kinds]
         /\ flight' = Sent([first |-> "yes", status |-> film])
  BY DEF PublishFilm
<1>2. /\ host.show = None /\ UNCHANGED <<guest, screen>>
      /\ \A t \in guest.received : t.show # show
  BY DEF PublishFilm
<1>3. offered = {}
  BY <1>2 DEF ScreeningInv, OfferedIsShown
<1>4. \A t \in [show : {show}, kind : kinds] : t \in Tracks /\ t.show = show
  BY DEF Tracks
<1>5. host' \in HostTypes /\ [first |-> "yes", status |-> film] \in Messages
  BY <1>1 DEF HostTypes, Messages, FilmStatus
<1>6. OfferedIsShown'
  BY <1>1, <1>3, <1>4, ScreeningAssumption DEF OfferedIsShown
<1> QED BY <1>1, <1>2, <1>3, <1>4, <1>5, <1>6, SentShape, HostKeeps

\* The film changes or is reported.
LEMMA FilmStep == ScreeningInv /\ (ChangeFilm \/ Heartbeat) => ScreeningInv'
<1> SUFFICES ASSUME ScreeningInv, ChangeFilm \/ Heartbeat PROVE ScreeningInv'
  OBVIOUS
<1>1. host \in HostTypes /\ offered \subseteq Tracks
  BY DEF ScreeningInv, FilmTypes
<1>2. \E message \in Messages : flight' = Sent(message)
  BY <1>1 DEF ChangeFilm, Heartbeat, Report, Messages, HostTypes, FilmStatus
<1>3. host' \in HostTypes /\ host'.show = host.show /\ UNCHANGED <<offered, guest, screen>>
  BY <1>1 DEF ChangeFilm, Heartbeat, HostTypes
<1>4. OfferedIsShown'
  BY <1>3 DEF ScreeningInv, OfferedIsShown
<1> QED BY <1>1, <1>2, <1>3, <1>4, SentShape, HostKeeps

\* Without its publication nothing is offered.
LEMMA StopFilmStep == ScreeningInv /\ StopFilm => ScreeningInv'
<1> SUFFICES ASSUME ScreeningInv, StopFilm PROVE ScreeningInv'
  OBVIOUS
<1>1. [first |-> "no", status |-> "idle"] \in Messages
  BY DEF Messages, FilmStatus
<1>2. /\ flight' = Sent([first |-> "no", status |-> "idle"])
      /\ host' = [host EXCEPT !.show = None] /\ UNCHANGED <<guest, screen>>
  BY DEF StopFilm
<1>3. offered' = {}
  BY DEF StopFilm, ScreeningInv, OfferedIsShown
<1>4. host' \in HostTypes
  BY <1>2 DEF ScreeningInv, FilmTypes, HostTypes
<1>5. OfferedIsShown'
  BY <1>3 DEF OfferedIsShown
<1> QED BY <1>1, <1>2, <1>3, <1>4, <1>5, SentShape, HostKeeps

\* The host's connection is lost; a connected guest will be told.
LEMMA LoseHostStep == ScreeningInv /\ LoseHost => ScreeningInv'
<1> SUFFICES ASSUME ScreeningInv, LoseHost PROVE ScreeningInv'
  OBVIOUS
<1> USE DEF ScreeningInv
<1>1. /\ host' = [host EXCEPT !.show = None] /\ offered' = {}
      /\ guest' = IF guest.link = "on" THEN [guest EXCEPT !.left = "yes"] ELSE guest
      /\ flight' = flight /\ screen' = screen
  BY DEF LoseHost
<1>2. /\ guest' \in GuestTypes /\ guest'.link = guest.link /\ guest'.track = guest.track
      /\ guest'.received = guest.received /\ guest'.from = guest.from
      /\ guest'.remote = guest.remote /\ (guest.link = "off" => guest' = guest)
  BY <1>1 DEF FilmTypes, GuestTypes
<1>3. FilmTypes'
  BY <1>1, <1>2 DEF FilmTypes, HostTypes
<1>4. OfferedIsShown' /\ NothingWhileAway' /\ TracksAreReceived'
  BY <1>1, <1>2 DEF OfferedIsShown, NothingWhileAway, TracksAreReceived
<1>5. SourceIsTrack' /\ CardFollowsTracks'
  BY <1>1, <1>2 DEF SourceIsTrack, CardFollowsTracks
<1> QED BY <1>3, <1>4, <1>5

-----------------------------------------------------------------------------
(***************************************************************************)
(* The guest's steps                                                       *)
(***************************************************************************)

\* The state of a guest that has just connected.
LEMMA ConnectGuestStep == ScreeningInv /\ ConnectGuest => ScreeningInv'
<1> SUFFICES ASSUME ScreeningInv, ConnectGuest PROVE ScreeningInv'
  OBVIOUS
<1> USE DEF ScreeningInv
<1>1. /\ guest = Away /\ guest' = [Away EXCEPT !.link = "on", !.remote = "waiting"]
      /\ UNCHANGED <<host, flight, offered, screen>>
  BY DEF ConnectGuest, NothingWhileAway
<1>2. /\ guest' \in GuestTypes /\ guest'.link = "on" /\ guest'.remote = "waiting"
      /\ guest'.track = guest.track /\ guest'.received = {} /\ guest'.from = "nobody"
      /\ \A k \in Kinds : guest'.track[k] = None
  BY <1>1, AwayTypes DEF GuestTypes
<1>3. FilmTypes' /\ OfferedIsShown' /\ NothingWhileAway'
  BY <1>1, <1>2 DEF FilmTypes, OfferedIsShown, NothingWhileAway
<1>4. TracksAreReceived' /\ SourceIsTrack' /\ CardFollowsTracks'
  BY <1>1, <1>2 DEF TracksAreReceived, SourceIsTrack, CardFollowsTracks
<1> QED BY <1>3, <1>4

\* The video track of the controller.
LEMMA VideoTrack == FilmTypes => guest.track["video"] \in Shows \cup {None}
BY ScreeningAssumption DEF FilmTypes, GuestTypes

\* A connection that goes takes tracks, messages and the controllers' plays along.
LEMMA DisconnectGuestStep == ScreeningInv /\ DisconnectGuest => ScreeningInv'
<1> SUFFICES ASSUME ScreeningInv, DisconnectGuest PROVE ScreeningInv'
  OBVIOUS
<1> USE DEF ScreeningInv
<1> DEFINE detached == Detached(screen, guest.track["video"])
<1>1. /\ guest' = Away /\ screen' = Orphaned(detached) /\ flight' = <<>>
      /\ UNCHANGED <<host, offered>>
  BY DEF DisconnectGuest
<1>2. detached \in ScreenTypes /\ detached.source = None
  BY VideoTrack, DetachedShape, ScreeningAssumption DEF FilmTypes, SourceIsTrack, ScreenTypes
<1> HIDE DEF detached
<1>3. screen' \in ScreenTypes /\ screen'.source = None /\ Nobodys(screen')
  BY <1>1, <1>2, OrphanedShape
<1>4. FilmTypes' /\ OfferedIsShown'
  BY <1>1, <1>3, AwayTypes DEF FilmTypes, OfferedIsShown
<1>5. NothingWhileAway'
  BY <1>1, <1>3 DEF NothingWhileAway, Nobodys
<1>6. TracksAreReceived' /\ SourceIsTrack' /\ CardFollowsTracks'
  BY <1>1, <1>3, AwayTypes, ScreeningAssumption DEF TracksAreReceived, SourceIsTrack, CardFollowsTracks
<1> QED BY <1>4, <1>5, <1>6

\* What the controller emits is what its tracks ask for.
LEMMA EmittedShape ==
  ASSUME NEW g \in GuestTypes
  PROVE  /\ Emitted(g) \in GuestTypes
         /\ Emitted(g).link = g.link /\ Emitted(g).track = g.track
         /\ Emitted(g).received = g.received /\ Emitted(g).from = g.from
         /\ IF \E k \in Kinds : g.track[k] # None THEN Emitted(g).remote = "receiving"
            ELSE Emitted(g).remote \in {"waiting", "lost"}
<1>1. Shown(g) \in {"receiving", "waiting", "lost"}
      /\ IF \E k \in Kinds : g.track[k] # None THEN Shown(g) = "receiving"
         ELSE Shown(g) \in {"waiting", "lost"}
  BY DEF Shown
<1>2. Emitted(g) = [g EXCEPT !.remote = Shown(g)]
  BY DEF Emitted
<1> HIDE DEF Shown
<1> QED BY <1>1, <1>2 DEF GuestTypes

\* A step that leaves the tracks alone keeps the invariant if element and card still
\* go with them, and if nothing happens to a guest that is away.
LEMMA TracksKeep ==
  ASSUME ScreeningInv, UNCHANGED <<host, offered>>,
         guest' \in GuestTypes, screen' \in ScreenTypes, flight' \in Seq(Messages),
         guest'.link = guest.link, guest'.track = guest.track,
         guest'.received = guest.received, guest'.from = guest.from,
         SourceIsTrack', CardFollowsTracks', NothingWhileAway'
  PROVE  ScreeningInv'
<1>1. FilmTypes' /\ OfferedIsShown'
  BY DEF ScreeningInv, FilmTypes, OfferedIsShown
<1>2. TracksAreReceived'
  BY DEF ScreeningInv, TracksAreReceived
<1> QED BY <1>1, <1>2 DEF ScreeningInv

\* The element is given back with the controller's track, or taken away without it.
LEMMA SetElementsStep ==
  ASSUME ScreeningInv, NEW there \in {"yes", "no"}, SetElements(there)
  PROVE  ScreeningInv'
<1> USE DEF ScreeningInv
<1> DEFINE video == guest.track["video"]
<1>1. /\ guest \in GuestTypes /\ screen \in ScreenTypes /\ flight \in Seq(Messages)
      /\ video \in Shows \cup {None} /\ guest.view.status \in FilmStatus
  BY VideoTrack DEF FilmTypes, GuestTypes
<1>2. /\ guest' = IF guest.link = "on" THEN Emitted(guest) ELSE guest
      /\ UNCHANGED <<host, flight, offered>> /\ screen.there # there
  BY DEF SetElements
<1>3. /\ guest' \in GuestTypes /\ guest'.link = guest.link /\ guest'.track = guest.track
      /\ guest'.received = guest.received /\ guest'.from = guest.from /\ CardFollowsTracks'
  BY <1>1, <1>2, EmittedShape DEF CardFollowsTracks
<1>4. /\ screen' \in ScreenTypes
      /\ screen'.source = IF screen'.there = "yes" THEN video ELSE None
      /\ guest.link = "off" => Nobodys(screen')
  <2>1. CASE there = "no"
    <3> DEFINE detached == Detached(screen, video)
    <3>1. screen' = [Paused(detached) EXCEPT !.there = "no"]
      BY <2>1 DEF SetElements
    <3>2. /\ detached \in ScreenTypes /\ detached.source = None
          /\ Nobodys(screen) => Nobodys(detached)
      BY <1>1, DetachedShape DEF SourceIsTrack, ScreenTypes
    <3> HIDE DEF detached
    <3>3. /\ Paused(detached) \in ScreenTypes /\ Paused(detached).source = None
          /\ Nobodys(screen) => Nobodys(Paused(detached))
      BY <3>2, PausedShape
    <3>4. /\ screen' \in ScreenTypes /\ screen'.there = "no" /\ screen'.source = None
          /\ Nobodys(screen) => Nobodys(screen')
      BY <3>1, <3>3 DEF ScreenTypes, Nobodys
    <3> QED BY <3>4 DEF NothingWhileAway, Nobodys
  <2>2. CASE there = "yes"
    <3> DEFINE empty == [NewScreen EXCEPT !.plays = screen.plays]
               fresh == Attached(empty, video)
    <3>1. /\ empty \in ScreenTypes /\ empty.there = "yes" /\ empty.source = None
          /\ empty.plays = screen.plays
      BY <1>1, NewScreenShape
    <3>2. screen' = IF guest.heard = "yes" THEN Applied(fresh, guest.view.status) ELSE fresh
      BY <2>2 DEF SetElements
    <3> HIDE DEF empty
    <3>3. /\ fresh \in ScreenTypes /\ fresh.there = "yes" /\ fresh.source = video
          /\ video = None => fresh.plays = screen.plays
      BY <1>1, <3>1, AttachedShape
    <3> HIDE DEF fresh
    <3>4. screen' \in ScreenTypes /\ screen'.there = "yes" /\ screen'.source = video
      BY <1>1, <3>2, <3>3, AppliedShape
    <3>5. guest.link = "off" => video = None /\ guest.heard = "no" /\ Nobodys(screen)
      BY AwayTypes, ScreeningAssumption DEF NothingWhileAway, Nobodys
    <3>6. guest.link = "off" => Nobodys(screen')
      BY <3>2, <3>3, <3>5 DEF Nobodys
    <3> QED BY <3>4, <3>6
  <2> QED BY <2>1, <2>2
<1>5. SourceIsTrack' /\ NothingWhileAway'
  BY <1>2, <1>3, <1>4 DEF SourceIsTrack, NothingWhileAway, Nobodys
<1> QED BY <1>1, <1>2, <1>3, <1>4, <1>5, TracksKeep

\* A track that is new to the guest is of the publication; its controller and its
\* element take it.
LEMMA TrackSubscribedStep ==
  ASSUME ScreeningInv, NEW t \in Tracks, TrackSubscribed(t)
  PROVE  ScreeningInv'
<1> USE DEF ScreeningInv
<1>1. /\ guest \in GuestTypes /\ screen \in ScreenTypes /\ offered \subseteq Tracks
      /\ guest.track["video"] \in Shows \cup {None}
      /\ t.show \in Shows /\ t.kind \in Kinds /\ t = [show |-> t.show, kind |-> t.kind]
  BY VideoTrack DEF FilmTypes, Tracks
<1>2. /\ guest.link = "on" /\ t \in offered \ guest.received
      /\ UNCHANGED <<host, flight, offered>>
  BY DEF TrackSubscribed
<1>3. /\ guest' \in GuestTypes /\ guest'.link = "on" /\ guest'.remote = "receiving"
      /\ guest'.from = "host" /\ guest'.received = guest.received \cup {t}
      /\ guest'.track = [guest.track EXCEPT ![t.kind] = t.show]
  BY <1>1 DEF TrackSubscribed, GuestTypes
<1>4. guest'.track[t.kind] = t.show /\ \A k \in Kinds \ {t.kind} : guest'.track[k] = guest.track[k]
  BY <1>1, <1>3 DEF GuestTypes
<1>5. screen' \in ScreenTypes /\ SourceIsTrack'
  <2>1. CASE t.kind = "video"
    <3> DEFINE detached == Detached(screen, guest.track["video"])
    <3>1. screen' = Attached(detached, t.show)
      BY <2>1 DEF TrackSubscribed
    <3>2. detached \in ScreenTypes /\ detached.source = None
      BY <1>1, DetachedShape DEF SourceIsTrack, ScreenTypes
    <3> HIDE DEF detached
    <3>3. /\ screen' \in ScreenTypes
          /\ screen'.source = IF screen'.there = "yes" THEN t.show ELSE None
      BY <1>1, <3>1, <3>2, AttachedShape, ScreeningAssumption DEF ScreenTypes
    <3> QED BY <1>4, <2>1, <3>3 DEF SourceIsTrack
  <2>2. CASE t.kind # "video"
    BY <1>1, <1>4, <2>2, ScreeningAssumption DEF TrackSubscribed, SourceIsTrack
  <2> QED BY <2>1, <2>2
<1>6. TracksAreReceived'
  <2>1. ASSUME NEW k \in Kinds, guest'.track[k] # None
        PROVE  [show |-> guest'.track[k], kind |-> k] \in guest'.received
    BY <1>1, <1>3, <1>4, <2>1 DEF TracksAreReceived
  <2>2. ASSUME NEW u \in guest'.received \cap offered' PROVE guest'.track[u.kind] = u.show
    <3>1. u \in Tracks /\ u \in offered /\ u.kind \in Kinds /\ u = [show |-> u.show, kind |-> u.kind]
      BY <1>1, <1>2 DEF Tracks
    <3>2. u.show = host.show /\ t.show = host.show
      BY <1>2, <3>1 DEF OfferedIsShown
    <3>3. CASE u.kind = t.kind
      BY <1>4, <3>2, <3>3
    <3>4. CASE u.kind # t.kind
      BY <1>3, <1>4, <3>1, <3>4 DEF TracksAreReceived
    <3> QED BY <3>3, <3>4
  <2> QED BY <1>3, <2>1, <2>2 DEF TracksAreReceived
<1>7. CardFollowsTracks'
  BY <1>1, <1>3, <1>4, ScreeningAssumption DEF CardFollowsTracks
<1>8. FilmTypes' /\ OfferedIsShown' /\ NothingWhileAway'
  BY <1>2, <1>3, <1>5 DEF FilmTypes, OfferedIsShown, NothingWhileAway
<1> QED BY <1>5, <1>6, <1>7, <1>8

\* A guest without a connection has no tracks and waits for nobody.
LEMMA ConnectedWithTracks ==
  ASSUME ScreeningInv, guest.received # {} \/ guest.left = "yes"
  PROVE  guest.link = "on"
BY AwayTypes DEF ScreeningInv, FilmTypes, GuestTypes, NothingWhileAway

\* A track that is gone leaves the controller and the element only if they have it.
LEMMA TrackUnsubscribedStep ==
  ASSUME ScreeningInv, NEW t \in Tracks, TrackUnsubscribed(t)
  PROVE  ScreeningInv'
<1> USE DEF ScreeningInv
<1> DEFINE g == [guest EXCEPT !.received = @ \ {t},
                              !.track[t.kind] = IF @ = t.show THEN None ELSE @]
<1>1. /\ guest \in GuestTypes /\ screen \in ScreenTypes /\ offered \subseteq Tracks
      /\ t.show \in Shows /\ t.kind \in Kinds /\ t = [show |-> t.show, kind |-> t.kind]
  BY DEF FilmTypes, Tracks
<1>2. /\ t \in guest.received \ offered /\ guest.link = "on"
      /\ UNCHANGED <<host, flight, offered>> /\ guest' = Emitted(g)
  BY ConnectedWithTracks DEF TrackUnsubscribed
<1>3. /\ g \in GuestTypes /\ g.link = "on" /\ g.received = guest.received \ {t}
      /\ g.from = guest.from
      /\ g.track = [guest.track EXCEPT ![t.kind] = IF @ = t.show THEN None ELSE @]
  BY <1>1, <1>2 DEF GuestTypes
<1> HIDE DEF g
<1>4. /\ guest' \in GuestTypes /\ guest'.link = "on" /\ guest'.from = guest.from
      /\ guest'.received = guest.received \ {t} /\ guest'.track = g.track
      /\ CardFollowsTracks'
  BY <1>2, <1>3, EmittedShape DEF CardFollowsTracks
<1>5. /\ guest'.track[t.kind] = IF guest.track[t.kind] = t.show THEN None ELSE guest.track[t.kind]
      /\ \A k \in Kinds \ {t.kind} : guest'.track[k] = guest.track[k]
  BY <1>1, <1>3, <1>4 DEF GuestTypes
<1>6. screen' \in ScreenTypes /\ SourceIsTrack'
  <2>1. CASE t.kind = "video"
    <3>1. screen' = Detached(screen, t.show)
      BY <2>1 DEF TrackUnsubscribed
    <3>2. /\ screen' \in ScreenTypes /\ screen'.there = screen.there
          /\ screen'.source = IF screen.there = "yes" /\ screen.source = t.show THEN None
                              ELSE screen.source
      BY <1>1, <3>1, DetachedShape
    <3> QED BY <1>5, <2>1, <3>2 DEF SourceIsTrack
  <2>2. CASE t.kind # "video"
    BY <1>1, <1>5, <2>2, ScreeningAssumption DEF TrackUnsubscribed, SourceIsTrack
  <2> QED BY <2>1, <2>2
<1>7. TracksAreReceived'
  <2>1. ASSUME NEW k \in Kinds, guest'.track[k] # None
        PROVE  [show |-> guest'.track[k], kind |-> k] \in guest'.received
    <3>1. guest'.track[k] = guest.track[k]
      BY <1>5, <2>1
    <3>2. [show |-> guest.track[k], kind |-> k] \in guest.received
      BY <2>1, <3>1 DEF TracksAreReceived
    <3>3. [show |-> guest.track[k], kind |-> k] # t
      BY <1>1, <1>5, <2>1
    <3> QED BY <1>4, <3>1, <3>2, <3>3
  <2>2. ASSUME NEW u \in guest'.received \cap offered' PROVE guest'.track[u.kind] = u.show
    <3>1. /\ u \in guest.received \cap offered /\ u # t
          /\ u.kind \in Kinds /\ u = [show |-> u.show, kind |-> u.kind]
      BY <1>1, <1>2, <1>4 DEF Tracks
    <3>2. guest.track[u.kind] = u.show
      BY <3>1 DEF TracksAreReceived
    <3> QED BY <1>1, <1>5, <3>1, <3>2
  <2> QED BY <1>4, <2>1, <2>2 DEF TracksAreReceived
<1>8. FilmTypes' /\ OfferedIsShown' /\ NothingWhileAway'
  BY <1>2, <1>4, <1>6 DEF FilmTypes, OfferedIsShown, NothingWhileAway
<1> QED BY <1>4, <1>6, <1>7, <1>8

\* With the host go all its tracks.
LEMMA HostDisconnectedStep == ScreeningInv /\ HostDisconnected => ScreeningInv'
<1> SUFFICES ASSUME ScreeningInv, HostDisconnected PROVE ScreeningInv'
  OBVIOUS
<1> USE DEF ScreeningInv
<1>1. /\ guest \in GuestTypes /\ screen \in ScreenTypes
      /\ guest.track["video"] \in Shows \cup {None}
  BY VideoTrack DEF FilmTypes
<1>2. /\ guest.link = "on" /\ UNCHANGED <<host, flight, offered>>
      /\ screen' = Detached(screen, guest.track["video"])
  BY ConnectedWithTracks DEF HostDisconnected
<1>3. screen' \in ScreenTypes /\ screen'.source = None
  BY <1>1, <1>2, DetachedShape DEF SourceIsTrack, ScreenTypes
<1>4. /\ guest' \in GuestTypes /\ guest'.link = "on" /\ guest'.received = {}
      /\ \A k \in Kinds : guest'.track[k] = None
      /\ guest'.remote \in {"waiting", "lost", "error"}
  <2>1. CASE guest.from = "nobody"
    <3>1. guest' = [guest EXCEPT !.left = "no", !.received = {}]
      BY <2>1 DEF HostDisconnected
    <3>2. \A k \in Kinds : guest.track[k] = None
      BY <2>1 DEF TracksAreReceived
    <3> QED BY <1>1, <1>2, <3>1, <3>2 DEF GuestTypes, CardFollowsTracks
  <2>2. CASE guest.from # "nobody"
    <3>1. guest' = [guest EXCEPT !.left = "no", !.received = {}, !.remote = "lost",
                                 !.from = "nobody", !.track = NoTracks]
      BY <2>2 DEF HostDisconnected
    <3> QED BY <1>1, <1>2, <3>1 DEF GuestTypes, NoTracks
  <2> QED BY <2>1, <2>2
<1>5. FilmTypes' /\ OfferedIsShown' /\ NothingWhileAway'
  BY <1>2, <1>3, <1>4 DEF FilmTypes, OfferedIsShown, NothingWhileAway
<1>6. TracksAreReceived' /\ SourceIsTrack' /\ CardFollowsTracks'
  BY <1>3, <1>4, ScreeningAssumption DEF TracksAreReceived, SourceIsTrack, CardFollowsTracks
<1> QED BY <1>5, <1>6

-----------------------------------------------------------------------------
(***************************************************************************)
(* Playback states and the answers to plays                                *)
(***************************************************************************)

\* A message changes what the card reads and what the element does, not what it has.
LEMMA ReceiveStateStep == ScreeningInv /\ ReceiveState => ScreeningInv'
<1> SUFFICES ASSUME ScreeningInv, ReceiveState PROVE ScreeningInv'
  OBVIOUS
<1> USE DEF ScreeningInv
<1> DEFINE message == Head(flight)
<1>1. /\ guest \in GuestTypes /\ screen \in ScreenTypes /\ flight \in Seq(Messages)
      /\ flight # <<>>
  BY DEF FilmTypes, ReceiveState
<1>2. message \in Messages /\ Tail(flight) \in Seq(Messages)
  BY <1>1
<1>3. flight' = Tail(flight) /\ UNCHANGED <<host, offered>> /\ guest.link = "on"
  BY <1>1 DEF ReceiveState, NothingWhileAway, GuestTypes
<1> HIDE DEF message
<1>4. PICK n \in Earlier(message) :
         IF n > 0
         THEN guest' = [guest EXCEPT !.earlier = n - 1] /\ UNCHANGED screen
         ELSE /\ guest' = [guest EXCEPT !.earlier = 0, !.heard = "yes",
                                        !.view = [Idle EXCEPT !.status = message.status]]
              /\ screen' = Applied(screen, message.status)
  BY DEF ReceiveState, message
<1>5. n \in 0 .. MaxEarlier
  BY <1>1, <1>4, ScreeningAssumption DEF Earlier, GuestTypes
<1>6. /\ guest' \in GuestTypes /\ guest'.link = guest.link /\ guest'.track = guest.track
      /\ guest'.received = guest.received /\ guest'.from = guest.from
      /\ guest'.remote = guest.remote
  <2>1. CASE n > 0
    <3>1. n - 1 \in 0 .. MaxEarlier
      BY <1>5, <2>1, ScreeningAssumption
    <3> QED BY <1>1, <1>4, <2>1, <3>1 DEF GuestTypes
  <2>2. CASE ~(n > 0)
    <3>1. 0 \in 0 .. MaxEarlier
      BY ScreeningAssumption
    <3>2. [Idle EXCEPT !.status = message.status] \in [status : FilmStatus, error : {"yes", "no"}]
      BY <1>2 DEF Idle, Messages
    <3>3. guest' = [guest EXCEPT !.earlier = 0, !.heard = "yes",
                                 !.view = [Idle EXCEPT !.status = message.status]]
      BY <1>4, <2>2
    <3> QED BY <1>1, <3>1, <3>2, <3>3 DEF GuestTypes
  <2> QED BY <2>1, <2>2
<1>7. /\ screen' \in ScreenTypes /\ screen'.there = screen.there
      /\ screen'.source = screen.source
  <2>1. message.status \in FilmStatus
    BY <1>2 DEF Messages
  <2> QED BY <1>1, <1>4, <2>1, AppliedShape
<1>8. SourceIsTrack' /\ CardFollowsTracks' /\ NothingWhileAway'
  BY <1>3, <1>6, <1>7 DEF SourceIsTrack, CardFollowsTracks, NothingWhileAway
<1> QED BY <1>2, <1>3, <1>6, <1>7, <1>8, TracksKeep

\* A play that begins, or is refused: the card of a connected guest may tell, that of
\* a guest that is away stays idle.
LEMMA PlayAnsweredStep ==
  ASSUME ScreeningInv, NEW p \in screen.plays, PlayBegins(p) \/ PlayRefused(p)
  PROVE  ScreeningInv'
<1> USE DEF ScreeningInv
<1>1. /\ guest \in GuestTypes /\ screen \in ScreenTypes /\ flight \in Seq(Messages)
      /\ p \in PlayTypes
  BY DEF FilmTypes, ScreenTypes
<1>2. UNCHANGED <<host, flight, offered>> /\ guest' \in {guest, Refused(p.by)}
  BY DEF PlayBegins, PlayRefused
<1>3. guest.link = "off" => Refused(p.by) = guest
  BY DEF NothingWhileAway, Refused
<1>4. /\ guest' \in GuestTypes /\ guest'.link = guest.link /\ guest'.track = guest.track
      /\ guest'.received = guest.received /\ guest'.from = guest.from
      /\ guest'.remote \in {guest.remote, "error"}
      /\ guest.link = "off" => guest' = guest
  <2>1. CASE guest' = guest
    BY <1>1, <2>1
  <2>2. CASE guest' = Refused(p.by) /\ p.by = "state"
    BY <1>1, <1>3, <2>2 DEF Refused, GuestTypes, FilmStatus
  <2>3. CASE guest' = Refused(p.by) /\ p.by = "track"
    BY <1>1, <1>3, <2>3 DEF Refused, GuestTypes
  <2>4. CASE guest' = Refused(p.by) /\ p.by = "nobody"
    BY <1>1, <2>4 DEF Refused
  <2> QED BY <1>1, <1>2, <2>1, <2>2, <2>3, <2>4 DEF PlayTypes
<1>5. /\ Without(p) \in ScreenTypes /\ Without(p).there = screen.there
      /\ Without(p).source = screen.source /\ Without(p).plays \subseteq screen.plays
  BY <1>1 DEF Without, ScreenTypes
<1>6. screen' \in {Without(p), [Without(p) EXCEPT !.state = "paused"]}
  BY DEF PlayBegins, PlayRefused
<1> HIDE DEF Without
<1>7. /\ screen' \in ScreenTypes /\ screen'.there = screen.there
      /\ screen'.source = screen.source /\ screen'.plays \subseteq screen.plays
  BY <1>5, <1>6 DEF ScreenTypes
<1>8. SourceIsTrack' /\ CardFollowsTracks' /\ NothingWhileAway'
  BY <1>2, <1>4, <1>7 DEF SourceIsTrack, CardFollowsTracks, NothingWhileAway
<1> QED BY <1>1, <1>2, <1>4, <1>7, <1>8, TracksKeep

\* The answer to a play of the sound reaches a controller that is connected.
LEMMA ResumeAudioStep == ScreeningInv /\ ResumeAudio => ScreeningInv'
<1> SUFFICES ASSUME ScreeningInv, ResumeAudio PROVE ScreeningInv'
  OBVIOUS
<1> USE DEF ScreeningInv
<1>1. /\ guest \in GuestTypes /\ screen \in ScreenTypes /\ flight \in Seq(Messages)
      /\ guest.link = "on" /\ UNCHANGED <<host, flight, offered, screen>>
  BY AwayTypes DEF FilmTypes, GuestTypes, NothingWhileAway, ResumeAudio
<1>2. /\ guest' \in GuestTypes /\ guest'.link = guest.link /\ guest'.track = guest.track
      /\ guest'.received = guest.received /\ guest'.from = guest.from /\ CardFollowsTracks'
  <2>1. CASE guest' = Emitted(guest)
    BY <1>1, <2>1, EmittedShape DEF CardFollowsTracks
  <2>2. CASE guest' = [guest EXCEPT !.remote = "error"]
    BY <1>1, <2>2 DEF GuestTypes, CardFollowsTracks
  <2> QED BY <2>1, <2>2 DEF ResumeAudio
<1>3. SourceIsTrack' /\ NothingWhileAway'
  BY <1>1, <1>2 DEF SourceIsTrack, NothingWhileAway
<1> QED BY <1>1, <1>2, <1>3, TracksKeep

\* Every step keeps the invariant.
LEMMA ScreeningStep == ScreeningInv /\ [ScreeningNext]_screeningVars => ScreeningInv'
<1> SUFFICES ASSUME ScreeningInv, [ScreeningNext]_screeningVars PROVE ScreeningInv'
  OBVIOUS
<1>1. CASE UNCHANGED screeningVars
  BY <1>1 DEF screeningVars, ScreeningInv, FilmTypes, OfferedIsShown, NothingWhileAway,
              TracksAreReceived, SourceIsTrack, CardFollowsTracks
<1>2. CASE \E show \in Shows : PublishFilm(show)
  BY <1>2, PublishFilmStep
<1>3. CASE ChangeFilm \/ Heartbeat \/ StopFilm \/ LoseHost
  BY <1>3, FilmStep, StopFilmStep, LoseHostStep
<1>4. CASE ConnectGuest \/ DisconnectGuest
  BY <1>4, ConnectGuestStep, DisconnectGuestStep
<1>5. CASE \E there \in {"yes", "no"} : SetElements(there)
  BY <1>5, SetElementsStep
<1>6. CASE \E t \in Tracks : TrackSubscribed(t) \/ TrackUnsubscribed(t)
  BY <1>6, TrackSubscribedStep, TrackUnsubscribedStep
<1>7. CASE HostDisconnected \/ ReceiveState \/ ResumeAudio
  BY <1>7, HostDisconnectedStep, ReceiveStateStep, ResumeAudioStep
<1>8. CASE \E p \in screen.plays : PlayBegins(p) \/ PlayRefused(p)
  BY <1>8, PlayAnsweredStep
<1> QED BY <1>1, <1>2, <1>3, <1>4, <1>5, <1>6, <1>7, <1>8 DEF ScreeningNext

\* ScreeningInv holds in every state of a screening.
LEMMA ScreeningInvariant == ScreeningSpec => []ScreeningInv
<1> QED BY ScreeningInitially, ScreeningStep, PTL DEF ScreeningSpec

\* Host, messages, tracks, guest and element have their types.
THEOREM ScreeningTypeCorrect == ScreeningSpec => []ScreeningTypes
<1>1. ScreeningInv => ScreeningTypes
  BY FilmTypesAre DEF ScreeningInv
<1> QED BY <1>1, ScreeningInvariant, PTL

\* A guest that has been told of every track has the host's film on its element and
\* its card, whatever order tracks and elements came and went in
\* (handleTrackSubscribed, handleTrackUnsubscribed, setElements).
THEOREM OfferedFilmTheorem == ScreeningSpec => []ShowsOfferedFilm
<1>1. ScreeningInv => ShowsOfferedFilm
  <2> SUFFICES ASSUME ScreeningInv, guest.link = "on", guest.left = "no", guest.received = offered
               PROVE  /\ \A k \in Kinds : guest.track[k] = OfferedShow(k)
                      /\ screen.there = "yes" => screen.source = OfferedShow("video")
                      /\ offered = {} => guest.remote \in {"waiting", "lost", "error"}
                      /\ offered # {} => guest.remote \in {"receiving", "error"}
    BY DEF ShowsOfferedFilm
  <2> USE DEF ScreeningInv
  <2>1. ASSUME NEW k \in Kinds PROVE guest.track[k] = OfferedShow(k)
    <3>1. CASE \E t \in offered : t.kind = k
      <4> DEFINE t == CHOOSE t \in offered : t.kind = k
      <4>1. t \in offered /\ t.kind = k
        BY <3>1
      <4> HIDE DEF t
      <4>2. guest.track[k] = t.show
        BY <4>1 DEF TracksAreReceived
      <4> QED BY <3>1, <4>2 DEF OfferedShow, t
    <3>2. CASE ~\E t \in offered : t.kind = k
      <4>1. guest.track[k] = None
        BY <3>2 DEF TracksAreReceived
      <4> QED BY <3>2, <4>1 DEF OfferedShow
    <3> QED BY <3>1, <3>2
  <2>2. screen.there = "yes" => screen.source = OfferedShow("video")
    BY <2>1, ScreeningAssumption DEF SourceIsTrack
  <2>3. offered = {} => \A k \in Kinds : guest.track[k] = None
    BY DEF TracksAreReceived
  <2>4. offered # {} => \E k \in Kinds : guest.track[k] # None
    <3> SUFFICES ASSUME NEW t \in offered PROVE \E k \in Kinds : guest.track[k] # None
      OBVIOUS
    <3>1. t.kind \in Kinds /\ t.show \in Shows /\ guest.track[t.kind] = t.show
      BY DEF FilmTypes, Tracks, TracksAreReceived
    <3> QED BY <3>1, ScreeningAssumption
  <2> QED BY <2>1, <2>2, <2>3, <2>4 DEF CardFollowsTracks
<1> QED BY <1>1, ScreeningInvariant, PTL

\* A tab without a connection shows nothing of the film, whatever its former
\* controllers hear later (disconnect of the remote playback controller).
THEOREM SilentTheorem == ScreeningSpec => []SilentWhenAway
<1>1. ScreeningInv => SilentWhenAway
  BY AwayTypes, ScreeningAssumption
     DEF ScreeningInv, NothingWhileAway, SourceIsTrack, SilentWhenAway
<1> QED BY <1>1, ScreeningInvariant, PTL

=============================================================================
