-------------------------------- MODULE Requests --------------------------------
(* What holds of all the requests that clients repeat or confirm: those of the    *)
(* web application (WebOperations), and those that clean up a history (Cleanups). *)
EXTENDS WebOperations, Cleanups

\* A request that is repeated is carried out once, and reported so: an operation of the web
\* application (dispatch in web.py), and a confirmed clean-up (_history_request in ipc.py).
ExecutedOnce == AskedOnce /\ UnknownIsUnasked /\ ConfirmedOnce
=================================================================================
