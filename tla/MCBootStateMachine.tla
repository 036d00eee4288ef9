------------------------- MODULE MCBootStateMachine -------------------------
(* The boot of one device, with run_cvd and one more subscriber.           *)
EXTENDS BootStateMachine

MCSubscribers == <<"webrtc", "run_cvd">>

Device(fail_fast, restoring, timeout, restart, listeners) ==
    [fail_fast |-> fail_fast, restoring |-> restoring, timeout |-> timeout,
     restart |-> restart, listeners |-> listeners]

(* A device that is left running when its boot fails and whose monitor is  *)
(* not restarted, one that fails fast without a timeout, one restored from *)
(* a snapshot, and one that fails fast in the foreground.                  *)
MCConfs ==
    {Device(FALSE, FALSE, TRUE, FALSE, {"fg"}), Device(TRUE, FALSE, FALSE, TRUE, {"fg", "reboot"}),
     Device(FALSE, TRUE, TRUE, TRUE, {"fg"}), Device(TRUE, FALSE, TRUE, FALSE, {"reboot"})}
=============================================================================
