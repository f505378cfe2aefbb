----------------------------- MODULE MCUwfHome -----------------------------
(* Homes that tell of two threads in one to three sources. *)
EXTENDS UwfHome

R(id, form, status) == [id |-> id, form |-> form, status |-> status]
Old(id, status) == R(id, "object", status)

MCLegacies == {
    <<<<R("w", "string", "idle"), R("u", "broken", "idle")>>,
      <<R("t", "string", "idle"), Old("u", "completed")>>, Absent, Absent>>,
    <<Absent, <<R("u", "broken", "idle"), Old("t", "suspended")>>,
      <<Old("t", "end"), Old("u", "completed"), Old("u", "cancelled")>>, Absent>>,
    <<Absent, <<Old("t", "idle"), Old("u", "idle")>>,
      <<Old("u", "cancelled"), R("t", "broken", "end")>>, <<Old("u", "completed")>>>>,
    <<Absent, Absent, <<Old("t", "cancelled")>>, <<Old("t", "end"), Old("u", "cancelled")>>>>}
=============================================================================
