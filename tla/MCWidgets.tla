----------------------------- MODULE MCWidgets -----------------------------
EXTENDS Widgets

MCContent  == Lists
MCBlank    == <<>>
MCNudges   == {2, 4}
MCStatuses == {"labeled", "unlabeled"}
=============================================================================
