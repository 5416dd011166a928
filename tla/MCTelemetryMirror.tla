-------------------------- MODULE MCTelemetryMirror --------------------------
EXTENDS TelemetryMirror
=============================================================================
