---------------------------- MODULE MCIngestion ----------------------------
\* The wiring of index.ts in units of 30 seconds: RunPod's catalog is remote,
\* the other feeds are fixtures.
EXTENDS Ingestion

CONSTANTS runpod, lambda_labs, coreweave
=============================================================================
