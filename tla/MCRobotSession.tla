--------------------------- MODULE MCRobotSession ---------------------------
\* Model values for the runs of RobotSession: requests and responses with an
\* empty body (getRoboContainerInfo sends one) and with one of two chunks.
EXTENDS RobotSession

MCBodyLens == {0, 2}
=============================================================================
