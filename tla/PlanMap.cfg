\* MAX_EDGES is what MAX_NODES steps allow without a cycle, as 2016 is for 64.
\* The sizes of cards and gutters are the code's.
CONSTANTS
  t1 = t1
  t2 = t2
  t3 = t3
  t4 = t4
  e1 = e1
  e2 = e2
  Tasks <- MCTasks
  Events <- MCEvents
  Replies <- MCReplies
  MAX_NODES = 4
  MAX_EDGES = 6
  MAX_EVENTS = 2
  Graphs <- MCGraphs
SPECIFICATION PlanSpec
INVARIANTS
  AcceptedIsAcyclic
  ExactlyPlansAreAccepted
  DrawingIsClear
  DrawingIsTrue
