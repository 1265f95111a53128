SPECIFICATION Spec
CONSTANTS
  Node = {11, 12, 21, 22}
  Clients = {client_list, cl_b1}
  Queue = queueTop
  Objects = objects
  client_list = client_list
  cl_b1 = cl_b1
  queueTop = queueTop
  objects = objects
INVARIANTS
  RingsClose
  RingInv
PROPERTIES
  ImplementsLists
