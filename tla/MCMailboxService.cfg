SPECIFICATION ServiceSpec
CONSTANTS
  Modules <- MCModules
  StandardCapacity <- MCStandardCapacity
  HighCapacity <- MCHighCapacity
  Messages <- MCMessages
  MaxRejected = 1
PROPERTIES
  ControlIsServed
  StandardServedOnceControlStops
